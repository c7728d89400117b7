--------------------------- MODULE DiscoveryProofs ---------------------------
(***************************************************************************)
(* What module Discovery promises for any locks, devices and platforms: a   *)
(* call gets the lock it was made for, and leaves nothing running.          *)
(***************************************************************************)
EXTENDS Discovery, TLAPS

(* A peripheral is recognised by what it shows, and what it shows is its    *)
(* own on either platform (locks.js 9-14, 40-43; probe.js 191-196).         *)
LEMMA MatchesOnlyItself ==
    ASSUME NEW l, NEW p, matches(l, p)
    PROVE  p = l
<1>1. CASE platform = "linux"
  <2>1. [mac |-> p] \in identifiersFor(l)
    BY <1>1 DEF matches, identifiersOf, Shown
  <2>2. [mac |-> p] = [mac |-> l]
    BY <1>1, <2>1 DEF identifiersFor, Shown
  <2>3. [mac |-> p].mac = [mac |-> l].mac
    BY <2>2
  <2> QED BY <2>3
<1>2. CASE platform # "linux"
  <2>1. [uuid |-> p] \in identifiersFor(l)
    BY <1>2 DEF matches, identifiersOf, Shown
  <2>2. [uuid |-> p] = [mac |-> l] \/ [uuid |-> p] = [uuid |-> l]
    BY <1>2, <2>1 DEF identifiersFor, Shown
  <2>3. DOMAIN [uuid |-> p] = {"uuid"} /\ DOMAIN [mac |-> l] = {"mac"}
    OBVIOUS
  <2>4. [uuid |-> p] # [mac |-> l]
    BY <2>3
  <2>5. [uuid |-> p].uuid = [uuid |-> l].uuid
    BY <2>2, <2>4
  <2> QED BY <2>5
<1> QED BY <1>1, <1>2

-----------------------------------------------------------------------------
(* Whoever reaches for a lock gets that lock, or nothing.                   *)
THEOREM GetsItsLock == Spec => []NeverMistaken
<1>1. Init => NeverMistaken
  BY DiscoveryAssumption DEF Init, NeverMistaken
<1>2. NeverMistaken /\ [Next]_vars => NeverMistaken'
  <2> SUFFICES ASSUME NeverMistaken, [Next]_vars PROVE NeverMistaken'
    OBVIOUS
  <2> USE DEF NeverMistaken
  <2>1. ASSUME NEW t, NEW l, Call(t, l) PROVE NeverMistaken'
    BY <2>1, DiscoveryAssumption DEF Call
  <2>2. CASE PowerFails
    BY <2>2, DiscoveryAssumption DEF PowerFails
  <2>3. CASE ScanAllFails
    BY <2>3, DiscoveryAssumption DEF ScanAllFails
  <2>4. CASE Stopped
    <3>1. target' = target
      BY <2>4 DEF Stopped, call
    <3>2. outcome' \in {"failed", "listed"} \/ matches(target, outcome')
      BY <2>4 DEF Stopped
    <3> QED BY <3>1, <3>2, MatchesOnlyItself, DiscoveryAssumption
  <2>5. ASSUME NEW p, Discover(p) \/ InspectConnects(p) \/ InspectFails(p)
        PROVE  UNCHANGED <<outcome, target>>
    BY <2>5 DEF Discover, InspectConnects, InspectFails, call
  <2>6. ASSUME Begin \/ ScanStarts \/ StartFails \/ TimerFires \/ Inspected
               \/ LockWakesOrSleeps \/ AdapterSwitched \/ UNCHANGED vars
        PROVE  UNCHANGED <<outcome, target>>
    BY <2>6 DEF Begin, ScanStarts, StartFails, TimerFires, Inspected, LockWakesOrSleeps,
                AdapterSwitched, vars, call
  <2> QED BY <2>1, <2>2, <2>3, <2>4, <2>5, <2>6 DEF Next
<1> QED BY <1>1, <1>2, PTL DEF Spec

-----------------------------------------------------------------------------
(* Where listener, timer, scan and link can be found.  scanAll() is told    *)
(* apart, since it arms its timer only once the scan has started.           *)
Held ==
    /\ listening => phase \in {"start", "scan"}
    /\ timer => phase \in {"start", "scan"} /\ (phase = "start" => task # "scan")
    /\ scanning => phase \in {"scan", "stop"}
    /\ link # "none" => phase = "look"

LEMMA HeldOver == Held => ScanIsOver
BY DEF Held, ScanIsOver

(* A call that is over, or goes on to connect, has left no scan, listener,  *)
(* timer or link behind.                                                    *)
THEOREM LeavesNothing == Spec => []ScanIsOver
<1>1. Init => Held
  BY DEF Init, Held
<1>2. Held /\ [Next]_vars => Held'
  <2> SUFFICES ASSUME Held, [Next]_vars PROVE Held'
    OBVIOUS
  <2> USE DEF Held, call, inspection, radio, credentials, Done
  <2>1. ASSUME NEW t, NEW l, Call(t, l) PROVE Held'
    BY <2>1 DEF Call
  <2>2. ASSUME NEW p, Discover(p) PROVE Held'
    BY <2>2 DEF Discover
  <2>3. ASSUME NEW p, InspectConnects(p) \/ InspectFails(p) PROVE Held'
    BY <2>3 DEF InspectConnects, InspectFails
  <2>4. CASE Begin
    BY <2>4 DEF Begin
  <2>5. CASE PowerFails
    BY <2>5 DEF PowerFails
  <2>6. CASE ScanStarts
    BY <2>6 DEF ScanStarts
  <2>7. CASE StartFails
    BY <2>7 DEF StartFails
  <2>8. CASE ScanAllFails
    BY <2>8 DEF ScanAllFails
  <2>9. CASE TimerFires
    BY <2>9 DEF TimerFires
  <2>10. CASE Stopped
    BY <2>10 DEF Stopped
  <2>11. CASE Inspected
    BY <2>11 DEF Inspected
  <2>12. CASE LockWakesOrSleeps
    BY <2>12 DEF LockWakesOrSleeps
  <2>13. CASE AdapterSwitched
    BY <2>13 DEF AdapterSwitched
  <2>14. CASE UNCHANGED vars
    BY <2>14 DEF vars
  <2> QED
    BY <2>1, <2>2, <2>3, <2>4, <2>5, <2>6, <2>7, <2>8, <2>9, <2>10, <2>11, <2>12, <2>13,
       <2>14 DEF Next
<1> QED BY <1>1, <1>2, HeldOver, PTL DEF Spec

=============================================================================
