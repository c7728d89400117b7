------------------------------ MODULE CliProofs ------------------------------
(***************************************************************************)
(* What module Cli promises for any number of locks: success is real, every *)
(* lock gets its word, and a process in time leaves no link behind.         *)
(***************************************************************************)
EXTENDS Cli, TLAPS

Phases == {"waits", "over"} \cup Working
Linked == {"setup", "login", "bolt", "again", "read", "closing"}
Words  == {None, "could not reach", "identified", "no match", "read", "done", "JAMMED",
           "could not confirm"}

Types ==
    /\ command \in Commands /\ last \in Locks /\ goal \in Goals
    /\ command = "bolt" => last = 1
    /\ turn \in Nat \ {0}
    /\ phase \in [Locks -> Phases]
    /\ thrown \in [Locks -> BOOLEAN] /\ link \in [Locks -> BOOLEAN]
    /\ verdict \in [Locks -> Words]
    /\ code \in {0, 1} /\ exited \in BOOLEAN /\ late \in BOOLEAN
    /\ crashed \in BOOLEAN /\ motor \in {"idle", "due", "ran"}

(* Locks are dealt with in their order, each of them once.                  *)
Turns ==
    /\ \A l \in Locks : l < turn => verdict[l] # None
    /\ \A l \in Locks : l >= turn /\ turn <= last => verdict[l] = None
    /\ \A l \in Locks : l > turn \/ l > last => phase[l] = "waits"
    /\ exited => turn > last \/ (command = "try" /\ late) \/ crashed
    /\ crashed => exited /\ code = 1

(* Only a session has a link, and unless a deadline has passed there is one *)
(* session, the awaited one.                                                *)
Links ==
    /\ \A l \in Locks : link[l] => phase[l] \in Linked
    /\ \A l \in Locks : ~late /\ l # turn => phase[l] \in {"waits", "over"}

IInv == Types /\ Turns /\ Links

LEMMA OneIsALock == 1 \in Locks /\ \A l \in Locks : l \in Nat /\ l # 0 /\ l + 1 \in Nat \ {0}
BY CliAssumption DEF Locks

(* What is printed when a session ends (141-173, and the other commands).   *)
LEMMA JudgeIsAWord == ASSUME Types, NEW l \in Locks PROVE Judge(l) \subseteq Words \ {None}
BY DEF Judge, Words, None

-----------------------------------------------------------------------------
(* A session that goes on within its phases disturbs neither order nor      *)
(* links, provided it has one where the phase wants it.                     *)
LEMMA GoesOn ==
    ASSUME IInv, NEW l \in Locks, NEW from, NEW to \in Working \cup {"over"},
           Goes(l, from, to), "waits" \notin from,
           from \cap {"over"} = {},
           UNCHANGED <<request, outcome, motor>>,
           thrown' \in [Locks -> BOOLEAN], link' \in [Locks -> BOOLEAN],
           \A k \in Locks \ {l} : link'[k] => link[k],
           link'[l] => to \in Linked
    PROVE  IInv'
<1> USE OneIsALock DEF request, outcome
<1>1. Types'
  BY DEF IInv, Types, Goes, Phases
<1>2. phase' = [phase EXCEPT ![l] = to] /\ phase[l] \notin {"waits", "over"}
  BY DEF Goes, IInv, Types, Phases
<1>3. Turns'
  BY <1>2 DEF IInv, Types, Turns
<1>4. Links'
  BY <1>2 DEF IInv, Types, Links
<1> QED BY <1>1, <1>3, <1>4 DEF IInv

(* What the command prints of an awaited session moves it to the next lock. *)
LEMMA PrintsNext ==
    ASSUME IInv, NEW l \in Locks, NEW v \in Words \ {None}, NEW now \in Phases,
           Awaited(l), ~exited, phase[l] \in Working,
           Prints(l, v, now),
           UNCHANGED <<request, thrown, exited, crashed, motor>>,
           late' \in BOOLEAN, late => late',
           link' \in [Locks -> BOOLEAN],
           \A k \in Locks : link'[k] => link[k],
           link'[l] => now \in Linked,
           now = "over" \/ late'
    PROVE  IInv'
<1> USE OneIsALock DEF request, Prints
<1>1. l = turn /\ l <= last /\ l < turn'
  BY DEF IInv, Types, Turns, Awaited, Working
<1>2. Begins \in Phases \ {"waits", "over"} /\ Begins \notin Linked
  BY DEF Begins, Phases, Working, Linked
<1>3. Types'
  <2>1. turn' \in Nat \ {0} /\ code' \in {0, 1}
    BY DEF IInv, Types
  <2>2. phase' \in [Locks -> Phases]
    BY <1>2 DEF IInv, Types
  <2>3. verdict' \in [Locks -> Words]
    BY DEF IInv, Types
  <2> QED BY <2>1, <2>2, <2>3 DEF IInv, Types
<1>4. Turns'
  <2>1. \A k \in Locks : k < turn' => verdict'[k] # None
    BY <1>1 DEF IInv, Types, Turns
  <2>2. \A k \in Locks : k >= turn' /\ turn' <= last' => verdict'[k] = None
    BY <1>1 DEF IInv, Types, Turns
  <2>3. \A k \in Locks : k > turn' \/ k > last' => phase'[k] = "waits"
    BY <1>1 DEF IInv, Types, Turns
  <2>4. ~exited' /\ ~crashed'
    BY DEF IInv, Turns
  <2> QED BY <2>1, <2>2, <2>3, <2>4 DEF Turns
<1>5. Links'
  <2>1. ASSUME NEW k \in Locks, link'[k] PROVE phase'[k] \in Linked
    <3>1. CASE k = l
      BY <2>1, <3>1 DEF IInv, Types
    <3>2. CASE k # l
      <4>1. link[k] /\ phase[k] \in Linked
        BY <2>1 DEF IInv, Links
      <4>2. k # l + 1
        BY <4>1, <1>1 DEF IInv, Turns, Linked, Types
      <4> QED BY <4>1, <4>2, <3>2
    <3> QED BY <3>1, <3>2
  <2>2. ASSUME NEW k \in Locks, ~late', k # turn' PROVE phase'[k] \in {"waits", "over"}
    BY <2>2, <1>1 DEF IInv, Links, Types
  <2> QED BY <2>1, <2>2 DEF Links
<1> QED BY <1>3, <1>4, <1>5 DEF IInv

-----------------------------------------------------------------------------
LEMMA InitIInv == Init => IInv
<1> SUFFICES ASSUME Init PROVE IInv
  OBVIOUS
<1> USE OneIsALock DEF Init
<1>1. Types
  BY DEF Types, Phases, Words, Working
<1>2. Turns
  BY DEF Turns
<1>3. Links
  BY DEF Links
<1> QED BY <1>1, <1>2, <1>3 DEF IInv

LEMMA NextIInv == IInv /\ [Next]_vars => IInv'
<1> SUFFICES ASSUME IInv, [Next]_vars PROVE IInv'
  OBVIOUS
<1> USE DEF Linked, Working
<1> USE DEF lock
<1>t. thrown \in [Locks -> BOOLEAN] /\ link \in [Locks -> BOOLEAN]
  BY DEF IInv, Types
<1>k. \A l \in Locks : link[l] => phase[l] \in Linked
  BY DEF IInv, Links
<1>1. ASSUME NEW l \in Locks, Found(l) PROVE IInv'
  <2>1. ~link[l]
    BY <1>1, <1>k DEF Found, Goes
  <2> QED BY <1>1, <1>t, <2>1, GoesOn DEF Found
<1>2. ASSUME NEW l \in Locks, ReachFails(l) PROVE IInv'
  <2>1. ~link[l]
    BY <1>2, <1>k DEF ReachFails
  <2>2. CASE ~Awaited(l)
    BY <1>2, <1>t, <2>1, <2>2, GoesOn DEF ReachFails
  <2>3. CASE Awaited(l) /\ command # "pair"
    <3>1. Prints(l, "could not reach", "over") /\ late' = late
      BY <1>2, <2>3 DEF ReachFails
    <3>2. /\ UNCHANGED <<request, thrown, link, exited, crashed, motor>>
          /\ ~exited /\ phase[l] = "reach"
      BY <1>2, <2>3 DEF ReachFails
    <3>3. late' \in BOOLEAN /\ "could not reach" \in Words \ {None} /\ "over" \in Phases
      BY <3>1 DEF IInv, Types, Words, None, Phases
    <3> QED BY <3>1, <3>2, <3>3, <1>t, <2>1, <2>3, PrintsNext
  <2>4. CASE Awaited(l) /\ command = "pair"
    <3> USE OneIsALock DEF request
    <3>1. /\ phase' = [phase EXCEPT ![l] = "over"]
          /\ turn' = last + 1 /\ code' = 1
          /\ verdict' = [k \in Locks |-> "could not reach"]
          /\ UNCHANGED <<request, thrown, link, exited, late, crashed, motor>>
          /\ ~exited /\ phase[l] = "reach"
      BY <1>2, <2>4 DEF ReachFails, Goes
    <3>2. l = turn /\ l <= last
      <4>1. l = turn /\ phase[l] # "waits"
        BY <2>4, <3>1 DEF Awaited
      <4> QED BY <4>1 DEF IInv, Types, Turns
    <3>a. last' = last /\ exited' = exited /\ last \in Locks /\ last + 1 > last
      <4>1. last' = last
        BY <3>1
      <4>2. exited' = exited
        BY <3>1
      <4>3. last \in Locks
        BY DEF IInv, Types
      <4>4. last \in Nat
        BY <4>3
      <4>5. last + 1 > last
        BY <4>4
      <4> QED BY <4>1, <4>2, <4>3, <4>5
    <3>3. Types'
      <4>1. turn' \in Nat \ {0} /\ code' \in {0, 1}
        BY <3>1 DEF IInv, Types
      <4>2. phase' \in [Locks -> Phases] /\ verdict' \in [Locks -> Words]
        BY <3>1 DEF IInv, Types, Phases, Words
      <4> QED BY <3>1, <4>1, <4>2 DEF IInv, Types
    <3>4. Turns'
      <4>1. \A k \in Locks : verdict'[k] # None
        BY <3>1 DEF None
      <4>2. ASSUME NEW k \in Locks, k > turn' \/ k > last'
            PROVE  phase'[k] = "waits"
        <5>a. turn' = last + 1 /\ k \in Nat /\ last \in Nat /\ l \in Nat
          BY <3>1, <3>a
        <5>1. k > last /\ k # l
          BY <5>a, <3>2, <3>a, <4>2
        <5>2. phase[k] = "waits"
          BY <5>1 DEF IInv, Turns
        <5> QED BY <3>1, <5>1, <5>2 DEF IInv, Types
      <4>3. turn' > last' /\ ~exited' /\ ~crashed'
        <5>1. turn' = last + 1 /\ ~exited
          BY <3>1
        <5>2. ~crashed'
          BY <3>1 DEF IInv, Turns
        <5> QED BY <5>1, <5>2, <3>a
      <4>4. ~(turn' <= last')
        <5>1. turn' = last + 1 /\ last \in Nat
          BY <3>1, <3>a
        <5> QED BY <5>1, <3>a
      <4> QED BY <4>1, <4>2, <4>3, <4>4 DEF Turns
    <3>5. Links'
      BY <3>1, <3>2 DEF IInv, Types, Links
    <3> QED BY <3>3, <3>4, <3>5 DEF IInv
  <2> QED BY <2>2, <2>3, <2>4
<1>3. ASSUME NEW l \in Locks, Connected(l) PROVE IInv'
  BY <1>3, <1>t, GoesOn DEF Connected
<1>4. ASSUME NEW l \in Locks, SetUp(l) PROVE IInv'
  BY <1>4, <1>t, GoesOn DEF SetUp
<1>5. ASSUME NEW l \in Locks, LoggedIn(l) PROVE IInv'
  <2>1. CASE command = "bolt"
    BY <1>5, <1>t, <2>1, GoesOn DEF LoggedIn
  <2>2. CASE command # "bolt"
    BY <1>5, <1>t, <2>2, GoesOn DEF LoggedIn
  <2> QED BY <2>1, <2>2
<1>6. ASSUME NEW l \in Locks, Accepted(l) PROVE IInv'
  BY <1>6, <1>t, GoesOn DEF Accepted
<1>7. ASSUME NEW l \in Locks, Refused(l) PROVE IInv'
  <2>1. CASE phase[l] = "bolt"
    BY <1>7, <1>t, <2>1, GoesOn DEF Refused
  <2>2. CASE phase[l] # "bolt"
    BY <1>7, <1>t, <2>2, GoesOn DEF Refused
  <2> QED BY <2>1, <2>2
<1>8. ASSUME NEW l \in Locks, ReadBack(l) PROVE IInv'
  BY <1>8, <1>t, GoesOn DEF ReadBack
<1>9. ASSUME NEW l \in Locks, ReadFails(l) PROVE IInv'
  <2>1. thrown' \in [Locks -> BOOLEAN]
    BY <1>9, <1>t DEF ReadFails
  <2> QED BY <1>9, <1>t, <2>1, GoesOn DEF ReadFails
<1>10. ASSUME NEW l \in Locks, StepFails(l) PROVE IInv'
  <2>1. thrown' \in [Locks -> BOOLEAN]
    BY <1>10, <1>t DEF StepFails
  <2> QED BY <1>10, <1>t, <2>1, GoesOn DEF StepFails
<1>11. ASSUME NEW l \in Locks, Closed(l) PROVE IInv'
  <2>1. /\ link' \in [Locks -> BOOLEAN] /\ ~link'[l]
        /\ \A k \in Locks : link'[k] => link[k]
    BY <1>11, <1>t DEF Closed
  <2>2. CASE Awaited(l)
    <3>1. PICK v \in Judge(l) : Prints(l, v, "over")
      BY <1>11, <2>2 DEF Closed
    <3>2. v \in Words \ {None}
      BY JudgeIsAWord DEF IInv
    <3>3. /\ UNCHANGED <<request, thrown, exited, late, crashed, motor>>
          /\ ~exited /\ phase[l] = "closing"
      BY <1>11, <2>2 DEF Closed
    <3>4. late' \in BOOLEAN /\ "over" \in Phases
      BY <3>3 DEF IInv, Types, Phases
    <3> QED BY <2>1, <2>2, <3>1, <3>2, <3>3, <3>4, PrintsNext
  <2>3. CASE ~Awaited(l)
    BY <1>11, <1>t, <2>1, <2>3, GoesOn DEF Closed
  <2> QED BY <2>2, <2>3
<1>12. ASSUME NEW l \in Locks, Deadline(l) PROVE IInv'
  <2>1. /\ Awaited(l) /\ ~exited /\ phase[l] \in Working /\ late' = TRUE
        /\ Prints(l, "could not reach", phase[l])
        /\ UNCHANGED <<request, thrown, link, exited, crashed, motor>>
    BY <1>12 DEF Deadline
  <2>2. phase[l] \in Phases /\ "could not reach" \in Words \ {None}
    BY <2>1 DEF Phases, Words, None
  <2> QED BY <1>t, <1>k, <2>1, <2>2, PrintsNext
<1>13. ASSUME NEW l \in Locks, LinkLost(l) PROVE IInv'
  BY <1>13, <1>t DEF LinkLost, IInv, Types, Turns, Links, request, outcome
<1>14. CASE Killed
  BY <1>14 DEF Killed, IInv, Types, Turns, Links, request
<1>15. CASE Exit
  BY <1>15 DEF Exit, IInv, Types, Turns, Links, request
<1>16. CASE MotorRuns
  BY <1>16 DEF MotorRuns, IInv, Types, Turns, Links, request, outcome
<1>17. CASE LockAccepts \/ Retracts \/ Pushed
  BY <1>17 DEF LockAccepts, Retracts, Pushed, IInv, Types, Turns, Links, request, outcome
<1>18. ASSUME NEW l \in Locks, Crashes(l) PROVE IInv'
  <2>1. link' \in [Locks -> BOOLEAN] /\ \A k \in Locks : link'[k] => link[k]
    BY <1>18, <1>t DEF Crashes
  <2>2. crashed' /\ exited' /\ code' = 1
        /\ UNCHANGED <<request, phase, thrown, turn, verdict, late, motor>>
    BY <1>18 DEF Crashes
  <2>3. Types'
    BY <2>1, <2>2 DEF IInv, Types, request
  <2>4. Turns'
    BY <2>2 DEF IInv, Turns, request
  <2>5. Links'
    BY <2>1, <2>2 DEF IInv, Links
  <2> QED BY <2>3, <2>4, <2>5 DEF IInv
<1>19. CASE UNCHANGED vars
  BY <1>19 DEF vars, IInv, Types, Turns, Links, request, outcome
<1> QED
  BY <1>1, <1>2, <1>3, <1>4, <1>5, <1>6, <1>7, <1>8, <1>9, <1>10, <1>11, <1>12, <1>13, <1>14,
     <1>15, <1>16, <1>17, <1>18, <1>19 DEF Next

LEMMA SpecIInv == Spec => []IInv
BY InitIInv, NextIInv, PTL DEF Spec

(* One lock that cannot be reached, or hangs, does not cost the others      *)
(* their turn, unless the process is killed or crashes.                     *)
THEOREM EachLockHasAWord == Spec => []EachHasAWord
<1>1. IInv => EachHasAWord
  <2> SUFFICES ASSUME IInv, exited, ~(command = "try" /\ late), ~crashed, NEW l \in 1..last
               PROVE  verdict[l] # None
    BY DEF EachHasAWord
  <2>1. turn > last
    BY DEF IInv, Turns
  <2>2. l \in Locks
    BY CliAssumption DEF IInv, Types, Locks
  <2>3. l < turn
    BY <2>1, <2>2, OneIsALock DEF IInv, Types
  <2> QED BY <2>2, <2>3 DEF IInv, Turns
<1> QED BY <1>1, SpecIInv, PTL

(* A process that was in time and did not crash leaves no link.             *)
THEOREM ReleasesInTime == Spec => []InTimeReleases
<1>1. IInv => InTimeReleases
  <2> SUFFICES ASSUME IInv, exited, ~late, ~crashed, NEW l \in Locks PROVE ~link[l]
    BY DEF InTimeReleases
  <2>1. turn > last
    BY DEF IInv, Turns
  <2>2. phase[l] \in {"waits", "over"}
    BY <2>1, OneIsALock DEF IInv, Types, Turns, Links
  <2> QED BY <2>2 DEF IInv, Links, Linked
<1> QED BY <1>1, SpecIInv, PTL

-----------------------------------------------------------------------------
(* While the command is out, and after, neither the deferred state nor the  *)
(* one read says that the bolt is where it should be unless it was.  What   *)
(* was heard before the command went out is still so, as the motor has not  *)
(* run: that is why the deferred state may be older than the command.       *)
Before == {"reach", "connect", "setup", "login"}
After  == {"bolt", "again", "read"}

Real ==
    command = "bolt" =>
        /\ phase[1] \in {"reach", "connect"} => heard = None
        /\ phase[1] \in Before =>
               deferred = None /\ state = None /\ motor = "idle"
        /\ phase[1] \in {"setup", "login"} /\ heard = goal => bolt = goal
        /\ phase[1] \in After /\ goal \in {heard, bolt} => reached
        /\ goal \in {deferred, state} => reached
        /\ verdict[1] = "done" => reached /\ phase[1] = "over"
        /\ verdict[1] \notin {None, "done"} => code = 1

LEMMA OneBolt ==
    ASSUME IInv, command = "bolt", NEW l \in Locks, phase[l] # "waits"
    PROVE  l = 1
BY OneIsALock DEF IInv, Types, Turns

LEMMA PrintsReal ==
    ASSUME IInv, Real, command = "bolt", NEW v \in Words \ {None, "read"}, NEW now \in Phases,
           phase[1] \in Working, Prints(1, v, now), now = "over" \/ now = phase[1],
           v = "done" => state = goal /\ now = "over",
           UNCHANGED <<request, result, lock>>
    PROVE  Real'
<1> USE OneIsALock DEF Before, After
<1>1. /\ verdict'[1] = v /\ phase'[1] = now
      /\ v # "done" => code' = 1
  BY DEF Prints, Failed, IInv, Types, Words, request
<1>2. goal # None /\ command' = command /\ goal' = goal
  BY DEF IInv, Types, Goals, None, request
<1>3. verdict[1] # "done"
  BY DEF Real, Working
<1> QED BY <1>1, <1>2, <1>3 DEF Real, request, result, lock, Words, None

(* "Never report success we cannot see reflected in the lock's own state",  *)
(* also when the state believed is the deferred one.                        *)
THEOREM SuccessIsReal == Spec => []DoneIsReal
<1>1. Init => Real
  BY OneIsALock DEF Init, Real, Goals, None, Before, After
<1>2. IInv /\ Real /\ [Next]_vars => Real'
  <2> SUFFICES ASSUME IInv, Real, [Next]_vars, command = "bolt" PROVE Real'
    <3>1. [Next]_vars => command' = command
      BY DEF Next, vars, request, Found, ReachFails, Connected, SetUp, LoggedIn, Accepted,
             Refused, ReadBack, ReadFails, StepFails, Crashes, Closed, Deadline, LinkLost,
             Killed, Exit, LockAccepts, MotorRuns, Retracts, Pushed
    <3> QED BY <3>1 DEF Real
  <2> USE OneIsALock DEF request, result, lock, outcome, Before, After
  <2>t. /\ goal # None /\ phase \in [Locks -> Phases] /\ verdict \in [Locks -> Words]
    BY DEF IInv, Types, Goals, None
  <2>1. ASSUME NEW l \in Locks, Found(l) PROVE Real'
    <3>1. l = 1
      BY <2>1, OneBolt DEF Found, Goes
    <3> QED BY <2>1, <2>t, <3>1 DEF Found, Goes, Real
  <2>2. ASSUME NEW l \in Locks, ReachFails(l) PROVE Real'
    <3>1. l = 1 /\ phase[1] = "reach" /\ UNCHANGED <<request, result, lock>>
      BY <2>2, OneBolt DEF ReachFails
    <3>2. CASE Awaited(l)
      <4>1. Prints(1, "could not reach", "over")
        BY <2>2, <3>1, <3>2 DEF ReachFails
      <4>2. "could not reach" \in Words \ {None, "read"} /\ "over" \in Phases /\ phase[1] \in Working
        BY <3>1 DEF Words, None, Phases, Working
      <4> QED BY <3>1, <4>1, <4>2, PrintsReal
    <3>3. CASE ~Awaited(l)
      BY <2>2, <2>t, <3>1, <3>3 DEF ReachFails, Goes, Real, None
    <3> QED BY <3>2, <3>3
  <2>3. ASSUME NEW l \in Locks, Connected(l) PROVE Real'
    <3>1. l = 1
      BY <2>3, OneBolt DEF Connected, Goes
    <3> QED BY <2>3, <2>t, <3>1 DEF Connected, Goes, Real
  <2>4. ASSUME NEW l \in Locks, SetUp(l) PROVE Real'
    <3>1. l = 1
      BY <2>4, OneBolt DEF SetUp, Goes
    <3> QED BY <2>4, <2>t, <3>1 DEF SetUp, Goes, Real
  <2>5. ASSUME NEW l \in Locks, LoggedIn(l) PROVE Real'
    <3>1. l = 1
      BY <2>5, OneBolt DEF LoggedIn, Goes
    <3>2. phase[1] = "login" /\ phase'[1] = "bolt" /\ (bolt = goal => reached')
      BY <2>5, <2>t, <3>1 DEF LoggedIn, Goes
    <3>3. goal \notin {deferred, state} /\ verdict[1] # "done" /\ (heard = goal => bolt = goal)
      BY <2>t, <3>2 DEF Real
    <3>4. UNCHANGED <<request, outcome, result, bolt, motor>>
      BY <2>5 DEF LoggedIn
    <3> QED BY <3>2, <3>3, <3>4 DEF Real
  <2>6. ASSUME NEW l \in Locks, Accepted(l) PROVE Real'
    <3>1. l = 1
      BY <2>6, OneBolt DEF Accepted, Goes
    <3> QED BY <2>6, <2>t, <3>1 DEF Accepted, Goes, Real
  <2>7. ASSUME NEW l \in Locks, Refused(l) PROVE Real'
    <3>1. l = 1
      BY <2>7, OneBolt DEF Refused, Goes
    <3> QED BY <2>7, <2>t, <3>1 DEF Refused, Goes, Real
  <2>8. ASSUME NEW l \in Locks, ReadBack(l) PROVE Real'
    <3>1. l = 1
      BY <2>8, OneBolt DEF ReadBack, Goes
    <3> QED BY <2>8, <2>t, <3>1 DEF ReadBack, Goes, Real
  <2>9. ASSUME NEW l \in Locks, ReadFails(l) PROVE Real'
    <3>1. l = 1
      BY <2>9, OneBolt DEF ReadFails, Goes
    <3> QED BY <2>9, <2>t, <3>1 DEF ReadFails, Goes, Real
  <2>10. ASSUME NEW l \in Locks, StepFails(l) PROVE Real'
    <3>1. l = 1
      BY <2>10, OneBolt DEF StepFails, Goes
    <3> QED BY <2>10, <2>t, <3>1 DEF StepFails, Goes, Real
  <2>11. ASSUME NEW l \in Locks, Closed(l) PROVE Real'
    <3>1. l = 1 /\ phase[1] = "closing" /\ UNCHANGED <<request, result, lock>>
      BY <2>11, OneBolt DEF Closed
    <3>2. CASE Awaited(l)
      <4>1. PICK v \in Judge(1) : Prints(1, v, "over")
        BY <2>11, <3>1, <3>2 DEF Closed
      <4>2. v \in Words \ {None, "read"} /\ "over" \in Phases /\ phase[1] \in Working
        <5>1. v # "read"
          BY DEF Judge
        <5> QED BY <3>1, <5>1, JudgeIsAWord DEF IInv, Phases, Working
      <4>3. v = "done" => state = goal
        BY DEF Judge
      <4> QED BY <3>1, <4>1, <4>2, <4>3, PrintsReal
    <3>3. CASE ~Awaited(l)
      BY <2>11, <2>t, <3>1, <3>3 DEF Closed, Goes, Real, None
    <3> QED BY <3>2, <3>3
  <2>12. ASSUME NEW l \in Locks, Deadline(l) PROVE Real'
    <3>1. l = 1 /\ phase[1] \in Working /\ UNCHANGED <<request, result, lock>>
      BY <2>12, OneBolt DEF Deadline, Working
    <3>2. Prints(1, "could not reach", phase[1])
      BY <2>12, <3>1 DEF Deadline
    <3>3. "could not reach" \in Words \ {None, "read"} /\ phase[1] \in Phases
      BY <3>1 DEF Words, None, Phases
    <3> QED BY <3>1, <3>2, <3>3, PrintsReal
  <2>13. ASSUME NEW l \in Locks, LinkLost(l) PROVE Real'
    BY <2>13 DEF LinkLost, Real
  <2>14. CASE Killed
    BY <2>14 DEF Killed, Real
  <2>15. CASE Exit
    BY <2>15 DEF Exit, Real
  <2>16. CASE MotorRuns
    BY <2>16, <2>t DEF MotorRuns, Real
  <2>17. CASE LockAccepts
    BY <2>17 DEF LockAccepts, Real
  <2>18. CASE Retracts
    <3>1. goal # "Jammed"
      BY DEF IInv, Types, Goals
    <3> QED BY <2>18, <3>1 DEF Retracts, Real
  <2>19. CASE Pushed
    BY <2>19, <2>t DEF Pushed, Hears, Asking, Real
  <2>20. ASSUME NEW l \in Locks, Crashes(l) PROVE Real'
    BY <2>20 DEF Crashes, Real
  <2>21. CASE UNCHANGED vars
    BY <2>21 DEF vars, Real
  <2> QED
    BY <2>1, <2>2, <2>3, <2>4, <2>5, <2>6, <2>7, <2>8, <2>9, <2>10, <2>11, <2>12, <2>13,
       <2>14, <2>15, <2>16, <2>17, <2>18, <2>19, <2>20, <2>21 DEF Next
<1>3. IInv /\ Real => DoneIsReal
  <2> SUFFICES ASSUME IInv, Real, command = "bolt", verdict[1] = "done" \/ (exited /\ code = 0)
               PROVE  reached
    BY DEF DoneIsReal
  <2>1. CASE exited /\ code = 0
    <3>0. ~crashed
      BY <2>1 DEF IInv, Turns
    <3>1. turn > last /\ last = 1
      BY <2>1, <3>0 DEF IInv, Types, Turns
    <3>2. verdict[1] # None
      BY <3>1, OneIsALock DEF IInv, Types, Turns
    <3> QED BY <2>1, <3>2 DEF Real
  <2> QED BY <2>1 DEF Real
<1> QED BY <1>1, <1>2, <1>3, SpecIInv, PTL DEF Spec

=============================================================================
