---------------------------- MODULE PluginProofs ----------------------------
(* The safety of the adapter's queue, for any number of calls, and of the   *)
(* fleet upon it, for any set of locks.                                     *)
EXTENDS Plugin, FiniteSetTheorems, WellFoundedInduction, TLAPS

-----------------------------------------------------------------------------
(* The adapter's chain.                                                     *)

(* How the chain is linked: tickets are issued in order, each chained on    *)
(* the one before it.                                                       *)
Linked ==
    \A t \in Tickets :
        /\ run[t] = "none" <=> t > chain
        /\ t <= chain => after[t] = t - 1

Waiting == {t \in Tickets : run[t] = "waiting"}

(* The types of the state.  queued \in Nat is not inductive alone: that the *)
(* counter never drops below zero needs it to equal the number of waiting   *)
(* tickets.                                                                 *)
Types ==
    /\ run \in [Tickets -> Status]
    /\ after \in [Tickets -> 0..MaxCalls]
    /\ chain \in 0..MaxCalls
    /\ active \in BOOLEAN

IInv ==
    /\ Types
    /\ Linked
    /\ ServedInOrder
    /\ active <=> Busy # {}
    /\ queued = Cardinality(Waiting)

LEMMA TicketsFinite == IsFiniteSet(Tickets)
BY FS_Interval, AdapterAssumption DEF Tickets

(* A set of tickets is finite, and so is any set cut out of it.             *)
LEMMA WaitingFinite == IsFiniteSet(Waiting) /\ Cardinality(Waiting) \in Nat
<1>1. Waiting \subseteq Tickets
  BY DEF Waiting
<1>2. IsFiniteSet(Waiting)
  BY <1>1, TicketsFinite, FS_Subset
<1> QED
  BY <1>2, FS_CardinalityType

LEMMA InitIInv == Init => IInv
<1> SUFFICES ASSUME Init PROVE IInv
  OBVIOUS
<1> USE DEF Init
<1>1. Types
  <2>1. 0 \in 0..MaxCalls
    BY AdapterAssumption
  <2>2. run \in [Tickets -> Status]
    BY DEF Status
  <2>3. after \in [Tickets -> 0..MaxCalls]
    BY <2>1
  <2> QED
    BY <2>1, <2>2, <2>3 DEF Types
<1>2. Linked
  BY AdapterAssumption DEF Linked, Tickets
<1>3. ServedInOrder
  BY DEF ServedInOrder
<1>4. active <=> Busy # {}
  BY DEF Busy
<1>5. queued = Cardinality(Waiting)
  <2>1. Waiting = {}
    BY DEF Waiting
  <2> QED
    BY <2>1, FS_EmptySet
<1> QED
  BY <1>1, <1>2, <1>3, <1>4, <1>5 DEF IInv

(* SetupExclusive is a consequence of serving in order: of two busy         *)
(* tickets the earlier would have to be settled.                            *)
LEMMA InOrderIsExclusive == Types /\ ServedInOrder => SetupExclusive
<1> SUFFICES ASSUME Types, ServedInOrder, NEW t \in Busy, NEW u \in Busy PROVE t = u
  BY DEF SetupExclusive
<1>1. t \in Nat /\ u \in Nat
  BY AdapterAssumption DEF Busy, Tickets
<1>2. ~(t < u) /\ ~(u < t)
  BY DEF Busy, ServedInOrder, Settled
<1> QED
  BY <1>1, <1>2

LEMMA StepCall ==
    ASSUME IInv, NEW t \in Tickets, WithAdapter(t) PROVE IInv'
<1> USE DEF WithAdapter
<1>0. /\ Types /\ Linked /\ ServedInOrder
      /\ active <=> Busy # {}
      /\ queued = Cardinality(Waiting)
  BY DEF IInv
<1>1. Types'
  BY <1>0, AdapterAssumption DEF Types, Status, Tickets
<1>2. Linked'
  BY <1>0, AdapterAssumption DEF Linked, Types, Tickets, Status, Settled
<1>3. ServedInOrder'
  BY <1>0 DEF ServedInOrder, Types, Settled, Tickets
<1>4. active' <=> Busy' # {}
  <2>1. Busy' = Busy
    BY <1>0 DEF Busy, Types
  <2> QED
    BY <2>1, <1>0
<1>5. queued' = Cardinality(Waiting')
  <2>1. Waiting' = Waiting \cup {t}
    BY <1>0 DEF Waiting, Types
  <2>2. t \notin Waiting
    BY DEF Waiting
  <2> QED
    BY <1>0, <2>1, <2>2, WaitingFinite, FS_AddElement
<1> QED
  BY <1>1, <1>2, <1>3, <1>4, <1>5 DEF IInv

(* The job that starts has every earlier call settled: the one it was       *)
(* chained on by its guard, the others because that one had started.        *)
LEMMA StepStart ==
    ASSUME IInv, NEW t \in Tickets, Start(t) PROVE IInv'
<1> USE DEF Start
<1>0. /\ Types /\ Linked /\ ServedInOrder
      /\ active <=> Busy # {}
      /\ queued = Cardinality(Waiting)
  BY DEF IInv
<1>1. Types'
  BY <1>0 DEF Types, Status
<1>2. Linked'
  BY <1>0 DEF Linked, Types
<1>3. ServedInOrder'
  <2>1. after[t] = t - 1 /\ t \in Nat
    BY <1>0, AdapterAssumption DEF Linked, Types, Tickets
  <2>2. \A u \in Tickets : u < t => run[u] \in Settled
    <3> TAKE u \in Tickets
    <3> HAVE u < t
    <3>1. u \in Nat /\ u # 0
      BY AdapterAssumption DEF Tickets
    <3>2. t - 1 \in Tickets /\ run[t - 1] \in Settled
      BY <2>1, <3>1, AdapterAssumption DEF Released, Tickets
    <3>3. CASE u = t - 1
      BY <3>2, <3>3
    <3>4. CASE u < t - 1
      BY <3>2, <3>4, <1>0 DEF ServedInOrder, Settled
    <3> QED
      BY <2>1, <3>1, <3>3, <3>4
  <2> QED
    BY <1>0, <2>2 DEF ServedInOrder, Types, Settled, Tickets
<1>4. active' <=> Busy' # {}
  BY <1>0 DEF Busy, Types
<1>5. queued' = Cardinality(Waiting')
  <2>1. Waiting' = Waiting \ {t}
    BY <1>0 DEF Waiting, Types
  <2>2. t \in Waiting
    BY DEF Waiting
  <2> QED
    BY <1>0, <2>1, <2>2, WaitingFinite, FS_RemoveElement
<1> QED
  BY <1>1, <1>2, <1>3, <1>4, <1>5 DEF IInv

(* Settling a job leaves nobody else busy: the flag may be cleared.         *)
LEMMA StepFinish ==
    ASSUME IInv, NEW t \in Tickets, NEW outcome \in Settled, Finish(t, outcome) PROVE IInv'
<1> USE DEF Finish
<1>0. /\ Types /\ Linked /\ ServedInOrder
      /\ queued = Cardinality(Waiting)
  BY DEF IInv
<1>1. Types'
  BY <1>0 DEF Types, Status
<1>2. Linked'
  BY <1>0 DEF Linked, Types, Settled
<1>3. ServedInOrder'
  BY <1>0 DEF ServedInOrder, Types, Settled
<1>4. active' <=> Busy' # {}
  <2>1. Busy = {t}
    BY <1>0, InOrderIsExclusive DEF Busy, SetupExclusive
  <2> QED
    BY <2>1, <1>0 DEF Busy, Types, Settled
<1>5. queued' = Cardinality(Waiting')
  <2>1. Waiting' = Waiting
    BY <1>0 DEF Waiting, Types, Settled
  <2> QED
    BY <2>1, <1>0
<1> QED
  BY <1>1, <1>2, <1>3, <1>4, <1>5 DEF IInv

LEMMA StepHang ==
    ASSUME IInv, NEW t \in Tickets, Hang(t) PROVE IInv'
<1> USE DEF Hang
<1>0. /\ Types /\ Linked /\ ServedInOrder
      /\ active <=> Busy # {}
      /\ queued = Cardinality(Waiting)
  BY DEF IInv
<1>1. Types'
  BY <1>0 DEF Types, Status
<1>2. Linked'
  BY <1>0 DEF Linked, Types
<1>3. ServedInOrder'
  BY <1>0 DEF ServedInOrder, Types, Settled
<1>4. active' <=> Busy' # {}
  BY <1>0 DEF Busy, Types
<1>5. queued' = Cardinality(Waiting')
  <2>1. Waiting' = Waiting
    BY <1>0 DEF Waiting, Types
  <2> QED
    BY <2>1, <1>0
<1> QED
  BY <1>1, <1>2, <1>3, <1>4, <1>5 DEF IInv

LEMMA NextIInv == IInv /\ [Next]_vars => IInv'
<1> SUFFICES ASSUME IInv, [Next]_vars PROVE IInv'
  OBVIOUS
<1>1. CASE UNCHANGED vars
  BY <1>1 DEF IInv, Types, Linked, ServedInOrder, Busy, Waiting, vars
<1>2. CASE \E t \in Tickets : WithAdapter(t)
  BY <1>2, StepCall
<1>3. CASE \E t \in Tickets : Start(t)
  BY <1>3, StepStart
<1>4. CASE \E t \in Tickets : \E outcome \in Settled : Finish(t, outcome)
  BY <1>4, StepFinish
<1>5. CASE \E t \in Tickets : Hang(t)
  BY <1>5, StepHang
<1> QED
  BY <1>1, <1>2, <1>3, <1>4, <1>5 DEF Next, Exhausted

LEMMA SpecIInv == Spec => []IInv
BY InitIInv, NextIInv, PTL DEF Spec

(* The state has its types; in particular the counter `queued' of           *)
(* adapter.js never goes below zero.                                        *)
THEOREM AdapterTypes == Spec => []TypeOK
<1>1. IInv => TypeOK
  BY WaitingFinite DEF IInv, Types, TypeOK
<1> QED
  BY <1>1, SpecIInv, PTL

(* However many locks share the adapter and however their setups end or     *)
(* hang, no two setups run at once (adapter.js 9-11).                       *)
THEOREM AdapterExclusive == Spec => []SetupExclusive
<1>1. IInv => SetupExclusive
  BY InOrderIsExclusive DEF IInv
<1> QED
  BY <1>1, SpecIInv, PTL

(* Setups are served in the order they were asked for.                      *)
THEOREM AdapterInOrder == Spec => []ServedInOrder
<1>1. IInv => ServedInOrder
  BY DEF IInv
<1> QED
  BY <1>1, SpecIInv, PTL

(* adapterBusy() is exact.                                                  *)
THEOREM AdapterBusyExact == Spec => []BusyExact
<1>1. IInv => BusyExact
  BY DEF IInv, BusyExact, Waiting
<1> QED
  BY <1>1, SpecIInv, PTL

-----------------------------------------------------------------------------
(* The fleet.                                                               *)

Idle == {"new", "none"}

(* The types of what the controllers and the platform keep.                 *)
Shape ==
    /\ step \in [Locks -> Steps]
    /\ ticket \in [Locks -> 0..MaxCalls]
    /\ session \in [Locks -> BOOLEAN]
    /\ link \in [Locks -> BOOLEAN]
    /\ timer \in [Locks -> 0..Cap]
    /\ attempt \in [Locks -> Nat]
    /\ misses \in [Locks -> Nat]
    /\ tearing \subseteq Locks
    /\ stage \in {"launching", "running", "stopping", "released"}

(* A session that has not been connected yet.                               *)
Unlinked == {"settle", "connect", "stuck"}

(* What the adapter has to say of an attempt in each of its steps.          *)
Turn(l) == IF step[l] = "queued" THEN "waiting"
           ELSE IF step[l] \in {"hung", "stuck"} THEN "hung" ELSE "running"

(* An attempt has a ticket of its own, and is where its ticket is.          *)
Ticketed ==
    /\ \A l \in Locks : step[l] \notin Idle =>
          ticket[l] \in Tickets /\ run[ticket[l]] = Turn(l)
    /\ \A k, l \in Locks :
          step[k] \notin Idle /\ step[l] \notin Idle /\ ticket[k] = ticket[l] => k = l

(* Whose a link is: an attempt's, a live session's, or that of a stop()     *)
(* which is taking it down.                                                 *)
Owned ==
    /\ \A l \in Locks :
          /\ link[l] => step[l] \in Opened \/ session[l] \/ l \in tearing
          /\ step[l] = "status" /\ link[l] => session[l] \/ l \in tearing
          /\ step[l] \in {"new", "queued", "power", "scan", "hung", "leave"} \cup Unlinked
                => ~link[l]
          /\ session[l] => ~Stopped
          /\ Stopped => timer[l] = 0
    /\ tearing # {} => stage = "stopping"

(* A timer that is armed leaves the lock alone for as long as its failed    *)
(* attempts ask for.  During an attempt the only timer is that of a link    *)
(* which dropped after it came up: it is as long already as this attempt's  *)
(* failure will ask for, which then arms nothing.                           *)
Space(l) ==
    /\ ~Stopped => attempt[l] >= misses[l]
    /\ timer[l] > 0 /\ misses[l] > 0 => timer[l] >= Delay(misses[l] - 1)
    /\ timer[l] > 0 /\ step[l] \notin Idle =>
          /\ step[l] \in Opened \ Unlinked /\ ~link[l]
          /\ attempt[l] > misses[l] /\ timer[l] >= Delay(misses[l])
    /\ step[l] = "new" => timer[l] = 0

Spaced == \A l \in Locks : Space(l)

FInv == IInv /\ Shape /\ Ticketed /\ Owned /\ Spaced

(* Induction over the naturals, for a set in place of a predicate.          *)
LEMMA Induction ==
    ASSUME NEW S, 0 \in S, \A n \in Nat : n \in S => n + 1 \in S
    PROVE  \A n \in Nat : n \in S
<1> DEFINE Out == Nat \ S
           Less == OpToRel(<, Nat)
<1> SUFFICES ASSUME Out # {} PROVE FALSE
  OBVIOUS
<1>1. PICK x \in Out : \A y \in Out : ~(<<y, x>> \in Less)
  <2>1. IsWellFoundedOn(Less, Nat)
    BY NatLessThanWellFounded
  <2>2. Out \subseteq Nat
    OBVIOUS
  <2> HIDE DEF Out, Less
  <2> QED
    BY <2>1, <2>2, WFMin
<1>2. x # 0 /\ x - 1 \in Nat
  OBVIOUS
<1>3. <<x - 1, x>> \in Less
  BY <1>2 DEF OpToRel
<1>4. x - 1 \in S
  BY <1>1, <1>2, <1>3
<1> QED
  BY <1>2, <1>4

LEMMA ExponentialDef ==
    Exponential = [n \in Nat |-> IF n = 0 THEN Base ELSE 2 * Exponential[n - 1]]
<1> DEFINE Upto(n) == {f \in [0..n -> Nat] : f[0] = Base /\ \A i \in 1..n : f[i] = 2 * f[i - 1]}
<1>1. \A n \in Nat : Upto(n) # {}
  <2> DEFINE S == {n \in Nat : Upto(n) # {}}
  <2>1. 0 \in S
    <3>1. [i \in 0..0 |-> Base] \in Upto(0)
      BY PluginAssumption
    <3> QED
      BY <3>1
  <2>2. ASSUME NEW n \in Nat, n \in S PROVE n + 1 \in S
    <3>1. PICK f : f \in Upto(n)
      BY <2>2
    <3> DEFINE g == [i \in 0..(n + 1) |-> IF i = n + 1 THEN 2 * f[n] ELSE f[i]]
    <3>2. g \in [0..(n + 1) -> Nat]
      BY <3>1
    <3>3. g[0] = Base
      BY <3>1
    <3>4. ASSUME NEW i \in 1..(n + 1) PROVE g[i] = 2 * g[i - 1]
      <4>1. i - 1 \in 0..n /\ g[i - 1] = f[i - 1]
        OBVIOUS
      <4>2. CASE i = n + 1
        BY <4>1, <4>2
      <4>3. CASE i \in 1..n
        <5>1. g[i] = f[i]
          BY <4>3
        <5>2. f[i] = 2 * f[i - 1]
          BY <3>1, <4>3
        <5> QED
          BY <4>1, <5>1, <5>2
      <4> QED
        BY <4>2, <4>3
    <3>5. g \in Upto(n + 1)
      <4> HIDE DEF g
      <4> QED
        BY <3>2, <3>3, <3>4
    <3>6. n + 1 \in Nat
      OBVIOUS
    <3> HIDE DEF Upto, g
    <3> QED
      BY <3>5, <3>6
  <2> HIDE DEF S
  <2>3. \A n \in Nat : n \in S
    BY <2>1, <2>2, Induction
  <2> QED
    BY <2>3 DEF S
<1>2. ASSUME NEW m \in Nat, NEW n \in Nat, NEW f \in Upto(m), NEW g \in Upto(n)
      PROVE  \A i \in Nat : i <= m /\ i <= n => f[i] = g[i]
  <2> DEFINE S == {i \in Nat : i <= m /\ i <= n => f[i] = g[i]}
  <2>1. 0 \in S
    OBVIOUS
  <2>2. ASSUME NEW i \in Nat, i \in S PROVE i + 1 \in S
    <3> SUFFICES ASSUME i + 1 <= m, i + 1 <= n PROVE f[i + 1] = g[i + 1]
      OBVIOUS
    <3>1. f[i] = g[i]
      BY <2>2
    <3>2. f[i + 1] = 2 * f[(i + 1) - 1] /\ g[i + 1] = 2 * g[(i + 1) - 1]
      OBVIOUS
    <3>3. (i + 1) - 1 = i
      OBVIOUS
    <3> QED
      BY <3>1, <3>2, <3>3
  <2> HIDE DEF S
  <2>3. \A i \in Nat : i \in S
    BY <2>1, <2>2, Induction
  <2> QED
    BY <2>3 DEF S
<1> DEFINE F == [n \in Nat |-> (CHOOSE f : f \in Upto(n))[n]]
<1>3. ASSUME NEW n \in Nat PROVE F[n] = IF n = 0 THEN Base ELSE 2 * F[n - 1]
  <2>1. PICK f : f \in Upto(n) /\ f = CHOOSE h : h \in Upto(n)
    BY <1>1
  <2>2. CASE n = 0
    BY <2>1, <2>2
  <2>3. CASE n # 0
    <3>1. n - 1 \in Nat
      BY <2>3
    <3>2. PICK g : g \in Upto(n - 1) /\ g = CHOOSE h : h \in Upto(n - 1)
      BY <1>1, <3>1
    <3>3. f[n - 1] = g[n - 1]
      <4>1. \A i \in Nat : i <= n /\ i <= n - 1 => f[i] = g[i]
        <5> HIDE DEF Upto, F
        <5> QED
          BY <1>2, <2>1, <3>1, <3>2
      <4> QED
        BY <3>1, <4>1
    <3>4. f[n] = 2 * f[n - 1]
      <4>0. f \in Upto(n)
        <5> HIDE DEF Upto
        <5> QED
          BY <2>1
      <4>1. n \in 1..n /\ \A i \in 1..n : f[i] = 2 * f[i - 1]
        BY <2>3, <4>0
      <4> QED
        BY <4>1
    <3>5. F[n] = f[n] /\ F[n - 1] = g[n - 1]
      BY <2>1, <3>1, <3>2
    <3> QED
      BY <2>3, <3>3, <3>4, <3>5
  <2> QED
    BY <2>2, <2>3
<1>4. F = [n \in Nat |-> IF n = 0 THEN Base ELSE 2 * F[n - 1]]
  <2> DEFINE D == [n \in Nat |-> IF n = 0 THEN Base ELSE 2 * F[n - 1]]
  <2>1. ASSUME NEW n \in Nat PROVE F[n] = D[n]
    <3> HIDE DEF F
    <3> QED
      BY <1>3
  <2> HIDE DEF D
  <2>2. F = [n \in Nat |-> F[n]]
    <3> HIDE DEF Upto
    <3> QED
      OBVIOUS
  <2>3. D = [n \in Nat |-> D[n]]
    BY DEF D
  <2>4. F = D
    BY <2>1, <2>2, <2>3
  <2> QED
    BY <2>4 DEF D
<1> HIDE DEF F
<1> QED
  BY <1>4 DEF Exponential

(* No delay is shorter than the one before, nor longer than the cap.        *)
LEMMA DelayGrows ==
    ASSUME NEW n \in Nat
    PROVE  /\ Delay(n) \in 1..Cap
           /\ \A m \in 0..n : Delay(m) <= Delay(n)
<1>1. ASSUME NEW k \in Nat
      PROVE  Exponential[k + 1] = 2 * Exponential[k]
  <2>1. Exponential[k + 1] = IF k + 1 = 0 THEN Base ELSE 2 * Exponential[(k + 1) - 1]
    BY ExponentialDef
  <2>2. k + 1 # 0 /\ (k + 1) - 1 = k
    OBVIOUS
  <2> QED
    BY <2>1, <2>2
<1>2. Exponential[0] = Base
  BY ExponentialDef
<1> DEFINE S == {k \in Nat : /\ Exponential[k] \in Nat \ {0}
                             /\ \A m \in 0..k : Exponential[m] \in Nat \ {0} /\ Exponential[m] <= Exponential[k]}
<1>3. 0 \in S
  BY <1>2, PluginAssumption
<1>4. ASSUME NEW k \in Nat, k \in S PROVE k + 1 \in S
  <2>1. Exponential[k + 1] \in Nat \ {0} /\ Exponential[k] <= Exponential[k + 1]
    BY <1>1, <1>4
  <2>2. ASSUME NEW m \in 0..(k + 1) PROVE Exponential[m] \in Nat \ {0} /\ Exponential[m] <= Exponential[k + 1]
    <3>1. CASE m = k + 1
      BY <2>1, <3>1
    <3>2. CASE m \in 0..k
      BY <1>4, <2>1, <3>2
    <3> QED
      BY <3>1, <3>2
  <2> QED
    BY <2>1, <2>2
<1> HIDE DEF S
<1>5. n \in S
  BY <1>3, <1>4, Induction
<1> QED
  BY <1>5, PluginAssumption DEF S, Delay

LEMMA InitFInv == PluginInit => FInv
<1> SUFFICES ASSUME PluginInit PROVE FInv
  OBVIOUS
<1>1. IInv
  BY InitIInv DEF PluginInit
<1>2. Shape
  BY AdapterAssumption, PluginAssumption DEF PluginInit, Shape, Steps
<1>3. Ticketed
  BY DEF PluginInit, Ticketed, Idle
<1>4. Owned
  BY DEF PluginInit, Owned, Stopped
<1>5. Spaced
  BY DEF PluginInit, Spaced, Space
<1> QED
  BY <1>1, <1>2, <1>3, <1>4, <1>5 DEF FInv

(* Every step of the fleet is one of the adapter, or none of its business.  *)
LEMMA AdapterStep == Shape /\ Ticketed /\ [PluginNext]_fleet => [Next]_vars
<1> SUFFICES ASSUME Shape, Ticketed, [PluginNext]_fleet PROVE [Next]_vars
  OBVIOUS
<1>1. ASSUME NEW l \in Locks, NEW outcome \in Settled, step[l] \notin Idle, Ends(l, outcome)
      PROVE Next
  BY <1>1 DEF Ends, Next, Ticketed
<1>2. ASSUME NEW l \in Locks, Connects(l)
      PROVE [Next]_vars
  BY <1>2 DEF Connects, Next, adapter
<1>3. CASE UNCHANGED fleet \/ Shutdown \/ NobleStops
  BY <1>3 DEF fleet, adapter, Shutdown, NobleStops
<1>4. ASSUME NEW l \in Locks,
             Launch(l) \/ RetryFires(l) \/ Command(l)
      PROVE [Next]_vars
  BY <1>2, <1>4 DEF Launch, RetryFires, Command
<1>5. ASSUME NEW l \in Locks,
             StopReturns(l) \/ LinkLost(l) \/ PoweredOn(l) \/ HasSettled(l) \/ Connected(l)
             \/ SetUp(l) \/ LoggedIn(l) \/ StepFails(l)
      PROVE UNCHANGED vars
  BY <1>5 DEF StopReturns, LinkLost, PoweredOn, HasSettled, Connected, SetUp, LoggedIn, StepFails,
              adapter
<1>6. ASSUME NEW l \in Locks, Granted(l)
      PROVE Next
  BY <1>6 DEF Granted, Next, Ticketed, Idle
<1>7. ASSUME NEW l \in Locks, Hangs(l)
      PROVE Next
  BY <1>7 DEF Hangs, Next, Ticketed, Idle
<1>8. ASSUME NEW l \in Locks,
             Leaves(l) \/ StatusRead(l) \/ Abandoned(l) \/ ReachFails(l) \/ AttemptClosed(l)
      PROVE Next
  BY <1>1, <1>8 DEF Leaves, StatusRead, Abandoned, ReachFails, AttemptClosed, Misses, Idle, Settled
<1>9. ASSUME NEW l \in Locks, Scanned(l)
      PROVE [Next]_vars
  BY <1>1, <1>9 DEF Scanned, Opens, Idle, Settled, adapter
<1> QED
  BY <1>3, <1>4, <1>5, <1>6, <1>7, <1>8, <1>9 DEF PluginNext, StepEnds, CloseEnds

(* Steps that begin, end, grant or hang an attempt, seen by its ticket.     *)
LEMMA TicketedSame ==
    ASSUME Shape, Ticketed, UNCHANGED <<run, ticket>>, NEW l \in Locks, NEW next \in Steps,
           Goes(l, next), step[l] \notin Idle, next \notin Idle,
           {step[l], next} \cap {"queued", "hung", "stuck"} = {}
    PROVE  Ticketed'
BY DEF Shape, Ticketed, Goes, Turn

LEMMA TicketedEnds ==
    ASSUME Shape, Types, Ticketed, UNCHANGED ticket, NEW l \in Locks, NEW outcome \in Settled,
           Ends(l, outcome), step[l] \notin Idle
    PROVE  Ticketed'
BY DEF Shape, Types, Ticketed, Ends, Finish, Goes, Turn, Idle

LEMMA TicketedConnects ==
    ASSUME Shape, IInv, Ticketed, NEW l \in Locks, Connects(l)
    PROVE  Ticketed'
<1>1. CASE step[l] \in Idle /\ ~session[l]
  <2>1. PICK t \in Tickets : /\ WithAdapter(t)
                             /\ ticket' = [ticket EXCEPT ![l] = t]
                             /\ Goes(l, "queued")
    BY <1>1 DEF Connects, Idle
  <2>2. run[t] = "none" /\ run' = [run EXCEPT ![t] = "waiting"] /\ run \in [Tickets -> Status]
    BY <2>1 DEF WithAdapter, IInv, Types
  <2>3. \A k \in Locks : step[k] \notin Idle => ticket[k] # t
    BY <2>2 DEF Ticketed, Turn
  <2> QED
    BY <1>1, <2>1, <2>2, <2>3 DEF Shape, Ticketed, Goes, Turn, Idle
<1>2. CASE ~(step[l] \in Idle /\ ~session[l])
  BY <1>2 DEF Connects, Ticketed, Turn, Idle, adapter, vars
<1> QED
  BY <1>1, <1>2

LEMMA NextTicketed == FInv /\ [PluginNext]_fleet => Ticketed'
<1> SUFFICES ASSUME FInv, [PluginNext]_fleet PROVE Ticketed'
  OBVIOUS
<1>0. Shape /\ IInv /\ Types /\ Ticketed
  BY DEF FInv, IInv
<1>1. CASE UNCHANGED fleet \/ Shutdown \/ NobleStops
  BY <1>0, <1>1 DEF fleet, adapter, vars, Shutdown, NobleStops, Ticketed, Turn
<1>2. ASSUME NEW l \in Locks, Launch(l) \/ RetryFires(l) \/ Command(l)
      PROVE Ticketed'
  BY <1>0, <1>2, TicketedConnects DEF Launch, RetryFires, Command
<1>3. ASSUME NEW l \in Locks, StopReturns(l) \/ LinkLost(l)
      PROVE Ticketed'
  BY <1>0, <1>3 DEF StopReturns, LinkLost, Ticketed, Turn, adapter, vars
<1>4. ASSUME NEW l \in Locks, Granted(l)
      PROVE Ticketed'
  <2>1. ticket[l] \in Tickets /\ step[l] = "queued" /\ run' = [run EXCEPT ![ticket[l]] = "running"]
    BY <1>0, <1>4 DEF Granted, Start, Ticketed, Idle
  <2>2. step' = [step EXCEPT ![l] = IF Stopped THEN "leave" ELSE "power"] /\ ticket' = ticket
    BY <1>4 DEF Granted, Goes
  <2> QED
    BY <1>0, <2>1, <2>2 DEF Shape, Types, Ticketed, Turn, Idle
<1>5. ASSUME NEW l \in Locks, Hangs(l)
      PROVE Ticketed'
  BY <1>0, <1>5 DEF Hangs, Hang, Goes, Shape, Types, Ticketed, Turn, Idle
<1>6. ASSUME NEW l \in Locks,
             Leaves(l) \/ StatusRead(l) \/ Abandoned(l) \/ ReachFails(l) \/ AttemptClosed(l)
      PROVE Ticketed'
  BY <1>0, <1>6, TicketedEnds
     DEF Leaves, StatusRead, Abandoned, ReachFails, AttemptClosed, Misses, Idle, Settled
<1>7. ASSUME NEW l \in Locks, Scanned(l)
      PROVE Ticketed'
  <2>1. CASE Stopped
    BY <1>0, <1>7, <2>1, TicketedEnds DEF Scanned, Opens, Idle, Settled
  <2>2. CASE ~Stopped
    BY <1>0, <1>7, <2>2, TicketedSame DEF Scanned, Opens, Idle, Steps, Opened, adapter, vars
  <2> QED
    BY <2>1, <2>2
<1>8. ASSUME NEW l \in Locks,
             PoweredOn(l) \/ HasSettled(l) \/ Connected(l) \/ SetUp(l) \/ LoggedIn(l) \/ StepFails(l)
      PROVE Ticketed'
  BY <1>0, <1>8, TicketedSame
     DEF PoweredOn, HasSettled, Connected, SetUp, LoggedIn, StepFails, Idle, Steps, Opened,
         adapter, vars
<1> QED
  BY <1>1, <1>2, <1>3, <1>4, <1>5, <1>6, <1>7, <1>8 DEF PluginNext, StepEnds, CloseEnds

LEMMA NextShape == FInv /\ [PluginNext]_fleet => Shape'
<1> SUFFICES ASSUME FInv, [PluginNext]_fleet PROVE Shape'
  OBVIOUS
<1>0. Shape
  BY DEF FInv
<1> USE <1>0, PluginAssumption DEF Shape, Steps, Opened, Goes
<1>1. CASE UNCHANGED fleet \/ Shutdown \/ NobleStops
  <2>1. CASE UNCHANGED fleet \/ NobleStops
    BY <2>1 DEF fleet, backoff, radio, NobleStops
  <2>2. CASE Shutdown
    BY <2>2 DEF Shutdown
  <2> QED
    BY <1>1, <2>1, <2>2
<1>2. ASSUME NEW l \in Locks, Connects(l)
      PROVE step' \in [Locks -> Steps] /\ ticket' \in [Locks -> 0..MaxCalls]
  BY <1>2, AdapterAssumption DEF Connects, Tickets
<1>3. ASSUME NEW l \in Locks, Launch(l) \/ RetryFires(l) \/ Command(l)
      PROVE Shape'
  BY <1>2, <1>3 DEF Launch, RetryFires, Command, backoff, radio
<1>4. ASSUME NEW l \in Locks, Schedules(l)
      PROVE timer' \in [Locks -> 0..Cap] /\ attempt' \in [Locks -> Nat]
  <2>1. attempt[l] \in Nat
    OBVIOUS
  <2>2. Delay(attempt[l]) \in 0..Cap
    BY <2>1, DelayGrows, PluginAssumption
  <2> QED
    BY <1>4, <2>1, <2>2 DEF Schedules
<1>5. ASSUME NEW l \in Locks, ReachFails(l) \/ AttemptClosed(l) \/ LinkLost(l)
      PROVE Shape'
  <2>1. CASE ReachFails(l) \/ AttemptClosed(l)
    <3>1. timer' \in [Locks -> 0..Cap] /\ attempt' \in [Locks -> Nat]
      BY <1>4, <2>1 DEF ReachFails, AttemptClosed, Misses
    <3> QED
      BY <2>1, <3>1 DEF ReachFails, AttemptClosed, Misses, Ends, radio
  <2>2. CASE LinkLost(l)
    <3>1. timer' \in [Locks -> 0..Cap] /\ attempt' \in [Locks -> Nat]
      BY <1>4, <2>2 DEF LinkLost
    <3> QED
      BY <2>2, <3>1 DEF LinkLost
  <2> QED
    BY <1>5, <2>1, <2>2
<1>6. ASSUME NEW l \in Locks, StopReturns(l) \/ Granted(l) \/ Hangs(l) \/ Leaves(l)
             \/ StatusRead(l) \/ Abandoned(l) \/ Scanned(l) \/ HasSettled(l) \/ PoweredOn(l)
      PROVE Shape'
  BY <1>6 DEF StopReturns, Granted, Hangs, Leaves, StatusRead, Abandoned, Scanned, Opens,
              HasSettled, PoweredOn, Ends, backoff, radio
<1>7. ASSUME NEW l \in Locks, Connected(l) \/ SetUp(l) \/ LoggedIn(l) \/ StepFails(l)
      PROVE Shape'
  <2>1. CASE LoggedIn(l)
    <3>1. CASE Stopped
      BY <2>1, <3>1 DEF LoggedIn
    <3>2. CASE ~Stopped
      <4>1. attempt' \in [Locks -> Nat] /\ misses' \in [Locks -> Nat]
        BY <2>1, <3>2 DEF LoggedIn
      <4> QED
        BY <2>1, <3>2, <4>1 DEF LoggedIn
    <3> QED
      BY <3>1, <3>2
  <2>2. CASE Connected(l) \/ SetUp(l) \/ StepFails(l)
    BY <2>2 DEF Connected, SetUp, StepFails, backoff, radio
  <2> QED
    BY <1>7, <2>1, <2>2
<1> QED
  BY <1>1, <1>3, <1>5, <1>6, <1>7 DEF PluginNext, StepEnds, CloseEnds

(* A command, a timer or the launch finds no link up where it begins an     *)
(* attempt: a link without a session is being taken down, after the         *)
(* shutdown.                                                                *)
LEMMA ConnectsUnlinked ==
    ASSUME Shape, Owned, NEW l \in Locks, Launch(l) \/ RetryFires(l) \/ Command(l)
    PROVE  /\ step' \in {step, [step EXCEPT ![l] = "queued"]}
           /\ step' # step => ~link[l]
           /\ stage' \in {stage, "running"} /\ (stage' # stage => stage = "launching")
           /\ timer' \in {timer, [timer EXCEPT ![l] = 0]}
           /\ UNCHANGED <<session, link, tearing>>
<1>1. step' = step \/ (step[l] \in Idle /\ ~session[l] /\ step' = [step EXCEPT ![l] = "queued"])
  BY DEF Launch, RetryFires, Command, Connects, Goes, Idle
<1>2. stage # "stopping" \/ timer[l] > 0
  BY DEF Launch, Command, RetryFires
<1>3. step[l] \in Idle /\ ~session[l] => ~link[l]
  <2> SUFFICES ASSUME step[l] \in Idle, ~session[l], link[l] PROVE FALSE
    OBVIOUS
  <2>1. l \in tearing /\ stage = "stopping"
    BY DEF Owned, Opened, Idle
  <2>2. timer[l] = 0
    BY <2>1 DEF Owned, Stopped
  <2> QED
    BY <1>2, <2>1, <2>2
<1> QED
  BY <1>1, <1>3 DEF Launch, RetryFires, Command, backoff, radio

LEMMA NextOwned == FInv /\ [PluginNext]_fleet => Owned'
<1> SUFFICES ASSUME FInv, [PluginNext]_fleet PROVE Owned'
  OBVIOUS
<1>0. Shape /\ Owned
  BY DEF FInv
<1> USE <1>0 DEF Shape, Owned, Stopped, Opened, Unlinked, Goes
<1>1. CASE UNCHANGED fleet
  BY <1>1 DEF fleet, backoff, radio
<1>2. CASE Shutdown
  BY <1>2 DEF Shutdown
<1>3. CASE NobleStops
  BY <1>3 DEF NobleStops, backoff, radio
<1>4. ASSUME NEW l \in Locks, Launch(l) \/ RetryFires(l) \/ Command(l)
      PROVE Owned'
  BY <1>4, ConnectsUnlinked
<1>5. ASSUME NEW l \in Locks, Schedules(l)
      PROVE \A k \in Locks : Stopped /\ timer[k] = 0 => timer'[k] = 0
  BY <1>5 DEF Schedules
<1>6. ASSUME NEW l \in Locks, ReachFails(l) \/ AttemptClosed(l) \/ LinkLost(l)
      PROVE Owned'
  <2>1. CASE LinkLost(l)
    BY <1>5, <2>1 DEF LinkLost
  <2>2. CASE ReachFails(l) \/ AttemptClosed(l)
    BY <1>5, <2>2 DEF ReachFails, AttemptClosed, Misses, Ends, radio
  <2> QED
    BY <1>6, <2>1, <2>2
<1>7. ASSUME NEW l \in Locks, StopReturns(l) \/ Granted(l) \/ Hangs(l) \/ Leaves(l)
             \/ StatusRead(l) \/ Abandoned(l) \/ Scanned(l) \/ HasSettled(l) \/ PoweredOn(l)
      PROVE Owned'
  BY <1>7 DEF StopReturns, Granted, Hangs, Leaves, StatusRead, Abandoned, Scanned, Opens,
              HasSettled, PoweredOn, Ends, backoff, radio
<1>8. ASSUME NEW l \in Locks, Connected(l) \/ SetUp(l) \/ LoggedIn(l) \/ StepFails(l)
      PROVE Owned'
  BY <1>8 DEF Connected, SetUp, LoggedIn, StepFails, backoff, radio
<1> QED
  BY <1>1, <1>2, <1>3, <1>4, <1>6, <1>7, <1>8 DEF PluginNext, StepEnds, CloseEnds

(* A lock nobody takes a step for keeps its space, and so does one whose    *)
(* timer is cleared.                                                        *)
LEMMA SpaceKept ==
    ASSUME NEW l \in Locks, Space(l), Stopped => Stopped', step'[l] = step[l],
           timer'[l] = timer[l], attempt'[l] = attempt[l], misses'[l] = misses[l],
           link'[l] => link[l]
    PROVE  Space(l)'
BY DEF Space

LEMMA SpaceCleared ==
    ASSUME NEW l \in Locks, Space(l), Stopped => Stopped', timer'[l] = 0,
           attempt'[l] = attempt[l], misses'[l] = misses[l]
    PROVE  Space(l)'
BY DEF Space

(* _scheduleReconnect() after a drop, or when an attempt has failed.        *)
LEMMA SpaceScheduled ==
    ASSUME Shape, Owned, NEW l \in Locks, Space(l), Schedules(l), stage' = stage,
           \/ /\ step[l] \notin Idle /\ ~link[l] /\ link' = link
              /\ step' = [step EXCEPT ![l] = "none"]
              /\ misses' = [misses EXCEPT ![l] = @ + 1]
           \/ /\ link[l] /\ link' = [link EXCEPT ![l] = FALSE]
              /\ UNCHANGED <<step, misses>>
    PROVE  Space(l)'
<1>0. /\ timer[l] \in Nat /\ attempt[l] \in Nat /\ misses[l] \in Nat
      /\ l \in DOMAIN timer /\ l \in DOMAIN attempt /\ l \in DOMAIN misses
      /\ l \in DOMAIN step /\ l \in DOMAIN link
  BY PluginAssumption DEF Shape
<1>1. CASE Stopped
  <2>1. timer[l] = 0 /\ timer'[l] = 0 /\ Stopped'
    BY <1>1 DEF Owned, Schedules, Stopped
  <2> QED
    BY <2>1 DEF Space
<1>2. CASE ~Stopped /\ timer[l] > 0
  <2>1. timer'[l] = timer[l] /\ attempt'[l] = attempt[l] /\ ~Stopped'
    BY <1>2 DEF Schedules, Stopped
  <2>2. CASE step[l] \notin Idle /\ ~link[l]
    <3>1. step'[l] = "none" /\ misses'[l] = misses[l] + 1
      BY <1>0, <2>2
    <3>2. attempt[l] > misses[l] /\ timer[l] >= Delay(misses[l])
      BY <1>2, <2>2 DEF Space
    <3>3. (misses[l] + 1) - 1 = misses[l]
      BY <1>0
    <3> QED
      BY <1>0, <2>1, <3>1, <3>2, <3>3 DEF Space, Idle
  <2>3. CASE link[l]
    <3>1. step'[l] = step[l] /\ misses'[l] = misses[l]
      BY <2>3
    <3>2. step[l] \in Idle
      BY <1>2, <2>3 DEF Space
    <3> QED
      BY <1>0, <1>2, <2>1, <3>1, <3>2 DEF Space
  <2> QED
    BY <2>2, <2>3
<1>3. CASE ~Stopped /\ ~(timer[l] > 0)
  <2>1. timer'[l] = Delay(attempt[l]) /\ attempt'[l] = attempt[l] + 1 /\ ~Stopped'
    BY <1>0, <1>3 DEF Schedules, Stopped
  <2>2. attempt[l] >= misses[l]
    BY <1>3 DEF Space
  <2>3. Delay(attempt[l]) >= Delay(misses[l])
    BY <1>0, <2>2, DelayGrows
  <2>4. misses[l] > 0 => Delay(attempt[l]) >= Delay(misses[l] - 1)
    BY <1>0, <2>2, DelayGrows
  <2>5. CASE step[l] \notin Idle /\ ~link[l]
    <3>1. step'[l] = "none" /\ misses'[l] = misses[l] + 1
      BY <1>0, <2>5
    <3>2. (misses[l] + 1) - 1 = misses[l]
      BY <1>0
    <3> QED
      BY <1>0, <2>1, <2>2, <2>3, <3>1, <3>2 DEF Space, Idle
  <2>6. CASE link[l]
    <3>1. step'[l] = step[l] /\ misses'[l] = misses[l] /\ ~link'[l]
      BY <1>0, <2>6
    <3>2. step[l] \in Steps \ ({"new", "queued", "power", "scan", "hung", "leave"} \cup Unlinked)
      BY <2>6 DEF Shape, Owned
    <3>3. step[l] # "new" /\ (step[l] \notin Idle => step[l] \in Opened \ Unlinked)
      BY <3>2 DEF Steps, Idle, Opened, Unlinked
    <3> QED
      BY <1>0, <2>1, <2>2, <2>3, <2>4, <3>1, <3>3 DEF Space
  <2> QED
    BY <2>5, <2>6
<1> QED
  BY <1>0, <1>1, <1>2, <1>3

LEMMA NextSpaced == FInv /\ [PluginNext]_fleet => Spaced'
<1> SUFFICES ASSUME FInv, [PluginNext]_fleet, NEW k \in Locks PROVE Space(k)'
  BY DEF Spaced
<1>0. Shape /\ Owned /\ Space(k)
  BY DEF FInv, Spaced
<1>1. Stopped => Stopped'
  BY DEF PluginNext, fleet, Stopped, Shutdown, NobleStops, Launch, StopReturns, RetryFires, Command,
         Granted, StepEnds, CloseEnds, Hangs, LinkLost, Leaves, PoweredOn, Scanned, Opens,
         HasSettled, ReachFails, Connected, SetUp, LoggedIn, StatusRead, StepFails, AttemptClosed,
         Abandoned
<1>2. CASE UNCHANGED fleet \/ NobleStops
  BY <1>0, <1>1, <1>2, SpaceKept DEF fleet, backoff, radio, NobleStops
<1>3. CASE Shutdown
  <2>1. timer'[k] = 0
    BY <1>3 DEF Shutdown
  <2> QED
    BY <1>0, <1>1, <1>3, <2>1, SpaceCleared DEF Shutdown
<1>4. ASSUME NEW l \in Locks, Launch(l) \/ RetryFires(l) \/ Command(l)
      PROVE  Space(k)'
  <2>1. UNCHANGED <<attempt, misses, link>>
    BY <1>4 DEF Launch, RetryFires, Command, backoff, radio
  <2>2. CASE k = l
    <3>1. timer'[l] = 0
      BY <1>0, <1>4, <2>2 DEF Launch, RetryFires, Command, backoff, Space, Shape
    <3> QED
      BY <1>0, <1>1, <2>1, <2>2, <3>1, SpaceCleared
  <2>3. CASE k # l
    <3>1. step'[k] = step[k] /\ timer'[k] = timer[k]
      BY <1>0, <1>4, <2>3, ConnectsUnlinked DEF Shape
    <3> QED
      BY <1>0, <1>1, <2>1, <3>1, SpaceKept
  <2> QED
    BY <2>2, <2>3
<1>5. ASSUME NEW l \in Locks, StopReturns(l)
      PROVE  Space(k)'
  BY <1>0, <1>1, <1>5, SpaceKept DEF StopReturns, backoff, radio
<1>6. ASSUME NEW l \in Locks,
             Granted(l) \/ Leaves(l) \/ PoweredOn(l) \/ Scanned(l) \/ HasSettled(l) \/ Connected(l) \/ SetUp(l)
             \/ StatusRead(l) \/ StepFails(l) \/ Abandoned(l) \/ Hangs(l)
      PROVE  Space(k)'
  <2>1. UNCHANGED <<timer, attempt, misses>>
    BY <1>6 DEF Granted, Leaves, PoweredOn, Scanned, Opens, HasSettled, Connected, SetUp,
                StatusRead, StepFails, Abandoned, Hangs, backoff
  <2>2. CASE k # l
    <3>1. step'[k] = step[k] /\ (link'[k] => link[k])
      BY <1>0, <1>6, <2>2
         DEF Granted, Leaves, PoweredOn, Scanned, Opens, HasSettled, Connected, SetUp, StatusRead,
             StepFails, Abandoned, Hangs, radio, Goes, Ends, Shape
    <3> QED
      BY <1>0, <1>1, <2>1, <3>1, SpaceKept
  <2>3. CASE k = l /\ timer[l] = 0
    BY <1>0, <1>1, <2>1, <2>3, SpaceCleared
  <2>4. CASE k = l /\ timer[l] # 0
    <3>1. timer[l] > 0
      BY <1>0, <2>4 DEF Shape
    <3>2. SetUp(l) \/ StepFails(l) \/ Abandoned(l)
      BY <1>0, <1>6, <2>4, <3>1
         DEF Granted, Leaves, PoweredOn, Scanned, Opens, HasSettled, Connected, StatusRead, Hangs,
             Space, Idle, Opened, Unlinked
    <3>3. link' = link /\ step'[l] \in {"none", "closing"} \cup {"abandon", "login"}
      BY <1>0, <2>4, <3>2 DEF SetUp, StepFails, Abandoned, Ends, Goes, radio, Shape
    <3>4. step[l] \notin Idle
      BY <3>2 DEF SetUp, StepFails, Abandoned, Idle
    <3> QED
      BY <1>0, <1>1, <2>1, <2>4, <3>1, <3>3, <3>4 DEF Space, Opened, Unlinked, Idle
  <2> QED
    BY <2>2, <2>3, <2>4
<1>7. ASSUME NEW l \in Locks, LoggedIn(l)
      PROVE  Space(k)'
  <2>1. CASE k # l
    BY <1>0, <1>1, <1>7, <2>1, SpaceKept DEF LoggedIn, Goes, Shape
  <2>2. CASE k = l
    <3>1. timer[l] = 0
      BY <1>0, <1>7, <2>2 DEF LoggedIn, Space, Idle, Shape
    <3> QED
      BY <1>0, <1>1, <1>7, <2>2, <3>1 DEF LoggedIn, Goes, Shape, Space
  <2> QED
    BY <2>1, <2>2
<1>8. ASSUME NEW l \in Locks, ReachFails(l) \/ AttemptClosed(l) \/ LinkLost(l)
      PROVE  Space(k)'
  <2>1. Schedules(l) \/ UNCHANGED <<timer, attempt>>
    BY <1>8 DEF ReachFails, AttemptClosed, LinkLost, Misses
  <2>2. CASE k # l
    <3>1. timer'[k] = timer[k] /\ attempt'[k] = attempt[k]
      BY <1>0, <2>1, <2>2 DEF Schedules, Shape
    <3>2. step'[k] = step[k] /\ misses'[k] = misses[k] /\ (link'[k] => link[k])
      BY <1>0, <1>8, <2>2 DEF ReachFails, AttemptClosed, LinkLost, Misses, Ends, Goes, radio, Shape
    <3> QED
      BY <1>0, <1>1, <3>1, <3>2, SpaceKept
  <2>3. CASE k = l /\ (ReachFails(l) \/ AttemptClosed(l))
    <3>1. Schedules(l) /\ step[l] \notin Idle /\ ~link[l] /\ link' = link /\ stage' = stage
      BY <1>0, <2>3 DEF ReachFails, AttemptClosed, Misses, radio, Idle, Owned
    <3>2. step' = [step EXCEPT ![l] = "none"] /\ misses' = [misses EXCEPT ![l] = @ + 1]
      BY <2>3 DEF ReachFails, AttemptClosed, Misses, Ends, Goes
    <3> QED
      BY <1>0, <2>3, <3>1, <3>2, SpaceScheduled
  <2>4. CASE k = l /\ LinkLost(l) /\ step[l] \in {"closing", "abandon"}
    <3>1. UNCHANGED <<step, timer, attempt, misses>> /\ link' = [link EXCEPT ![l] = FALSE]
      BY <2>4 DEF LinkLost
    <3>2. link'[k] => link[k]
      BY <1>0, <2>4, <3>1 DEF Shape
    <3> QED
      BY <1>0, <1>1, <3>1, <3>2, SpaceKept
  <2>5. CASE k = l /\ LinkLost(l) /\ step[l] \notin {"closing", "abandon"}
    <3>1. /\ Schedules(l) /\ link[l] /\ link' = [link EXCEPT ![l] = FALSE]
          /\ stage' = stage /\ UNCHANGED <<step, misses>>
      BY <2>5 DEF LinkLost
    <3> QED
      BY <1>0, <2>5, <3>1, SpaceScheduled
  <2> QED
    BY <1>8, <2>2, <2>3, <2>4, <2>5
<1> QED
  BY <1>2, <1>3, <1>4, <1>5, <1>6, <1>7, <1>8 DEF PluginNext, StepEnds, CloseEnds

LEMMA SpecFInv == PluginSpec => []FInv
<1>1. FInv /\ [PluginNext]_fleet => FInv'
  <2> SUFFICES ASSUME FInv, [PluginNext]_fleet PROVE FInv'
    OBVIOUS
  <2>1. IInv'
    BY AdapterStep, NextIInv DEF FInv
  <2> QED
    BY <2>1, NextShape, NextTicketed, NextOwned, NextSpaced DEF FInv
<1> QED
  BY <1>1, InitFInv, PTL DEF PluginSpec

(* What is proved of the adapter alone holds in the fleet that uses it: the *)
(* controllers and the platform use it as its specification allows.         *)
THEOREM FleetUsesAdapter == PluginSpec => Init /\ [][Next]_vars
<1>1. PluginInit => Init
  BY DEF PluginInit
<1>2. FInv /\ [PluginNext]_fleet => [Next]_vars
  BY AdapterStep DEF FInv
<1> QED
  BY <1>1, <1>2, SpecFInv, PTL DEF PluginSpec

(* However many locks, however their attempts end or hang, and whenever the *)
(* plugin is shut down: setups of two locks never overlap, in the lock's    *)
(* own terms (adapter.js 9-11).                                             *)
THEOREM FleetOneSetUp == PluginSpec => []OneSetUp
<1>1. FInv => OneSetUp
  <2> SUFFICES ASSUME FInv, NEW k \in Locks, NEW l \in Locks,
                      step[k] \in Opened \cup {"scan"}, step[l] \in Opened \cup {"scan"}
               PROVE  k = l
    BY DEF OneSetUp
  <2>1. ticket[k] \in Busy /\ ticket[l] \in Busy
    BY DEF FInv, Ticketed, Turn, Busy, Opened, Idle
  <2>2. ticket[k] = ticket[l]
    BY <2>1, InOrderIsExclusive DEF FInv, IInv, SetupExclusive
  <2> QED
    BY <2>2 DEF FInv, Ticketed, Opened, Idle
<1> QED
  BY <1>1, SpecFInv, PTL

(* The attempts of the fleet are served in the order they asked.            *)
THEOREM FleetInOrder == PluginSpec => []ServedInOrder
<1>1. FInv => ServedInOrder
  BY DEF FInv, IInv
<1> QED
  BY <1>1, SpecFInv, PTL

(* adapterBusy() is exact for the fleet, too.                               *)
THEOREM FleetBusyExact == PluginSpec => []BusyExact
<1>1. FInv => BusyExact
  BY DEF FInv, IInv, BusyExact, Waiting
<1> QED
  BY <1>1, SpecFInv, PTL

(* When the platform stops noble, no lock that was connected still is.      *)
THEOREM FleetReleased == PluginSpec => []ReleasedInTime
<1>1. FInv => ReleasedInTime
  BY DEF FInv, Owned, ReleasedInTime, Stopped
<1> QED
  BY <1>1, SpecFInv, PTL

(* Once the shutdown has begun no attempt opens a session: none comes past  *)
(* its scan that was not past it.                                           *)
THEOREM FleetStartsNothing == PluginSpec => NothingStarts
<1>1. ASSUME FInv, [PluginNext]_fleet, Stopped, NEW l \in Locks, step'[l] \in Opened
      PROVE  step[l] \in Opened
  <2>0. Shape
    BY <1>1 DEF FInv
  <2>1. ASSUME NEW k \in Locks, Connects(k)
        PROVE  step[l] \in Opened
    BY <1>1, <2>0, <2>1 DEF Connects, Goes, Shape, Opened
  <2>2. CASE UNCHANGED fleet \/ Shutdown \/ NobleStops
    BY <1>1, <2>2 DEF fleet, Shutdown, NobleStops
  <2>3. ASSUME NEW k \in Locks, Launch(k) \/ RetryFires(k) \/ Command(k)
        PROVE  step[l] \in Opened
    BY <2>1, <2>3 DEF Launch, RetryFires, Command
  <2>4. ASSUME NEW k \in Locks,
               StopReturns(k) \/ Granted(k) \/ Hangs(k) \/ LinkLost(k) \/ StepEnds(k) \/ CloseEnds(k)
        PROVE  step[l] \in Opened
    BY <1>1, <2>0, <2>4
       DEF Shape, Goes, Opened, StopReturns, Granted, Hangs, LinkLost, StepEnds, CloseEnds, Ends,
           Misses, Leaves, PoweredOn, Scanned, Opens, HasSettled, ReachFails, Connected, SetUp,
           LoggedIn, StatusRead,
           StepFails, AttemptClosed, Abandoned
  <2> QED
    BY <1>1, <2>2, <2>3, <2>4 DEF PluginNext
<1>2. FInv /\ [PluginNext]_fleet =>
         [Stopped => \A l \in Locks : step'[l] \in Opened => step[l] \in Opened]_fleet
  BY <1>1
<1> QED
  BY <1>2, SpecFInv, PTL DEF PluginSpec, NothingStarts

(* The state of the whole fleet keeps its types; no delay exceeds the cap.  *)
THEOREM FleetTypes == PluginSpec => []FleetTypeOK
<1>1. FInv => FleetTypeOK
  BY WaitingFinite DEF FInv, IInv, Types, TypeOK, Shape, FleetTypeOK
<1> QED
  BY <1>1, SpecFInv, PTL

(* controller.js 229-230: by whatever mixture of drops, timers, commands    *)
(* and failures, a lock whose last n attempts failed is left alone for the  *)
(* n-th delay, for any base and cap.                                        *)
THEOREM FleetNotHammered == PluginSpec => []NotHammered
<1>1. FInv => NotHammered
  BY DEF FInv, Spaced, Space, NotHammered
<1> QED
  BY <1>1, SpecFInv, PTL

-----------------------------------------------------------------------------
(* What the refinement of Reachability needs: a session is published by an  *)
(* attempt that has nothing but its first status to wait for, an attempt    *)
(* that failed has left a timer, everybody is launched, and only a stopped  *)
(* controller abandons an attempt.                                          *)
Reach(l) ==
    /\ session[l] => step[l] \in {"none", "status"}
    /\ step[l] = "none" /\ ~session[l] /\ ~Stopped => timer[l] > 0
    /\ stage # "launching" => step[l] # "new"
    /\ step[l] \in {"abandon", "leave"} => Stopped

Reached == \A l \in Locks : Reach(l)

(* After _scheduleReconnect() a timer is armed, unless the controller was   *)
(* stopped.                                                                 *)
LEMMA SchedulesArms ==
    ASSUME Shape, NEW l \in Locks, Schedules(l), ~Stopped
    PROVE  timer'[l] > 0
<1>1. attempt[l] \in Nat /\ l \in DOMAIN timer
  BY DEF Shape
<1>2. Delay(attempt[l]) \in 1..Cap
  BY <1>1, DelayGrows
<1> QED
  BY <1>1, <1>2, PluginAssumption DEF Schedules

(* What the actions of one lock leave alone of the others.                  *)
LEMMA OthersKeep ==
    ASSUME Shape, Owned, NEW l \in Locks, NEW k \in Locks, k # l,
           \/ Launch(l) \/ StopReturns(l) \/ RetryFires(l) \/ Command(l)
           \/ Granted(l) \/ StepEnds(l) \/ CloseEnds(l) \/ Hangs(l) \/ LinkLost(l)
    PROVE  step'[k] = step[k] /\ session'[k] = session[k] /\ timer'[k] = timer[k]
<1>1. CASE Launch(l) \/ RetryFires(l) \/ Command(l)
  BY <1>1, ConnectsUnlinked DEF Shape
<1>2. CASE StopReturns(l)
  BY <1>2 DEF StopReturns, backoff, radio
<1>3. CASE Granted(l) \/ CloseEnds(l) \/ Hangs(l) \/ LinkLost(l)
  BY <1>3 DEF Shape, Granted, CloseEnds, Hangs, LinkLost, AttemptClosed, Abandoned, Misses, Ends,
              Goes, Schedules, backoff, radio
<1>4. CASE StepEnds(l)
  BY <1>4 DEF Shape, StepEnds, Leaves, PoweredOn, Scanned, Opens, HasSettled, ReachFails,
              Connected, SetUp, LoggedIn, StatusRead, StepFails, Misses, Ends, Goes, Schedules,
              backoff, radio
<1> QED
  BY <1>1, <1>2, <1>3, <1>4

(* What one lock's own step does to what Reachability sees of it.           *)
LEMMA OwnStep ==
    ASSUME FInv, NEW l \in Locks, Reach(l), ~Stopped,
           \/ Launch(l) \/ StopReturns(l) \/ RetryFires(l) \/ Command(l)
           \/ Granted(l) \/ StepEnds(l) \/ CloseEnds(l) \/ Hangs(l) \/ LinkLost(l)
    PROVE  Reach(l)' /\ [Promise(l)!Next]_(ViewOf(l))
<1>0. /\ Shape /\ Owned /\ Space(l) /\ ~Stopped /\ l \notin tearing
      /\ l \in DOMAIN step /\ l \in DOMAIN session /\ l \in DOMAIN link /\ l \in DOMAIN timer
  BY DEF FInv, Spaced, Shape, Owned, Stopped
<1>1. /\ session[l] => step[l] \in {"none", "status"}
      /\ step[l] = "none" /\ ~session[l] => timer[l] > 0
      /\ stage # "launching" => step[l] # "new"
      /\ step[l] \notin {"abandon", "leave"}
  BY <1>0 DEF Reach
<1>2. CASE Launch(l)
  <2>1. step[l] = "new" /\ ~session[l] /\ step'[l] = "queued" /\ session' = session /\ ~Stopped'
    BY <1>0, <1>1, <1>2 DEF Launch, Connects, Goes, Stopped, radio
  <2>2. ViewOf(l) = "new" /\ ViewOf(l)' = "trying"
    BY <1>0, <2>1 DEF ViewOf
  <2> QED
    BY <2>1, <2>2 DEF Reach, Promise!Next, Promise!TurnOn
<1>3. CASE RetryFires(l) \/ Command(l)
  <2>1. ~Stopped' /\ session' = session /\ stage' = stage /\ step[l] # "new"
    BY <1>0, <1>1, <1>3 DEF RetryFires, Command, Space, Stopped, radio
  <2>2. CASE step[l] = "none" /\ ~session[l]
    <3>1. step'[l] = "queued"
      BY <1>0, <1>3, <2>2 DEF RetryFires, Command, Connects, Goes
    <3>2. ViewOf(l) = "waiting" /\ ViewOf(l)' = "trying"
      BY <1>0, <1>1, <2>1, <2>2, <3>1 DEF ViewOf
    <3> QED
      BY <2>1, <2>2, <3>1, <3>2 DEF Reach, Promise!Next, Promise!Retry
  <2>3. CASE ~(step[l] = "none" /\ ~session[l])
    <3>1. step' = step
      BY <1>3, <2>1, <2>3 DEF RetryFires, Command, Connects
    <3>2. ViewOf(l)' = ViewOf(l)
      BY <1>0, <2>1, <2>3, <3>1 DEF ViewOf
    <3> QED
      BY <1>1, <2>1, <2>3, <3>1, <3>2 DEF Reach
  <2> QED
    BY <2>2, <2>3
<1>4. CASE \/ Granted(l) \/ PoweredOn(l) \/ Scanned(l) \/ HasSettled(l) \/ Connected(l)
         \/ SetUp(l) \/ Hangs(l)
  <2>1. /\ step[l] \in {"queued", "power", "scan", "settle", "connect", "setup"}
        /\ step'[l] \in {"power", "scan", "settle", "connect", "setup", "login", "hung", "stuck"}
        /\ session' = session /\ ~Stopped'
    BY <1>0, <1>4
       DEF Granted, PoweredOn, Scanned, Opens, HasSettled, Connected, SetUp, Hangs, Goes, Stopped,
           backoff, radio
  <2>2. ViewOf(l) = "trying" /\ ViewOf(l)' = "trying"
    BY <1>0, <1>1, <2>1 DEF ViewOf
  <2> QED
    BY <1>1, <2>1, <2>2 DEF Reach
<1>5. CASE LoggedIn(l)
  <2>1. step[l] = "login" /\ step'[l] = "status" /\ session'[l] /\ ~Stopped'
    BY <1>0, <1>5 DEF LoggedIn, Goes, Stopped
  <2>2. ViewOf(l) = "trying" /\ ViewOf(l)' = "up"
    BY <1>0, <1>1, <2>1 DEF ViewOf
  <2> QED
    BY <2>1, <2>2 DEF Reach, Promise!Next, Promise!ComeUp
<1>6. CASE StatusRead(l)
  <2>1. step[l] = "status" /\ session[l] /\ step'[l] = "none" /\ session' = session /\ ~Stopped'
    BY <1>0, <1>6 DEF StatusRead, Owned, Ends, Goes, Stopped, radio
  <2>2. ViewOf(l) = "up" /\ ViewOf(l)' = "up"
    BY <1>0, <2>1 DEF ViewOf
  <2> QED
    BY <2>1, <2>2 DEF Reach
<1>7. CASE StepFails(l)
  <2>1. /\ step[l] \in {"connect", "setup", "login", "status"} /\ step'[l] = "closing"
        /\ ~session'[l] /\ ~Stopped'
    BY <1>0, <1>7 DEF StepFails, Goes, Stopped
  <2>2. ViewOf(l) \in {"up", "trying"} /\ ViewOf(l)' = "trying"
    BY <1>0, <2>1 DEF ViewOf
  <2> QED
    BY <2>1, <2>2 DEF Reach, Promise!Next, Promise!Lose
<1>8. CASE ReachFails(l) \/ AttemptClosed(l)
  <2>1. /\ step[l] \in {"power", "scan", "closing"} /\ step'[l] = "none"
        /\ session' = session /\ ~Stopped' /\ Schedules(l)
    BY <1>0, <1>8 DEF ReachFails, AttemptClosed, Misses, Ends, Goes, Stopped, radio
  <2>2. timer'[l] > 0
    BY <1>0, <2>1, SchedulesArms
  <2>3. ViewOf(l) = "trying" /\ ViewOf(l)' = "waiting"
    BY <1>0, <1>1, <2>1, <2>2 DEF ViewOf
  <2> QED
    BY <1>1, <2>1, <2>2, <2>3 DEF Reach, Promise!Next, Promise!GiveUp
<1>9. CASE LinkLost(l)
  <2>1. link[l] /\ step' = step /\ stage' = stage /\ ~Stopped' /\ step[l] # "new"
    BY <1>0, <1>9 DEF LinkLost, Owned, Stopped
  <2>2. CASE step[l] \in {"closing", "abandon"}
    <3>1. session' = session /\ timer' = timer
      BY <1>9, <2>2 DEF LinkLost
    <3>2. ViewOf(l)' = ViewOf(l)
      BY <1>0, <2>1, <3>1 DEF ViewOf
    <3> QED
      BY <1>1, <2>1, <2>2, <3>1, <3>2 DEF Reach
  <2>3. CASE step[l] \notin {"closing", "abandon"}
    <3>1. ~session'[l] /\ timer'[l] > 0
      BY <1>0, <1>9, <2>3, SchedulesArms DEF LinkLost
    <3>2. step[l] = "none" => session[l]
      BY <1>0, <2>1 DEF Owned, Opened
    <3>3. \/ ViewOf(l) = "up" /\ ViewOf(l)' \in {"waiting", "trying"}
          \/ ViewOf(l) = "trying" /\ ViewOf(l)' = "trying"
      BY <1>0, <1>1, <2>1, <3>1, <3>2 DEF ViewOf
    <3> QED
      BY <1>1, <2>1, <3>1, <3>3 DEF Reach, Promise!Next, Promise!Lose
  <2> QED
    BY <2>2, <2>3
<1>10. CASE StopReturns(l) \/ Leaves(l) \/ Abandoned(l)
  BY <1>0, <1>1, <1>10 DEF StopReturns, Leaves, Abandoned
<1> QED
  BY <1>2, <1>3, <1>4, <1>5, <1>6, <1>7, <1>8, <1>9, <1>10 DEF StepEnds, CloseEnds

(* Once stopped a controller stays so, and nothing makes it new again.      *)
LEMMA StopIsFinal ==
    ASSUME FInv, [PluginNext]_fleet, Stopped, NEW k \in Locks, Reach(k)
    PROVE  Stopped' /\ Reach(k)'
<1>0. Shape /\ Owned /\ Space(k) /\ ~session[k] /\ step[k] # "new" /\ stage # "launching"
  BY DEF FInv, Spaced, Owned, Reach, Stopped
<1>1. Stopped'
  BY DEF PluginNext, fleet, Stopped, Shutdown, NobleStops, Launch, StopReturns, RetryFires, Command,
         Granted, StepEnds, CloseEnds, Hangs, LinkLost, Leaves, PoweredOn, Scanned, Opens,
         HasSettled, ReachFails, Connected, SetUp, LoggedIn, StatusRead, StepFails, AttemptClosed,
         Abandoned
<1>2. ~session'[k]
  <2>1. Owned' /\ Shape'
    BY NextOwned, NextShape
  <2> QED
    BY <1>1, <2>1 DEF Owned, Stopped
<1>3. step'[k] # "new"
  <2>1. CASE UNCHANGED fleet \/ Shutdown \/ NobleStops
    BY <1>0, <2>1 DEF fleet, Shutdown, NobleStops
  <2>2. ASSUME NEW l \in Locks, Launch(l) \/ RetryFires(l) \/ Command(l)
        PROVE  step'[k] # "new"
    BY <1>0, <2>2, ConnectsUnlinked DEF Shape
  <2>3. ASSUME NEW l \in Locks,
               StopReturns(l) \/ Granted(l) \/ CloseEnds(l) \/ Hangs(l) \/ LinkLost(l)
        PROVE  step'[k] # "new"
    BY <1>0, <2>3 DEF Shape, StopReturns, Granted, CloseEnds, Hangs, LinkLost, AttemptClosed,
                      Abandoned, Misses, Ends, Goes
  <2>4. ASSUME NEW l \in Locks, StepEnds(l)
        PROVE  step'[k] # "new"
    BY <1>0, <2>4 DEF Shape, StepEnds, Leaves, PoweredOn, Scanned, Opens, HasSettled, ReachFails,
                      Connected, SetUp, LoggedIn, StatusRead, StepFails, Misses, Ends, Goes
  <2> QED
    BY <2>1, <2>2, <2>3, <2>4 DEF PluginNext
<1> QED
  BY <1>1, <1>2, <1>3 DEF Reach

LEMMA ReachNext ==
    ASSUME FInv, Reached, [PluginNext]_fleet
    PROVE  Reached' /\ \A k \in Locks : [Promise(k)!Next]_(ViewOf(k))
<1> SUFFICES ASSUME NEW k \in Locks PROVE Reach(k)' /\ [Promise(k)!Next]_(ViewOf(k))
  BY DEF Reached
<1>0. Reach(k) /\ Shape /\ Owned
  BY DEF Reached, FInv
<1>1. CASE Stopped
  <2>1. Stopped' /\ Reach(k)'
    BY <1>0, <1>1, StopIsFinal
  <2>2. ViewOf(k)' = ViewOf(k)
    BY <1>1, <2>1 DEF ViewOf
  <2> QED
    BY <2>1, <2>2
<1>2. CASE ~Stopped
  <2>1. CASE UNCHANGED fleet
    <3>1. Reach(k)' /\ UNCHANGED ViewOf(k)
      BY <1>0, <2>1 DEF fleet, backoff, radio, Reach, ViewOf, Stopped
    <3> QED
      BY <3>1
  <2>2. CASE NobleStops
    BY <1>2, <2>2 DEF NobleStops, Stopped
  <2>3. CASE Shutdown
    <3>1. Stopped' /\ step' = step /\ ~session'[k] /\ stage = "running"
      BY <2>3 DEF Shutdown, Stopped
    <3>2. ViewOf(k) \in {"up", "trying", "waiting"} /\ ViewOf(k)' = "off"
      BY <1>0, <1>2, <3>1 DEF ViewOf, Reach
    <3> QED
      BY <1>0, <3>1, <3>2 DEF Reach, Promise!Next, Promise!TurnOff
  <2>4. ASSUME NEW l \in Locks,
               \/ Launch(l) \/ StopReturns(l) \/ RetryFires(l) \/ Command(l)
               \/ Granted(l) \/ StepEnds(l) \/ CloseEnds(l) \/ Hangs(l) \/ LinkLost(l)
        PROVE  Reach(k)' /\ [Promise(k)!Next]_(ViewOf(k))
    <3>1. CASE k = l
      BY <1>0, <1>2, <2>4, <3>1, OwnStep
    <3>2. CASE k # l
      <4>1. step'[k] = step[k] /\ session'[k] = session[k] /\ timer'[k] = timer[k]
        BY <1>0, <2>4, <3>2, OthersKeep
      <4>2. ~Stopped' /\ (stage' # "launching" => step[k] # "new")
        <5>1. CASE Launch(l)
          BY <1>0, <1>2, <3>2, <5>1 DEF Launch, Stopped
        <5>2. CASE ~Launch(l)
          <6>1. stage' = stage
            BY <2>4, <5>2
               DEF StopReturns, RetryFires, Command, Granted, StepEnds, CloseEnds, Hangs, LinkLost,
                   Leaves, PoweredOn, Scanned, Opens, HasSettled, ReachFails, Connected, SetUp,
                   LoggedIn, StatusRead, StepFails, AttemptClosed, Abandoned
          <6> QED
            BY <1>0, <1>2, <6>1 DEF Reach, Stopped
        <5> QED
          BY <5>1, <5>2
      <4>3. Reach(k)' /\ UNCHANGED ViewOf(k)
        BY <1>0, <1>2, <4>1, <4>2 DEF Reach, ViewOf
      <4> QED
        BY <4>3
    <3> QED
      BY <3>1, <3>2
  <2> QED
    BY <2>1, <2>2, <2>3, <2>4 DEF PluginNext
<1> QED
  BY <1>1, <1>2

(* Each lock is kept reachable as if it were alone, for any set of locks:   *)
(* no lock is ever stranded, or comes up without trying, because another    *)
(* hangs, drops or holds the adapter, or because of when the plugin is shut *)
(* down (controller.js 3).                                                  *)
THEOREM FleetKeepsPromises == PluginSpec => KeepsPromises
<1>1. PluginInit => Reached /\ \A l \in Locks : Promise(l)!Init
  BY DEF PluginInit, Reached, Reach, Promise!Init, ViewOf, Stopped
<1>2. FInv /\ Reached /\ [PluginNext]_fleet => Reached'
  BY ReachNext
<1>3. FInv /\ Reached /\ [PluginNext]_fleet =>
         [\A l \in Locks : [Promise(l)!Next]_(ViewOf(l))]_fleet
  BY ReachNext
<1> QED
  BY <1>1, <1>2, <1>3, SpecFInv, PTL DEF PluginSpec, KeepsPromises
=============================================================================
