--------------------------- MODULE AccessoryProofs ---------------------------
(***************************************************************************)
(* Proofs about Accessory, for every queue bound and every choice of        *)
(* optional behaviours.                                                     *)
(***************************************************************************)
EXTENDS Accessory, TLAPS

(* The queue stays a sequence of jobs.                                      *)
LEMMA QueueType ==
    ASSUME NEW q \in Seq(Jobs)
    PROVE  /\ \A job \in Jobs : Append(q, job) \in Seq(Jobs)
           /\ q # <<>> => Tail(q) \in Seq(Jobs) /\ Head(q) \in Jobs
OBVIOUS

(* Every reachable state is well typed.                                     *)
THEOREM AccessoryTypes == Spec => []TypeOK
<1>1. Init => TypeOK
  <2>1. <<>> \in Seq(Jobs)
    OBVIOUS
  <2> QED
    BY <2>1, Zenon DEF Init, TypeOK
<1>2. TypeOK /\ [Next]_vars => TypeOK'
  <2> SUFFICES ASSUME TypeOK, [Next]_vars PROVE TypeOK'
    OBVIOUS
  <2> USE DEF TypeOK
  <2>0. /\ Goals \subseteq Jobs /\ {"read", "recheck"} \subseteq Jobs
        /\ Goals \subseteq States
    BY DEF Jobs, States
  <2>1. ASSUME NEW g \in Goals, SetTarget(g) PROVE TypeOK'
    BY <2>1, <2>0, QueueType DEF SetTarget
  <2>2. CASE RefreshTick
    BY <2>2, <2>0, QueueType DEF RefreshTick
  <2>3. CASE JamTimerFires
    BY <2>3, <2>0, QueueType DEF JamTimerFires
  <2>4. ASSUME NEW s \in States, Reports(s) PROVE TypeOK'
    BY <2>4 DEF Reports, OnState
  <2>5. ASSUME NEW s \in States, ReadReturns(s) PROVE TypeOK'
    BY <2>5, QueueType DEF ReadReturns, Running, OnState
  <2>6. ASSUME NEW s \in States, SetMissed(s) PROVE TypeOK'
    BY <2>6, QueueType DEF SetMissed, Running
  <2>7. CASE ReadFails
    BY <2>7, QueueType DEF ReadFails, Running
  <2>8. CASE SetReached
    BY <2>8, <2>0, QueueType DEF SetReached, Running, OnState
  <2>9. CASE SetFails
    BY <2>9, QueueType DEF SetFails, Running
  <2>10. CASE UNCHANGED vars
    BY <2>10 DEF vars
  <2> QED
    BY <2>1, <2>2, <2>3, <2>4, <2>5, <2>6, <2>7, <2>8, <2>9, <2>10 DEF Next
<1> QED
  BY <1>1, <1>2, PTL DEF Spec

(* Once the bolt is known to be locked or unlocked, no re-read is due.      *)
THEOREM AccessoryTimerEnds == Spec => []NoTimerOnceSettled
<1>1. Init => NoTimerOnceSettled
  BY DEF Init, NoTimerOnceSettled
<1>2. NoTimerOnceSettled /\ [Next]_vars => NoTimerOnceSettled'
  BY DEF NoTimerOnceSettled, Next, vars, SetTarget, RefreshTick, JamTimerFires, Reports,
         ReadReturns, SetMissed, ReadFails, SetReached, SetFails, OnState, Goals
<1> QED
  BY <1>1, <1>2, PTL DEF Spec

-----------------------------------------------------------------------------
(* Taking the running job off the queue leaves the jobs behind it.          *)
LEMMA Dequeued ==
    ASSUME NEW S, NEW q \in Seq(S), q # <<>>, NEW e, e # Head(q)
    PROVE  (\E i \in DOMAIN q : q[i] = e) => \E i \in DOMAIN Tail(q) : Tail(q)[i] = e
<1> SUFFICES ASSUME NEW i \in DOMAIN q, q[i] = e
             PROVE  \E j \in DOMAIN Tail(q) : Tail(q)[j] = e
  OBVIOUS
<1>1. i \in 1..Len(q) /\ i # 1
  OBVIOUS
<1>2. i - 1 \in DOMAIN Tail(q) /\ Tail(q)[i - 1] = q[i]
  BY <1>1
<1> QED
  BY <1>2

(* Adding a job leaves those already there.                                 *)
LEMMA Enqueued ==
    ASSUME NEW S, NEW q \in Seq(S), NEW job \in S
    PROVE  /\ \A i \in DOMAIN q : i \in DOMAIN Append(q, job) /\ Append(q, job)[i] = q[i]
           /\ \E i \in DOMAIN Append(q, job) : Append(q, job)[i] = job
<1>1. Len(q) + 1 \in DOMAIN Append(q, job) /\ Append(q, job)[Len(q) + 1] = job
  OBVIOUS
<1> QED
  BY <1>1

-----------------------------------------------------------------------------
(* With no command in flight, the target agrees with a settled bolt.  The   *)
(* invariant proved speaks of _target itself: it is free, or it is the      *)
(* bolt's state.                                                            *)
TargetFollows ==
    ~Pending /\ state \in Goals => target = None \/ target = state

THEOREM AccessorySettles == Spec => []Settles
<1>1. Init => TargetFollows
  BY DEF Init, TargetFollows
<1>2. TypeOK /\ TargetFollows /\ [Next]_vars => TargetFollows'
  <2> SUFFICES ASSUME TypeOK, TargetFollows, [Next]_vars PROVE TargetFollows'
    OBVIOUS
  <2> USE DEF TargetFollows
  <2>1. ASSUME NEW g \in Goals, SetTarget(g) PROVE TargetFollows'
    <3>1. Pending'
      BY <2>1, Enqueued DEF SetTarget, TypeOK, Pending, Jobs
    <3> QED
      BY <3>1
  <2>2. CASE RefreshTick \/ JamTimerFires
    <3>1. Pending => Pending'
      BY <2>2, Enqueued DEF RefreshTick, JamTimerFires, TypeOK, Pending, Jobs
    <3> QED
      BY <2>2, <3>1 DEF RefreshTick, JamTimerFires
  <2>3. ASSUME NEW s \in States, Reports(s) \/ ReadReturns(s) PROVE TargetFollows'
    BY <2>3 DEF Reports, ReadReturns, OnState
  <2>4. ASSUME NEW s \in States, SetMissed(s) PROVE TargetFollows'
    BY <2>4 DEF SetMissed
  <2>5. CASE ReadFails
    <3>0. /\ queue # <<>> /\ queue' = Tail(queue) /\ queue \in Seq(Jobs)
          /\ Head(queue) \notin Goals
      BY <2>5 DEF ReadFails, Running, TypeOK, Goals
    <3>1. ASSUME Pending PROVE Pending'
      <4>1. PICK g \in Goals : \E i \in DOMAIN queue : queue[i] = g
        BY <3>1 DEF Pending
      <4>2. \E j \in DOMAIN Tail(queue) : Tail(queue)[j] = g
        BY <3>0, <4>1, Dequeued
      <4> QED
        BY <3>0, <4>2 DEF Pending
    <3> QED
      BY <2>5, <3>1 DEF ReadFails
  <2>6. CASE SetReached
    BY <2>6 DEF SetReached, OnState
  <2>7. CASE SetFails
    BY <2>7 DEF SetFails
  <2>8. CASE UNCHANGED vars
    BY <2>8 DEF vars, Pending
  <2> QED
    BY <2>1, <2>2, <2>3, <2>4, <2>5, <2>6, <2>7, <2>8 DEF Next
<1>3. TypeOK /\ TargetFollows => Settles
  BY DEF TypeOK, TargetFollows, Settles, targetState, Goals, None
<1> QED
  BY <1>1, <1>2, <1>3, AccessoryTypes, PTL DEF Spec

-----------------------------------------------------------------------------
(* A jam is watched, until a re-read of it fails.                           *)
Rechecks == \E i \in DOMAIN queue : queue[i] = "recheck"

THEOREM AccessoryJamWatched == Spec => []JamWatched
<1>1. Init => JamWatched
  BY DEF Init, JamWatched, None
<1>2. TypeOK /\ JamWatched /\ [Next]_vars => JamWatched'
  <2> SUFFICES ASSUME TypeOK, JamWatched, [Next]_vars PROVE JamWatched'
    OBVIOUS
  <2>0. JamWatched <=> (state = "Jammed" => jamTimer \/ gaveUp \/ Rechecks)
    BY DEF JamWatched, Rechecks
  <2>00. JamWatched' <=> (state' = "Jammed" => jamTimer' \/ gaveUp' \/ Rechecks')
    BY DEF JamWatched, Rechecks
  <2>1. ASSUME NEW g \in Goals, SetTarget(g) PROVE JamWatched'
    <3>1. Rechecks => Rechecks'
      BY <2>1, Enqueued DEF SetTarget, TypeOK, Rechecks, Jobs
    <3> QED
      BY <2>1, <3>1, <2>0, <2>00 DEF SetTarget
  <2>2. CASE RefreshTick
    <3>1. Rechecks => Rechecks'
      BY <2>2, Enqueued DEF RefreshTick, TypeOK, Rechecks, Jobs
    <3> QED
      BY <2>2, <3>1, <2>0, <2>00 DEF RefreshTick
  <2>3. CASE JamTimerFires
    <3>1. Rechecks'
      BY <2>3, Enqueued DEF JamTimerFires, TypeOK, Rechecks, Jobs
    <3> QED
      BY <3>1, <2>00
  <2>4. ASSUME NEW s \in States, Reports(s) \/ ReadReturns(s) PROVE JamWatched'
    BY <2>4, <2>00 DEF Reports, ReadReturns, OnState, Goals
  <2>5. ASSUME NEW s \in States, SetMissed(s) PROVE JamWatched'
    BY <2>5, <2>00 DEF SetMissed, Goals
  <2>6. CASE ReadFails
    <3>0. queue # <<>> /\ queue' = Tail(queue) /\ queue \in Seq(Jobs)
      BY <2>6 DEF ReadFails, Running, TypeOK
    <3>1. Head(queue) # "recheck" /\ Rechecks => Rechecks'
      BY <3>0, Dequeued DEF Rechecks
    <3> QED
      BY <2>6, <3>1, <2>0, <2>00 DEF ReadFails, TypeOK
  <2>7. CASE SetReached
    BY <2>7, <2>00 DEF SetReached, Running, OnState, Goals
  <2>8. CASE SetFails
    <3>0. /\ queue # <<>> /\ queue' = Tail(queue) /\ queue \in Seq(Jobs)
          /\ Head(queue) # "recheck"
      BY <2>8 DEF SetFails, Running, TypeOK, Goals
    <3>1. Rechecks => Rechecks'
      BY <3>0, Dequeued DEF Rechecks
    <3> QED
      BY <2>8, <3>1, <2>0, <2>00 DEF SetFails
  <2>9. CASE UNCHANGED vars
    BY <2>9 DEF vars, JamWatched
  <2> QED
    BY <2>1, <2>2, <2>3, <2>4, <2>5, <2>6, <2>7, <2>8, <2>9 DEF Next
<1> QED
  BY <1>1, <1>2, AccessoryTypes, PTL DEF Spec

=============================================================================
