-------------------------- MODULE ControllerProofs --------------------------
(***************************************************************************)
(* The safety of the connection life cycle, for any number of sessions, any *)
(* queue bound, and (but for the last two theorems) with release(), restart *)
(* and silent loss allowed.                                                 *)
(*                                                                         *)
(* None of the safety properties is inductive.  What a step may assume is   *)
(* which session the controller can hold in each phase of an attempt:       *)
(* SessionShape.                                                            *)
(***************************************************************************)
EXTENDS Controller, TLAPS

Early == {"queued", "reach", "link", "hung", "setup", "login", "abandon"}

(* `opened' is set from the construction of the session to the end of the   *)
(* attempt; one that hangs may have constructed its session or not.         *)
OpenedShape ==
    phase # "hung" => (opened = None <=> phase \in {"none", "queued", "reach"})

(* What session and connected are, phase by phase, and that a stopped       *)
(* controller holds none.                                                   *)
SessionShape ==
    /\ phase \in Early => session = None /\ ~connected
    /\ phase = "none" => establishing = None
    /\ phase \in {"none", "status"} /\ session # None => session \in open
    /\ phase \in {"none", "status"} => (connected <=> session # None)
    /\ Stopped => session = None

(* An attempt reading the first status over a live link either holds its    *)
(* session, or is having it closed.                                         *)
StatusShape ==
    phase = "status" /\ link = "up" => session # None \/ tearing # {}

IInv ==
    /\ TypeOK
    /\ OpenedShape
    /\ SessionShape
    /\ StatusShape
    /\ NothingElseHeld
    /\ NoOrphanLink
    /\ StopCancelsRetry

LEMMA InitIInv == Init => IInv
<1> SUFFICES ASSUME Init PROVE IInv
  OBVIOUS
<1>1. TypeOK
  <2>1. 0 \in 0..MaxQueue
    BY ControllerAssumption
  <2>2. {session, establishing, opened} \subseteq Sessions \cup {None}
    BY DEF Init
  <2> QED
    BY <2>1, <2>2 DEF Init, TypeOK, Phases
<1>2. OpenedShape /\ SessionShape /\ StatusShape
  BY DEF Init, OpenedShape, SessionShape, StatusShape, Early, Stopped
<1>3. NothingElseHeld /\ NoOrphanLink /\ StopCancelsRetry
  BY DEF Init, NothingElseHeld, NoOrphanLink, StopCancelsRetry, Stopped
<1> QED
  BY <1>1, <1>2, <1>3 DEF IInv

LEMMA NextIInv == IInv /\ [Next]_vars => IInv'
<1> SUFFICES ASSUME IInv, [Next]_vars PROVE IInv'
  OBVIOUS
<1> USE ControllerAssumption
    DEF IInv, TypeOK, OpenedShape, SessionShape, StatusShape, NothingElseHeld,
        NoOrphanLink, StopCancelsRetry, Stopped, Early, Phases, Held, Live,
        owned, timers, attempt, jobs, radio
<1>1. CASE Start
  BY <1>1 DEF Start
<1>2. CASE Stop
  BY <1>2 DEF Stop, Teardown
<1>3. CASE StopReturns
  BY <1>3 DEF StopReturns
<1>4. CASE Release
  <2>1. /\ mode = "running"
        /\ session' = None /\ establishing' = None /\ connected' = FALSE
        /\ open' = open \ Held /\ listening' = listening \ Held
        /\ UNCHANGED <<mode, refreshTimer, phase, opened, answered, queue, job, link>>
    BY <1>4 DEF Release, Teardown
  <2>2. CASE Held = {}
    <3>1. reconnectTimer' = "quiet" /\ tearing' = tearing
      BY <1>4, <2>2 DEF Release
    <3> QED
      BY <2>1, <2>2, <3>1
  <2>3. CASE Held # {}
    <3>1. tearing' = tearing \cup {"release"} /\ reconnectTimer' = reconnectTimer
      BY <1>4, <2>3 DEF Release
    <3> QED
      BY <2>1, <2>3, <3>1
  <2> QED
    BY <2>2, <2>3
<1>5. CASE ReleaseReturns
  BY <1>5 DEF ReleaseReturns
<1>6. CASE AdapterGrants
  BY <1>6 DEF AdapterGrants
<1>7. CASE ReachOk
  <2>1. CASE Stopped
    BY <1>7, <2>1 DEF ReachOk, EndAttempt
  <2>2. CASE ~Stopped
    <3>1. PICK s \in Sessions : opened' = s /\ establishing' = s /\ phase' = "link"
      BY <1>7, <2>2 DEF ReachOk
    <3>2. session = None /\ ~connected /\ s # None /\ phase = "reach"
      BY <1>7, <3>1 DEF ReachOk
    <3>3. UNCHANGED <<mode, session, connected, timers, answered, jobs, tearing, radio>>
      BY <1>7, <2>2 DEF ReachOk
    <3> QED
      BY <3>1, <3>2, <3>3, <2>2
  <2> QED
    BY <2>1, <2>2
<1>8. CASE ReachFails
  BY <1>8 DEF ReachFails, EndAttempt, Teardown, Scheduled
<1>9. CASE LinkUp
  BY <1>9 DEF LinkUp
<1>10. CASE SetupOk
  BY <1>10 DEF SetupOk, CloseOpened
<1>11. CASE Answer
  BY <1>11 DEF Answer
<1>12. CASE LoginOk
  <2>1. /\ phase = "login" /\ opened # None /\ session = None
        /\ establishing \in {None, opened}
        /\ UNCHANGED <<mode, establishing, timers, jobs, tearing, opened, link>>
    BY <1>12 DEF LoginOk, CloseOpened
  <2>2. CASE Stopped
    <3>1. /\ phase' = "abandon" /\ answered' = FALSE
          /\ UNCHANGED <<session, connected>>
          /\ open' = open \ {opened} /\ listening' = listening \ {opened}
      BY <1>12, <2>2 DEF LoginOk, CloseOpened
    <3> QED
      BY <2>1, <2>2, <3>1
  <2>3. CASE ~Stopped /\ opened \in open
    <3>1. /\ session' = opened /\ connected' = TRUE /\ phase' = "status"
          /\ answered' = FALSE
          /\ UNCHANGED <<open, listening>>
      BY <1>12, <2>3 DEF LoginOk
    <3> QED
      BY <2>1, <2>3, <3>1
  <2>4. CASE ~Stopped /\ opened \notin open
    <3>1. /\ session' = opened /\ connected' = TRUE /\ phase' = "closing"
          /\ answered' = FALSE
          /\ open' = open \ {opened} /\ listening' = listening \ {opened}
      BY <1>12, <2>4 DEF LoginOk, CloseOpened
    <3> QED
      BY <2>1, <2>4, <3>1
  <2> QED
    BY <2>2, <2>3, <2>4
<1>13. CASE StatusOk
  BY <1>13 DEF StatusOk, EndAttempt, Returned
<1>14. CASE StepFails
  BY <1>14 DEF StepFails, CloseOpened
<1>15. CASE AttemptClosed
  BY <1>15 DEF AttemptClosed, EndAttempt, Teardown, Scheduled
<1>16. CASE AbandonClosed
  BY <1>16 DEF AbandonClosed, EndAttempt
<1>17. CASE LinkLost
  <2>1. /\ link' = "down" /\ listening' = {}
        /\ open' = open \ listening
        /\ UNCHANGED <<mode, establishing, phase, opened, answered, queue, job, tearing>>
    BY <1>17 DEF LinkLost
  <2>2. CASE listening # {} /\ ~Stopped
    <3>1. /\ session' = None /\ connected' = FALSE /\ refreshTimer' = FALSE
          /\ reconnectTimer' = Scheduled
      BY <1>17, <2>2 DEF LinkLost
    <3> QED
      BY <2>1, <2>2, <3>1 DEF Scheduled
  <2>3. CASE ~(listening # {} /\ ~Stopped)
    <3>1. UNCHANGED <<session, connected, reconnectTimer, refreshTimer>>
      BY <1>17, <2>3 DEF LinkLost
    <3> QED
      BY <2>1, <2>3, <3>1
  <2> QED
    BY <2>2, <2>3
<1>18. CASE Silence
  BY <1>18 DEF Silence
<1>19. CASE RetryFires
  BY <1>19 DEF RetryFires, Connects
<1>20. CASE QuietEnds
  BY <1>20 DEF QuietEnds, Connects
<1>21. CASE Enqueue
  BY <1>21 DEF Enqueue
<1>22. CASE JobStarts
  BY <1>22 DEF JobStarts, JobReady, Connects
<1>23. CASE JobResumes
  BY <1>23 DEF JobResumes
<1>24. CASE JobEnds
  BY <1>24 DEF JobEnds
<1>25. CASE Hangs
  BY <1>25 DEF Hangs
<1>26. CASE UNCHANGED vars
  BY <1>26 DEF vars
<1> QED
  BY <1>1, <1>2, <1>3, <1>4, <1>5, <1>6, <1>7, <1>8, <1>9, <1>10, <1>11, <1>12, <1>13,
     <1>14, <1>15, <1>16, <1>17, <1>18, <1>19, <1>20, <1>21, <1>22, <1>23, <1>24, <1>25,
     <1>26
     DEF Next, Reaction, Event, AttemptStep, RefreshTick

LEMMA SpecIInv == Spec => []IInv
BY InitIInv, NextIInv, PTL DEF Spec

(* The state has its types.                                                 *)
THEOREM ControllerTypes == Spec => []TypeOK
<1>1. IInv => TypeOK
  BY DEF IInv
<1> QED
  BY <1>1, SpecIInv, PTL

(* The controller never holds a session beside the one its attempt opened,  *)
(* so no session is overwritten before it is closed.                        *)
THEOREM ControllerHoldsOne == Spec => []NothingElseHeld
<1>1. IInv => NothingElseHeld
  BY DEF IInv
<1> QED
  BY <1>1, SpecIInv, PTL

(* However stop(), release(), restarts, drops and silent losses interleave, *)
(* a link that is up has somebody who will close it.                        *)
THEOREM ControllerNoOrphan == Spec => []NoOrphanLink
<1>1. IInv => NoOrphanLink
  BY DEF IInv
<1> QED
  BY <1>1, SpecIInv, PTL

(* Nothing arms the reconnect timer of a stopped controller.                *)
THEOREM ControllerStopsRetrying == Spec => []StopCancelsRetry
<1>1. IInv => StopCancelsRetry
  BY DEF IInv
<1> QED
  BY <1>1, SpecIInv, PTL

(* Between attempts `connected' is true exactly when the session is live.   *)
THEOREM ControllerTruthful == Spec => []ConnectedTruthful
<1>1. IInv => ConnectedTruthful
  BY DEF IInv, SessionShape, ConnectedTruthful, Live
<1> QED
  BY <1>1, SpecIInv, PTL

-----------------------------------------------------------------------------
(* With release(), restarts and silent losses excluded, stop() is the only  *)
(* flow that tears down from outside, and it comes last.                    *)

PluginUse == Allowed \subseteq {"hang"}

(* A running controller has no close under way and no spent timer; whatever *)
(* is open is listening; and an attempt past its connect still listens      *)
(* while its link is up.                                                    *)
RunShape ==
    /\ mode = "created" => phase = "none" /\ open = {} /\ tearing = {}
    /\ phase = "abandon" => Stopped
    /\ reconnectTimer \in {"none", "retry"}
    /\ listening # {} => link = "up"
    /\ ~Stopped => /\ tearing = {}
                   /\ open \subseteq listening
                   /\ phase = "setup" /\ link = "up" => opened \in listening

RInv ==
    /\ IInv
    /\ RunShape
    /\ NeverStranded

LEMMA InitRInv == Init => RInv
<1> SUFFICES ASSUME Init PROVE RInv
  OBVIOUS
<1>1. IInv
  BY InitIInv
<1>2. RunShape /\ NeverStranded
  BY DEF Init, RunShape, NeverStranded, Stopped
<1> QED
  BY <1>1, <1>2 DEF RInv

LEMMA NextRInv == PluginUse /\ RInv /\ [Next]_vars => RInv'
<1> SUFFICES ASSUME PluginUse, RInv, [Next]_vars PROVE (RunShape /\ NeverStranded)'
  BY NextIInv DEF RInv
<1> USE ControllerAssumption
    DEF RInv, PluginUse, IInv, TypeOK, OpenedShape, SessionShape, StatusShape,
        NothingElseHeld, RunShape, NeverStranded, Stopped, Early, Phases, Held, Live,
        owned, timers, attempt, jobs, radio
<1>1. CASE Start
  BY <1>1 DEF Start
<1>2. CASE Stop
  BY <1>2 DEF Stop, Teardown
<1>3. CASE StopReturns
  BY <1>3 DEF StopReturns
<1>4. CASE Release
  BY <1>4 DEF Release
<1>5. CASE ReleaseReturns
  BY <1>5 DEF ReleaseReturns
<1>6. CASE AdapterGrants
  BY <1>6 DEF AdapterGrants
<1>7. CASE ReachOk
  BY <1>7 DEF ReachOk, EndAttempt
<1>8. CASE ReachFails
  BY <1>8 DEF ReachFails, EndAttempt, Teardown, Scheduled
<1>9. CASE LinkUp
  BY <1>9 DEF LinkUp
<1>10. CASE SetupOk
  BY <1>10 DEF SetupOk, CloseOpened
<1>11. CASE Answer
  BY <1>11 DEF Answer
<1>12. CASE LoginOk
  BY <1>12 DEF LoginOk, CloseOpened, Returned
<1>13. CASE StatusOk
  BY <1>13 DEF StatusOk, EndAttempt, Returned
<1>14. CASE StepFails
  BY <1>14 DEF StepFails, CloseOpened
<1>15. CASE AttemptClosed
  BY <1>15 DEF AttemptClosed, EndAttempt, Teardown, Scheduled
<1>16. CASE AbandonClosed
  BY <1>16 DEF AbandonClosed, EndAttempt
<1>17. CASE LinkLost
  BY <1>17 DEF LinkLost, Scheduled
<1>18. CASE Silence
  BY <1>18 DEF Silence
<1>19. CASE RetryFires
  BY <1>19 DEF RetryFires, Connects
<1>20. CASE QuietEnds
  BY <1>20 DEF QuietEnds
<1>21. CASE Enqueue
  BY <1>21 DEF Enqueue
<1>22. CASE JobStarts
  BY <1>22 DEF JobStarts, JobReady, Connects
<1>23. CASE JobResumes
  BY <1>23 DEF JobResumes
<1>24. CASE JobEnds
  BY <1>24 DEF JobEnds
<1>25. CASE Hangs
  BY <1>25 DEF Hangs
<1>26. CASE UNCHANGED vars
  BY <1>26 DEF vars
<1> QED
  BY <1>1, <1>2, <1>3, <1>4, <1>5, <1>6, <1>7, <1>8, <1>9, <1>10, <1>11, <1>12, <1>13,
     <1>14, <1>15, <1>16, <1>17, <1>18, <1>19, <1>20, <1>21, <1>22, <1>23, <1>24, <1>25,
     <1>26
     DEF Next, Reaction, Event, AttemptStep, RefreshTick

LEMMA SpecRInv == ASSUME PluginUse PROVE Spec => []RInv
<1>1. RInv /\ [Next]_vars => RInv'
  BY PluginUse, NextRInv
<1> QED
  BY <1>1, InitRInv, PTL DEF Spec

(* Used as the plugin uses it, a running controller without a session is    *)
(* always connecting or armed to try again: it is never stranded.           *)
THEOREM ControllerNeverStranded == ASSUME PluginUse PROVE Spec => []NeverStranded
<1>1. RInv => NeverStranded
  BY DEF RInv
<1>2. Spec => []RInv
  BY PluginUse, SpecRInv
<1> QED
  BY <1>1, <1>2, PTL

(* Used as the plugin uses it, a live session has a link that is up and a   *)
(* listener that will notice its end.                                       *)
THEOREM ControllerWatches == ASSUME PluginUse PROVE Spec => []LiveIsWatched
<1>1. RInv => LiveIsWatched
  BY DEF RInv, RunShape, LiveIsWatched, Live
<1>2. Spec => []RInv
  BY PluginUse, SpecRInv
<1> QED
  BY <1>1, <1>2, PTL

-----------------------------------------------------------------------------
(* The controller implements the safety part of Reachability: it starts as  *)
(* Reachability starts, and each of its steps is one of Reachability's or   *)
(* leaves the view as it is.                                                *)

LEMMA ViewInit == Init => Promise!Init
BY DEF Init, Promise!Init, View

LEMMA ViewNext == ASSUME PluginUse, RInv, [Next]_vars PROVE [Promise!Next]_View
<1>0. /\ mode = "created" => phase = "none" /\ open = {}
      /\ phase \in Early => session = None
      /\ phase = "closing" => session \in {None, opened}
      /\ Stopped => session = None
      /\ mode \in {"created", "running", "stopped"}
  BY DEF RInv, IInv, TypeOK, SessionShape, NothingElseHeld, RunShape, Held, Stopped
<1> USE <1>0 DEF Early, Stopped, Live, View, owned, timers, attempt, jobs, radio
<1>1. CASE Start
  <2>1. View = "new" /\ View' = "trying"
    BY <1>1, PluginUse DEF Start, PluginUse
  <2> QED
    BY <2>1 DEF Promise!Next, Promise!TurnOn
<1>2. CASE Stop
  <2>1. View \in {"up", "trying", "waiting"} /\ View' = "off"
    BY <1>2 DEF Stop
  <2> QED
    BY <2>1 DEF Promise!Next, Promise!TurnOff
<1>3. CASE LoginOk
  <2>1. CASE Stopped
    <3>1. UNCHANGED View
      BY <1>3, <2>1 DEF LoginOk
    <3> QED
      BY <3>1
  <2>2. CASE ~Stopped
    <3>1. mode' = mode /\ phase' # "none"
      BY <1>3, <2>2 DEF LoginOk, CloseOpened
    <3>2. View = "trying" /\ View' \in {"up", "trying"}
      BY <1>3, <2>2, <3>1 DEF LoginOk
    <3> QED
      BY <3>2 DEF Promise!Next, Promise!ComeUp
  <2> QED
    BY <2>1, <2>2
<1>4. CASE StatusOk
  <2>1. /\ phase = "status" /\ phase' = "none"
        /\ UNCHANGED <<mode, session, open>>
    BY <1>4 DEF StatusOk, EndAttempt
  <2>2. UNCHANGED View \/ (View = "trying" /\ View' = "waiting")
    BY <2>1
  <2> QED
    BY <2>2 DEF Promise!Next, Promise!GiveUp
<1>5. CASE StepFails
  <2>1. /\ phase # "none" /\ phase' = "closing"
        /\ open' \subseteq open
        /\ UNCHANGED <<mode, session>>
    BY <1>5 DEF StepFails, CloseOpened
  <2>2. UNCHANGED View \/ (View = "up" /\ View' = "trying")
    BY <2>1
  <2> QED
    BY <2>2 DEF Promise!Next, Promise!Lose
<1>6. CASE LinkLost
  <2>1. /\ open' \subseteq open
        /\ session' \in {None, session}
        /\ UNCHANGED <<mode, phase>>
    BY <1>6 DEF LinkLost
  <2>2. UNCHANGED View \/ (View = "up" /\ View' \in {"trying", "waiting"})
    BY <2>1
  <2> QED
    BY <2>2 DEF Promise!Next, Promise!Lose
<1>7. CASE AdapterGrants \/ ReachOk
  <2>1. /\ phase \in {"queued", "reach"}
        /\ ~Stopped => phase' # "none"
        /\ UNCHANGED <<mode, session>>
    BY <1>7 DEF AdapterGrants, ReachOk
  <2>2. UNCHANGED View
    BY <2>1
  <2> QED
    BY <2>2
<1>8. CASE ReachFails \/ AttemptClosed
  <2>1. /\ phase \in {"reach", "closing"} /\ phase' = "none"
        /\ session' = None
        /\ UNCHANGED mode
    BY <1>8 DEF ReachFails, AttemptClosed, EndAttempt, Teardown
  <2>2. UNCHANGED View \/ (View \in {"up", "trying"} /\ View' = "waiting")
    BY <2>1
  <2> QED
    BY <2>2 DEF Promise!Next, Promise!GiveUp, Promise!Lose
<1>9. CASE AbandonClosed
  <2>1. UNCHANGED View
    BY <1>9 DEF AbandonClosed, RInv, RunShape
  <2> QED
    BY <2>1
<1>10. CASE RetryFires \/ JobStarts
  <2>1. /\ (Connects \/ phase' = phase)
        /\ UNCHANGED <<mode, session, open>>
    BY <1>10 DEF RetryFires, JobStarts
  <2>2. UNCHANGED View \/ (View = "waiting" /\ View' = "trying")
    BY <2>1 DEF Connects
  <2> QED
    BY <2>2 DEF Promise!Next, Promise!Retry
<1>11. CASE LinkUp \/ SetupOk \/ Answer \/ Hangs
  <2>1. /\ (phase \in {"reach", "link", "setup"} \/ UNCHANGED <<phase, open>>)
        /\ phase # "none" /\ phase' # "none"
        /\ UNCHANGED <<mode, session>>
    BY <1>11 DEF LinkUp, SetupOk, CloseOpened, Answer, Hangs
  <2>2. UNCHANGED View
    BY <2>1
  <2> QED
    BY <2>2
<1>12. CASE StopReturns \/ Enqueue \/ JobResumes \/ JobEnds \/ UNCHANGED vars
  <2>1. UNCHANGED <<mode, session, open, phase>>
    BY <1>12 DEF StopReturns, Enqueue, JobResumes, JobEnds, vars
  <2> QED
    BY <2>1
<1>13. CASE Release \/ ReleaseReturns \/ Silence \/ QuietEnds
  BY <1>13, PluginUse
     DEF Release, ReleaseReturns, Silence, QuietEnds, PluginUse, RInv, IInv, TypeOK, RunShape
<1> QED
  BY <1>1, <1>2, <1>3, <1>4, <1>5, <1>6, <1>7, <1>8, <1>9, <1>10, <1>11, <1>12, <1>13
     DEF Next, Reaction, Event, AttemptStep, RefreshTick

(* Used as the plugin uses it, the controller only ever does what the       *)
(* abstract specification allows: it comes up by trying, waits only after   *)
(* a failed try or a drop, and once off stays off.                          *)
THEOREM ControllerImplements ==
    ASSUME PluginUse PROVE Spec => Promise!Init /\ [][Promise!Next]_View
<1>1. Spec => []RInv
  BY PluginUse, SpecRInv
<1>2. RInv /\ [Next]_vars => [Promise!Next]_View
  BY PluginUse, ViewNext
<1> QED
  BY <1>1, <1>2, ViewInit, PTL DEF Spec
=============================================================================
