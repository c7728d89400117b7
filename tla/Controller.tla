----------------------------- MODULE Controller -----------------------------
(***************************************************************************)
(* The connection life cycle of one LockController, src/controller.js: the  *)
(* connect attempt with its abandonment checks, the drop handler, the two   *)
(* uses of the reconnect timer, the refresh interval, the command queue,    *)
(* and the stop() and release() that run concurrently with all of them.     *)
(*                                                                         *)
(* Atomicity is JavaScript's.  Code between two awaits is one action, and   *)
(* whatever may happen while an await is pending is another action.         *)
(*                                                                         *)
(* Every LockSession of one controller wraps the same noble peripheral, so  *)
(* there is one radio link and a set of sessions that believe it is theirs. *)
(* What the frames say, and which state they leave behind, is the subject   *)
(* of module Session.                                                       *)
(***************************************************************************)
EXTENDS Naturals, FiniteSets

CONSTANTS
    Sessions,   \* identities for LockSession objects; one out of use is reused
    None,       \* JavaScript's null
    Allowed,    \* optional behaviours explored, out of Options
    MaxQueue    \* bound: commands waiting behind the running one

Options == {"release",   \* some caller uses release()
            "restart",   \* start() is called again after stop()
            "silence",   \* the link can die without a disconnect event
            "mute",      \* a lock with its link up may answer no step of the setup
            "hang"}      \* noble may never settle a scan or a connect

ASSUME ControllerAssumption ==
    /\ None \notin Sessions
    /\ Allowed \subseteq Options
    /\ MaxQueue \in Nat

VARIABLES
    mode,           \* created -> running <-> stopped; _stopped is mode # "running"
    session,        \* this.session
    establishing,   \* this._establishing
    connected,      \* this.connected
    reconnectTimer, \* this._reconnectTimer: "none", an armed "retry" or "quiet"
                    \* period, or "spent": fired, but the handle is still stored
    refreshTimer,   \* is an interval behind this._refreshTimer ticking?
    phase,          \* how far the attempt behind this._connecting has come
    opened,         \* the attempt's local variable `opened'
    answered,       \* the attempt's request is answered, its write unconfirmed
    queue,          \* jobs waiting in this._queue
    job,            \* the running job: "idle", waiting in "connect", or "request"
    tearing,        \* stop() and release() calls waiting for a close to finish
    open,           \* sessions whose `open' flag is set
    listening,      \* sessions whose disconnect listener is on the peripheral
    link            \* the radio link

attempt == <<phase, opened, answered>>
owned   == <<session, establishing, connected>>
timers  == <<reconnectTimer, refreshTimer>>
jobs    == <<queue, job>>
radio   == <<open, listening, link>>
vars    == <<mode, owned, timers, attempt, jobs, tearing, radio>>

Phases == {"none", "queued", "reach", "link", "setup", "login", "status",
           "hung", "closing", "abandon"}

Stopped == mode # "running"
Live    == session # None /\ session \in open
Held    == {session, establishing} \ {None}
InUse   == {session, establishing, opened} \cup open \cup listening

Init ==
    /\ mode = "created"
    /\ session = None /\ establishing = None /\ connected = FALSE
    /\ reconnectTimer = "none" /\ refreshTimer = FALSE
    /\ phase = "none" /\ opened = None /\ answered = FALSE
    /\ queue = 0 /\ job = "idle"
    /\ tearing = {}
    /\ open = {} /\ listening = {} /\ link = "down"

-----------------------------------------------------------------------------
(* The event loop turns when no promise reaction is left to run.  The only  *)
(* reactions that reach another handler are the job queue's: a job's turn   *)
(* has come, or the attempt it waits for is over.                           *)
JobReadyAlways == job = "idle"    \* mutant: a job is taken from an empty queue
JobReady == job = "idle" /\ queue > 0
Resuming == job = "connect" /\ phase = "none"
Turn     == ~JobReady /\ ~Resuming

(* Pieces of several handlers.                                              *)

(* _connect(): nothing if stopped or live; otherwise join the attempt in    *)
(* progress or begin one, which queues for the adapter.                     *)
Connects ==
    phase' = IF ~Stopped /\ ~Live /\ phase = "none" THEN "queued" ELSE phase

(* _scheduleReconnect(): what becomes of the timer.                         *)
ScheduledAlways == IF reconnectTimer = "none" THEN "retry" ELSE reconnectTimer
Scheduled ==
    IF ~Stopped /\ reconnectTimer = "none" THEN "retry" ELSE reconnectTimer

(* _teardown() up to its first await: nobody holds a session any more, and  *)
(* close() has cleared the flags and removed the listeners.                 *)
Teardown ==
    /\ session' = None
    /\ establishing' = None
    /\ connected' = FALSE
    /\ open' = open \ Held
    /\ listening' = listening \ Held
    /\ UNCHANGED link

-----------------------------------------------------------------------------
(* The callers: the platform's start and stop, and release().               *)

Start ==
    /\ Turn
    /\ \/ mode = "created"
       \/ mode = "stopped" /\ "restart" \in Allowed
    /\ mode' = "running"
    /\ phase' = IF ~Live /\ phase = "none" THEN "queued" ELSE phase
    /\ UNCHANGED <<owned, timers, opened, answered, jobs, tearing, radio>>

Stop ==
    /\ Turn
    /\ mode = "running"
    /\ mode' = "stopped"
    /\ reconnectTimer' = "none"
    /\ refreshTimer' = FALSE
    /\ Teardown
    /\ tearing' = IF Held = {} THEN tearing ELSE tearing \cup {"stop"}
    /\ UNCHANGED <<attempt, jobs>>

StopReturns ==
    /\ Turn
    /\ "stop" \in tearing
    /\ link = "down"
    /\ tearing' = tearing \ {"stop"}
    /\ UNCHANGED <<mode, owned, timers, attempt, jobs, radio>>

(* release(): with nothing to close the quiet period starts at once.        *)
Release ==
    /\ Turn
    /\ "release" \in Allowed \ tearing
    /\ mode = "running"
    /\ Teardown
    /\ IF Held = {}
       THEN reconnectTimer' = "quiet" /\ UNCHANGED tearing
       ELSE tearing' = tearing \cup {"release"} /\ UNCHANGED reconnectTimer
    /\ UNCHANGED <<mode, refreshTimer, attempt, jobs>>

ReleaseReturns ==
    /\ Turn
    /\ "release" \in tearing
    /\ link = "down"
    /\ tearing' = tearing \ {"release"}
    /\ reconnectTimer' = IF Stopped THEN reconnectTimer ELSE "quiet"
    /\ UNCHANGED <<mode, owned, refreshTimer, attempt, jobs, radio>>

-----------------------------------------------------------------------------
(* One attempt: _doConnect() around _establish().                           *)

(* The attempt leaves `opened' behind; whoever still points to it as the    *)
(* session being established stops doing so (the finally block).            *)
EndAttempt ==
    /\ phase' = "none"
    /\ opened' = None
    /\ answered' = FALSE

(* close() of the attempt's own session, up to its first await.             *)
CloseOpened(next) ==
    /\ phase' = next
    /\ answered' = FALSE
    /\ open' = open \ {opened}
    /\ listening' = listening \ {opened}
    /\ UNCHANGED <<opened, link>>

AdapterGrants ==
    /\ Turn
    /\ phase = "queued"
    /\ phase' = IF Stopped THEN "none" ELSE "reach"
    /\ UNCHANGED <<mode, owned, timers, opened, answered, jobs, tearing, radio>>

ReachOk ==
    /\ Turn
    /\ phase = "reach"
    /\ IF Stopped
       THEN EndAttempt /\ UNCHANGED establishing
       ELSE \E s \in Sessions \ InUse :
               /\ opened' = s
               /\ establishing' = s
               /\ phase' = "link"
               /\ UNCHANGED answered
    /\ UNCHANGED <<mode, session, connected, timers, jobs, tearing, radio>>

(* The scan found nothing: no session to close, so _doConnect's catch block *)
(* tears down whatever the controller holds and schedules the next attempt. *)
ReachFails ==
    /\ Turn
    /\ phase = "reach"
    /\ EndAttempt
    /\ Teardown
    /\ reconnectTimer' = Scheduled
    /\ UNCHANGED <<mode, refreshTimer, jobs, tearing>>

(* Mutant: the disconnect listener is left to a later step.                 *)
LinkUpUnwatched ==
    /\ Turn
    /\ phase = "link" /\ link = "down" /\ tearing = {}
    /\ link' = "up"
    /\ phase' = "setup"
    /\ UNCHANGED <<mode, owned, timers, opened, answered, jobs, tearing, open, listening>>

(* connectAsync() resolves.  A close() under way is over by then, and a     *)
(* link left from before is settled first: LinkLost.                        *)
LinkUp ==
    /\ Turn
    /\ phase = "link" /\ link = "down" /\ tearing = {}
    /\ link' = "up"
    /\ listening' = listening \cup {opened}
    /\ phase' = "setup"
    /\ UNCHANGED <<mode, owned, timers, opened, answered, jobs, tearing, open>>

(* Discovery, key agreement and subscription are done: the session is open, *)
(* and an attempt that was stopped meanwhile closes it again.               *)
SetupOk ==
    /\ Turn
    /\ phase = "setup" /\ link = "up"
    /\ IF Stopped
       THEN CloseOpened("abandon")
       ELSE /\ phase' = "login"
            /\ open' = open \cup {opened}
            /\ UNCHANGED <<opened, answered, listening, link>>
    /\ UNCHANGED <<mode, owned, timers, jobs, tearing>>

(* The lock's answer can be dispatched before the write that asked for it   *)
(* is confirmed; request() returns once both have happened.                 *)
Answer ==
    /\ Turn
    /\ phase \in {"login", "status"}
    /\ ~answered
    /\ opened \in open /\ link = "up"
    /\ answered' = TRUE
    /\ UNCHANGED <<mode, owned, timers, phase, opened, jobs, tearing, radio>>

Returned == answered /\ link = "up"

(* The login returned.  A session that was closed under it (release()) is   *)
(* still taken up; its readStatus() then throws at once.                    *)
LoginOk ==
    /\ Turn
    /\ phase = "login" /\ Returned
    /\ IF Stopped
       THEN CloseOpened("abandon") /\ UNCHANGED <<session, connected>>
       ELSE /\ session' = opened /\ connected' = TRUE
            /\ IF opened \in open
               THEN /\ phase' = "status"
                    /\ answered' = FALSE
                    /\ UNCHANGED <<opened, radio>>
               ELSE CloseOpened("closing")
    /\ UNCHANGED <<mode, establishing, timers, jobs, tearing>>

(* The first status is in: the refresh interval starts and the attempt is   *)
(* over.  Nothing here looks at _stopped.                                   *)
StatusOk ==
    /\ Turn
    /\ phase = "status" /\ Returned
    /\ refreshTimer' = TRUE
    /\ EndAttempt
    /\ establishing' = IF establishing = opened THEN None ELSE establishing
    /\ UNCHANGED <<mode, session, connected, reconnectTimer, jobs, tearing, radio>>

(* Mutant: setup does not race against the link going away.                 *)
StepFailsUnraced ==
    /\ Turn
    /\ phase \in {"link", "login", "status"}
    /\ CloseOpened("closing")
    /\ UNCHANGED <<mode, owned, timers, jobs, tearing>>

(* noble never settles the connect, or the end of the scan (probe.js 28-31),*)
(* and nothing at lock.js 77 or probe.js 209 puts a limit to it.  Nothing   *)
(* leads out of here: not stop(), which closes the session and waits for    *)
(* that.                                                                    *)
Hangs ==
    /\ Turn
    /\ "hang" \in Allowed
    /\ phase = "reach" \/ (phase = "link" /\ link = "down")
    /\ phase' = "hung"
    /\ UNCHANGED <<mode, owned, timers, opened, answered, jobs, tearing, radio>>

(* A step throws: a refused connect, a timeout, a write error, a dropped    *)
(* link, a rejected waiter.  The session is closed first.                   *)
StepFails ==
    /\ Turn
    /\ phase \in {"link", "setup", "login", "status"}
    /\ CloseOpened("closing")
    /\ UNCHANGED <<mode, owned, timers, jobs, tearing>>

(* Mutant: the catch block schedules without tearing down.                  *)
AttemptClosedUntorn ==
    /\ Turn
    /\ phase = "closing" /\ link = "down"
    /\ EndAttempt
    /\ session' = IF session = opened THEN None ELSE session
    /\ establishing' = IF establishing = opened THEN None ELSE establishing
    /\ reconnectTimer' = Scheduled
    /\ UNCHANGED <<mode, connected, refreshTimer, jobs, tearing, radio>>

(* The close is over.  The catch and finally blocks let go of the session,  *)
(* and _doConnect tears down and schedules the next attempt.  That teardown *)
(* has nothing to close (NothingElseHeld), so it does not wait.             *)
AttemptClosed ==
    /\ Turn
    /\ phase = "closing" /\ link = "down"
    /\ EndAttempt
    /\ Teardown
    /\ reconnectTimer' = Scheduled
    /\ UNCHANGED <<mode, refreshTimer, jobs, tearing>>

(* Mutant: abandoned() does not await the close.                            *)
AbandonClosedAtOnce ==
    /\ Turn
    /\ phase = "abandon"
    /\ EndAttempt
    /\ establishing' = IF establishing = opened THEN None ELSE establishing
    /\ UNCHANGED <<mode, session, connected, timers, jobs, tearing, radio>>

(* abandoned() has closed what the attempt opened: it returns, and neither  *)
(* tears down nor schedules.                                                *)
AbandonClosed ==
    /\ Turn
    /\ phase = "abandon" /\ link = "down"
    /\ EndAttempt
    /\ establishing' = IF establishing = opened THEN None ELSE establishing
    /\ UNCHANGED <<mode, session, connected, timers, jobs, tearing, radio>>

-----------------------------------------------------------------------------
(* The link.                                                                *)

(* Mutant: the drop handler leaves the next attempt to somebody else.       *)
LinkLostUnscheduled ==
    /\ Turn
    /\ link = "up"
    /\ link' = "down"
    /\ open' = open \ listening
    /\ listening' = {}
    /\ IF listening # {} /\ ~Stopped
       THEN /\ session' = None /\ connected' = FALSE
            /\ refreshTimer' = FALSE
            /\ UNCHANGED reconnectTimer
       ELSE UNCHANGED <<session, connected, timers>>
    /\ UNCHANGED <<mode, establishing, attempt, jobs, tearing>>

(* Mutant: the drop handler keeps the dead session.                         *)
LinkLostKept ==
    /\ Turn
    /\ link = "up"
    /\ link' = "down"
    /\ open' = open \ listening
    /\ listening' = {}
    /\ IF listening # {} /\ ~Stopped
       THEN /\ connected' = FALSE
            /\ refreshTimer' = FALSE
            /\ reconnectTimer' = Scheduled
       ELSE UNCHANGED <<connected, timers>>
    /\ UNCHANGED <<mode, session, establishing, attempt, jobs, tearing>>

(* The link goes down, by itself or because a close asked for it, and the   *)
(* peripheral says so: every listening session is closed and runs           *)
(* _onDropped().  The requests it interrupts fail in StepFails and JobEnds. *)
LinkLost ==
    /\ Turn
    /\ link = "up"
    /\ link' = "down"
    /\ open' = open \ listening
    /\ listening' = {}
    /\ IF listening # {} /\ ~Stopped
       THEN /\ session' = None /\ connected' = FALSE
            /\ refreshTimer' = FALSE
            /\ reconnectTimer' = Scheduled
       ELSE UNCHANGED <<session, connected, timers>>
    /\ UNCHANGED <<mode, establishing, attempt, jobs, tearing>>

(* The link goes down and nobody is told (probe.js 28-31: the adapter was   *)
(* reset).                                                                  *)
Silence ==
    /\ Turn
    /\ "silence" \in Allowed
    /\ link = "up"
    /\ link' = "down"
    /\ UNCHANGED <<mode, owned, timers, attempt, jobs, tearing, open, listening>>

-----------------------------------------------------------------------------
(* The timers.                                                              *)

(* Mutant: the callback does not clear its handle.                          *)
RetryFiresSpent ==
    /\ Turn
    /\ reconnectTimer = "retry"
    /\ reconnectTimer' = "spent"
    /\ Connects
    /\ UNCHANGED <<mode, owned, refreshTimer, opened, answered, jobs, tearing, radio>>

(* _scheduleReconnect's callback forgets its handle, then connects.         *)
RetryFires ==
    /\ Turn
    /\ reconnectTimer = "retry"
    /\ reconnectTimer' = "none"
    /\ Connects
    /\ UNCHANGED <<mode, owned, refreshTimer, opened, answered, jobs, tearing, radio>>

(* release()'s callback only connects: the handle stays.                    *)
QuietEnds ==
    /\ Turn
    /\ reconnectTimer = "quiet"
    /\ reconnectTimer' = "spent"
    /\ Connects
    /\ UNCHANGED <<mode, owned, refreshTimer, opened, answered, jobs, tearing, radio>>

-----------------------------------------------------------------------------
(* Commands: read(), set() and the refresh interval's read().               *)

Enqueue ==
    /\ Turn
    /\ queue < MaxQueue
    /\ queue' = queue + 1
    /\ UNCHANGED <<mode, owned, timers, attempt, job, tearing, radio>>

RefreshTick == refreshTimer /\ Enqueue

(* _withSession(): use the live session, or stop waiting for the timer and  *)
(* connect now.  When stopped, _connect() does nothing and the job throws.  *)
JobStarts ==
    /\ JobReady
    /\ queue' = queue - 1
    /\ IF Live
       THEN job' = "request" /\ UNCHANGED <<reconnectTimer, phase>>
       ELSE /\ reconnectTimer' = "none"
            /\ Connects
            /\ job' = IF Stopped THEN "idle" ELSE "connect"
    /\ UNCHANGED <<mode, owned, refreshTimer, opened, answered, tearing, radio>>

(* Mutant: a job that found no session connects once more, and again.       *)
JobResumesRetrying ==
    /\ Resuming
    /\ IF Live \/ Stopped
       THEN job' = (IF Live THEN "request" ELSE "idle") /\ UNCHANGED phase
       ELSE Connects /\ UNCHANGED job
    /\ UNCHANGED <<mode, owned, timers, opened, answered, queue, tearing, radio>>

(* The shared attempt is over: there is a session, or "not reachable".      *)
JobResumes ==
    /\ Resuming
    /\ job' = IF Live THEN "request" ELSE "idle"
    /\ UNCHANGED <<mode, owned, timers, attempt, queue, tearing, radio>>

(* Answered, timed out or rejected by a close: the next job may run.        *)
JobEnds ==
    /\ Turn
    /\ job = "request"
    /\ job' = "idle"
    /\ UNCHANGED <<mode, owned, timers, attempt, queue, tearing, radio>>

-----------------------------------------------------------------------------
AttemptStep ==
    \/ AdapterGrants
    \/ ReachOk \/ ReachFails
    \/ LinkUp \/ SetupOk \/ Answer \/ LoginOk \/ StatusOk
    \/ StepFails \/ AttemptClosed \/ AbandonClosed

(* What a promise reaction does before the event loop turns.                *)
Reaction == JobStarts \/ JobResumes

Event ==
    \/ Start \/ Stop \/ StopReturns \/ Release \/ ReleaseReturns
    \/ AttemptStep \/ Hangs
    \/ LinkLost \/ Silence
    \/ RetryFires \/ QuietEnds
    \/ Enqueue \/ RefreshTick \/ JobEnds

Next == Reaction \/ Event

(* A close takes the link down; so does settling one left from before.      *)
Closing == tearing # {} \/ phase \in {"closing", "abandon", "link"}

(* A step of the setup that nothing but the lock ends.  A drop that is      *)
(* heard ends it; a close has taken the listener away first.                *)
Unanswered ==
    "mute" \in Allowed /\ phase = "setup" /\ ~(link = "down" /\ establishing = opened)

(* Reactions run, and armed timers fire however busy the event loop is.     *)
(* Every request ends, by its answer or by its deadline, and every step of  *)
(* an attempt by its answer or by throwing, but for a scan or a connect     *)
(* that hangs, which has no deadline: that is Hangs, and no step of         *)
(* AttemptStep is possible after it.  The adapter serves whoever waits, as  *)
(* long as no other lock's attempt hangs (EachGetsItsTurn of module         *)
(* Plugin).  A close takes the link down and returns.  Nothing obliges      *)
(* anybody to start, stop, release or command the controller.               *)
Fairness ==
    /\ WF_vars(Reaction)
    /\ SF_vars(RetryFires)
    /\ SF_vars(QuietEnds)
    /\ SF_vars(RefreshTick)
    /\ SF_vars(AttemptStep /\ ~Unanswered)
    /\ SF_vars(JobEnds)
    /\ SF_vars(Closing /\ LinkLost)
    /\ SF_vars(StopReturns \/ ReleaseReturns)

Spec == Init /\ [][Next]_vars /\ Fairness

-----------------------------------------------------------------------------
(* Types of the state.                                                      *)
TypeOK ==
    /\ mode \in {"created", "running", "stopped"}
    /\ {session, establishing, opened} \subseteq Sessions \cup {None}
    /\ connected \in BOOLEAN
    /\ reconnectTimer \in {"none", "retry", "quiet", "spent"}
    /\ refreshTimer \in BOOLEAN
    /\ phase \in Phases
    /\ answered \in BOOLEAN
    /\ queue \in 0..MaxQueue
    /\ job \in {"idle", "connect", "request"}
    /\ tearing \subseteq {"stop", "release"}
    /\ open \subseteq Sessions /\ listening \subseteq Sessions
    /\ link \in {"up", "down"}

(* An attempt that fails has no other session to close than its own: the    *)
(* controller never holds a session while an attempt for another one runs,  *)
(* so nothing is overwritten and leaked (controller.js 78-92, 172, 185).    *)
NothingElseHeld ==
    phase # "none" => Held \subseteq {opened}

(* A live session is a real one: the link is up and its end will be         *)
(* noticed, so `connected' is never shown for a link that is gone.          *)
LiveIsWatched ==
    ~Stopped /\ Live => session \in listening /\ link = "up"

(* Whenever no attempt is running, what the controller reports is what it   *)
(* has: every path that loses the session also says so (84-91, 219-222).    *)
ConnectedTruthful == phase = "none" => (connected <=> Live)

(* No link is left on the adapter without somebody who will close it: an    *)
(* attempt, a close under way, or the live session of a running controller  *)
(* (57-61: "a connection killed rather than released leaves a stale link"). *)
NoOrphanLink ==
    link = "up" =>
        \/ tearing # {}
        \/ phase \notin {"none", "queued", "reach"}
        \/ ~Stopped /\ Live

(* A stopped controller has no reconnect timer: whichever of stop(), a      *)
(* failing attempt, a drop and release() came last, nothing revives it.     *)
StopCancelsRetry == Stopped => reconnectTimer = "none"

(* A running controller without a session is connecting, closing, or armed  *)
(* to try again: the drop handler, a failed attempt, a command that took    *)
(* over the timer and an attempt that joined another all leave it so (3).   *)
NeverStranded ==
    ~Stopped /\ ~Live =>
        \/ phase # "none"
        \/ tearing # {}
        \/ reconnectTimer \in {"retry", "quiet"}

(* stop() "checks `_stopped' at each step" (60-61): no interval may tick    *)
(* for a stopped controller.                                                *)
StopEndsRefresh == Stopped => ~refreshTimer

(* A controller that is running tries, again and again, until it is         *)
(* connected (3).                                                           *)
KeepsTrying == []<>(Stopped \/ Live \/ phase # "none")

(* Every attempt whose scan and connect settle ends, so that the adapter is *)
(* passed on to the other locks.                                            *)
AttemptsEnd == phase # "none" ~> phase \in {"none", "hung"}

(* Every command is answered, even when it must wait for a connection,      *)
(* unless the attempt it waits for hangs: _withSession() (270) sets that    *)
(* wait no limit.                                                           *)
JobsEnd == job # "idle" ~> job = "idle" \/ (job = "connect" /\ phase = "hung")

(* After stop() the link is given back, for good, and so is the attempt,    *)
(* unless it hangs (57-61).                                                 *)
StopReleases ==
    (mode = "stopped") ~>
        [](mode = "stopped" => link = "down" /\ phase \in {"none", "hung"})

(* A link that is gone is noticed: sooner or later the controller has a     *)
(* real one, or knows that it has none (3, "Keeps one lock reachable").     *)
LossIsNoticed == []<>(Stopped \/ ~Live \/ link = "up")

(* The view of module Reachability.                                         *)
View ==
    IF mode = "created" THEN "new"
    ELSE IF Stopped THEN "off"
    ELSE IF Live THEN "up"
    ELSE IF phase # "none" THEN "trying"
    ELSE "waiting"

Promise == INSTANCE Reachability WITH view <- View

(* The controller does what Reachability promises, where nobody calls       *)
(* release() or restarts it: it retries in a while, though a try may last   *)
(* for ever.                                                                *)
KeepsPromise == Promise!Spec

=============================================================================
