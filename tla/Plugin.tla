------------------------------- MODULE Plugin -------------------------------
(***************************************************************************)
(* The plugin as a whole: one LockController per lock, all of them setting  *)
(* up their connections through the one adapter (module Adapter), launched  *)
(* and shut down by the platform, src/homebridge/platform.js.               *)
(*                                                                         *)
(* A controller is reduced to what others of the fleet can notice: where    *)
(* its attempt is, its timer with the backoff, its link and whether a live  *)
(* session holds it.  Module Controller has one controller in full.         *)
(***************************************************************************)
EXTENDS Adapter

CONSTANTS
    Locks,      \* the locks of the key cache
    Base, Cap   \* RECONNECT_BASE_MS and RECONNECT_MAX_MS, in some unit

ASSUME PluginAssumption == Base \in Nat \ {0} /\ Cap \in Nat /\ Base <= Cap

VARIABLES
    stage,      \* of the platform: launching -> running -> stopping -> released
    step,       \* step[l]: the await of l's attempt
    ticket,     \* ticket[l]: the attempt's call of withAdapter
    session,    \* session[l]: is there a session, and open?
    timer,      \* timer[l]: delay of the armed reconnect timer, 0 for none
    attempt,    \* attempt[l]: this._attempt
    link,       \* link[l]: is the radio link up?
    tearing,    \* locks whose stop() awaits the closing of its session
    misses      \* history: attempts failed since the last login

adapter == vars
backoff == <<timer, attempt, misses>>
radio   == <<session, link>>
fleet   == <<adapter, stage, step, ticket, tearing, backoff, radio>>

(* The awaits of an attempt that has opened a session.  Nothing comes after *)
(* "stuck", nor after "hung", where there is none.                          *)
Opened == {"settle", "connect", "stuck", "setup", "login", "status", "closing", "abandon"}
Steps  == {"new", "none", "queued", "power", "scan", "hung", "leave"} \cup Opened

(* _stopped, of all controllers at once.                                    *)
Stopped == stage \in {"stopping", "released"}

(* noble answers no more once it was stopped.                               *)
NobleRuns == stage # "released"

PluginInit ==
    /\ Init
    /\ stage = "launching"
    /\ step = [l \in Locks |-> "new"]
    /\ ticket = [l \in Locks |-> 0]
    /\ session = [l \in Locks |-> FALSE]
    /\ timer = [l \in Locks |-> 0]
    /\ attempt = [l \in Locks |-> 0]
    /\ link = [l \in Locks |-> FALSE]
    /\ tearing = {}
    /\ misses = [l \in Locks |-> 0]

-----------------------------------------------------------------------------
Goes(l, next) == step' = [step EXCEPT ![l] = next]

(* _connect(): nothing with a live session; otherwise join the attempt in   *)
(* progress, or begin one, which queues for the adapter at once.            *)
Connects(l) ==
    IF step[l] \in {"new", "none"} /\ ~session[l]
    THEN \E t \in Tickets :
            /\ WithAdapter(t)
            /\ ticket' = [ticket EXCEPT ![l] = t]
            /\ Goes(l, "queued")
    ELSE UNCHANGED <<adapter, step, ticket>>

(* The attempt is over: its call of withAdapter settles.                    *)
Ends(l, outcome) == Finish(ticket[l], outcome) /\ Goes(l, "none")

(* _scheduleReconnect(): exponential backoff, capped.                       *)
Exponential[n \in Nat] == IF n = 0 THEN Base ELSE 2 * Exponential[n - 1]

Delay(n) == IF Exponential[n] < Cap THEN Exponential[n] ELSE Cap

Schedules(l) ==
    IF Stopped \/ timer[l] > 0
    THEN UNCHANGED <<timer, attempt>>
    ELSE /\ timer' = [timer EXCEPT ![l] = Delay(attempt[l])]
         /\ attempt' = [attempt EXCEPT ![l] = @ + 1]

(* _doConnect's catch block, after the attempt has closed what it opened.   *)
Misses(l) ==
    /\ Ends(l, "rejected")
    /\ Schedules(l)
    /\ misses' = [misses EXCEPT ![l] = @ + 1]

-----------------------------------------------------------------------------
(* The platform.                                                            *)

(* discover() creates and starts the controllers in one turn.               *)
Launch(l) ==
    /\ stage = "launching"
    /\ step[l] = "new"
    /\ Connects(l)
    /\ stage' = IF \A k \in Locks \ {l} : step[k] # "new" THEN "running" ELSE stage
    /\ UNCHANGED <<tearing, backoff, radio>>

(* shutdown() calls every stop() before the first of them awaits anything.  *)
(* A stop() with nothing to close returns at once.                          *)
Shutdown ==
    /\ stage = "running"
    /\ stage' = "stopping"
    /\ timer' = [l \in Locks |-> 0]
    /\ session' = [l \in Locks |-> FALSE]
    /\ tearing' = {l \in Locks : session[l] \/ step[l] \in Opened}
    /\ UNCHANGED <<adapter, step, ticket, link, attempt, misses>>

(* Mutant: stop() waits for the attempt in progress as well.                *)
StopReturnsWaiting(l) ==
    /\ l \in tearing
    /\ ~link[l] /\ step[l] = "none"
    /\ tearing' = tearing \ {l}
    /\ UNCHANGED <<adapter, stage, step, ticket, backoff, radio>>

StopReturns(l) ==
    /\ l \in tearing
    /\ ~link[l]
    /\ tearing' = tearing \ {l}
    /\ UNCHANGED <<adapter, stage, step, ticket, backoff, radio>>

(* Mutant: noble is stopped without waiting for the stop() calls.           *)
NobleStopsAtOnce ==
    /\ stage = "stopping"
    /\ stage' = "released"
    /\ UNCHANGED <<adapter, step, ticket, tearing, backoff, radio>>

(* All stop() calls have settled: noble.stop().                             *)
NobleStops ==
    /\ stage = "stopping"
    /\ tearing = {}
    /\ stage' = "released"
    /\ UNCHANGED <<adapter, step, ticket, tearing, backoff, radio>>

-----------------------------------------------------------------------------
(* What makes a controller connect.                                         *)

RetryFires(l) ==
    /\ timer[l] > 0
    /\ timer' = [timer EXCEPT ![l] = 0]
    /\ Connects(l)
    /\ UNCHANGED <<stage, tearing, radio, attempt, misses>>

(* A command, or the refresh interval, finds no session: _withSession()     *)
(* does not wait for the timer.                                             *)
Command(l) ==
    /\ stage = "running"
    /\ ~session[l]
    /\ timer' = [timer EXCEPT ![l] = 0]
    /\ Connects(l)
    /\ UNCHANGED <<stage, tearing, radio, attempt, misses>>

-----------------------------------------------------------------------------
(* The attempt: _establish() inside withAdapter().                          *)

Granted(l) ==
    /\ stage # "launching" /\ step[l] = "queued"
    /\ Start(ticket[l])
    /\ Goes(l, IF Stopped THEN "leave" ELSE "power")
    /\ UNCHANGED <<stage, ticket, tearing, backoff, radio>>

(* Stopped before it began.                                                 *)
Leaves(l) ==
    /\ step[l] = "leave"
    /\ Ends(l, "fulfilled")
    /\ UNCHANGED <<stage, ticket, tearing, backoff, radio>>

(* The scan begins as soon as the adapter is on (probe.js), where nobody    *)
(* looks at _stopped.                                                       *)
PoweredOn(l) ==
    /\ NobleRuns /\ step[l] = "power"
    /\ Goes(l, "scan")
    /\ UNCHANGED <<adapter, stage, ticket, tearing, backoff, radio>>

(* The attempt opens its session.  A peripheral with state left from before *)
(* is disconnected first, and given a moment.                               *)
Opens(l) == Goes(l, "settle") \/ Goes(l, "connect")

(* Mutant: no look at _stopped after the scan.                              *)
ScannedUnchecked(l) ==
    /\ NobleRuns /\ step[l] = "scan"
    /\ Opens(l)
    /\ UNCHANGED <<adapter, stage, ticket, tearing, backoff, radio>>

Scanned(l) ==
    /\ NobleRuns /\ step[l] = "scan"
    /\ IF Stopped THEN Ends(l, "fulfilled") ELSE Opens(l) /\ UNCHANGED adapter
    /\ UNCHANGED <<stage, ticket, tearing, backoff, radio>>

(* connectAsync() is called, where nobody looks at _stopped either.         *)
HasSettled(l) ==
    /\ step[l] = "settle"
    /\ Goes(l, "connect")
    /\ UNCHANGED <<adapter, stage, ticket, tearing, backoff, radio>>

(* No adapter in time, a scan that cannot start, or nothing found.          *)
ReachFails(l) ==
    /\ step[l] \in {"power", "scan"}
    /\ Misses(l)
    /\ UNCHANGED <<stage, ticket, tearing, radio>>

(* Mutant: the backoff starts anew with every link.                         *)
ConnectedResets(l) ==
    /\ NobleRuns /\ step[l] = "connect" /\ l \notin tearing
    /\ Goes(l, "setup")
    /\ link' = [link EXCEPT ![l] = TRUE]
    /\ attempt' = [attempt EXCEPT ![l] = 0]
    /\ UNCHANGED <<adapter, stage, ticket, tearing, session, timer, misses>>

Connected(l) ==
    /\ NobleRuns /\ step[l] = "connect" /\ l \notin tearing
    /\ Goes(l, "setup")
    /\ link' = [link EXCEPT ![l] = TRUE]
    /\ UNCHANGED <<adapter, stage, ticket, tearing, backoff, session>>

SetUp(l) ==
    /\ NobleRuns /\ step[l] = "setup" /\ link[l]
    /\ Goes(l, IF Stopped THEN "abandon" ELSE "login")
    /\ UNCHANGED <<adapter, stage, ticket, tearing, backoff, radio>>

(* The session is published and the backoff over, before the first status.  *)
LoggedIn(l) ==
    /\ NobleRuns /\ step[l] = "login" /\ link[l]
    /\ IF Stopped
       THEN Goes(l, "abandon") /\ UNCHANGED <<session, attempt, misses>>
       ELSE /\ Goes(l, "status")
            /\ session' = [session EXCEPT ![l] = TRUE]
            /\ attempt' = [attempt EXCEPT ![l] = 0]
            /\ misses' = [misses EXCEPT ![l] = 0]
    /\ UNCHANGED <<adapter, stage, ticket, tearing, link, timer>>

StatusRead(l) ==
    /\ NobleRuns /\ step[l] = "status" /\ link[l]
    /\ Ends(l, "fulfilled")
    /\ UNCHANGED <<stage, ticket, tearing, backoff, radio>>

StepFails(l) ==
    /\ step[l] \in {"connect", "setup", "login", "status"}
    /\ Goes(l, "closing")
    /\ session' = [session EXCEPT ![l] = FALSE]
    /\ UNCHANGED <<adapter, stage, ticket, tearing, backoff, link>>

AttemptClosed(l) ==
    /\ step[l] = "closing" /\ ~link[l]
    /\ Misses(l)
    /\ UNCHANGED <<stage, ticket, tearing, radio>>

Abandoned(l) ==
    /\ step[l] = "abandon" /\ ~link[l]
    /\ Ends(l, "fulfilled")
    /\ UNCHANGED <<stage, ticket, tearing, backoff, radio>>

(* The adapter was reset, and what noble had pending never settles          *)
(* (probe.js 28-31).  A stop() can still close the session, if there is one.*)
Hangs(l) ==
    /\ step[l] \in {"scan", "settle", "connect"}
    /\ Hang(ticket[l])
    /\ Goes(l, IF step[l] = "scan" THEN "hung" ELSE "stuck")
    /\ UNCHANGED <<stage, ticket, tearing, backoff, radio>>

(* Mutant: a drop is noticed, and nothing is scheduled.                     *)
LinkLostUnscheduled(l) ==
    /\ NobleRuns /\ link[l]
    /\ link' = [link EXCEPT ![l] = FALSE]
    /\ session' = [session EXCEPT ![l] = step[l] \in {"closing", "abandon"} /\ @]
    /\ UNCHANGED <<adapter, stage, step, ticket, tearing, backoff>>

(* The link goes down, by itself or because a close asked for it.  A close  *)
(* has removed the listener; otherwise _onDropped() runs.                   *)
LinkLost(l) ==
    /\ NobleRuns
    /\ link[l]
    /\ link' = [link EXCEPT ![l] = FALSE]
    /\ IF step[l] \in {"closing", "abandon"}
       THEN UNCHANGED <<session, timer, attempt>>
       ELSE session' = [session EXCEPT ![l] = FALSE] /\ Schedules(l)
    /\ UNCHANGED <<adapter, stage, step, ticket, tearing, misses>>

-----------------------------------------------------------------------------
(* The step the attempt waits in ends, well or badly.                       *)
StepEnds(l) ==
    \/ Leaves(l) \/ PoweredOn(l) \/ Scanned(l) \/ ReachFails(l)
    \/ HasSettled(l) \/ Connected(l) \/ SetUp(l)
    \/ LoggedIn(l) \/ StatusRead(l) \/ StepFails(l)

CloseEnds(l) == AttemptClosed(l) \/ Abandoned(l)

PluginNext ==
    \/ Shutdown \/ NobleStops
    \/ \E l \in Locks :
          \/ Launch(l) \/ StopReturns(l)
          \/ RetryFires(l) \/ Command(l)
          \/ Granted(l) \/ StepEnds(l) \/ CloseEnds(l)
          \/ Hangs(l) \/ LinkLost(l)

(* An await of an attempt settles unless it Hangs: by a limit in the code,  *)
(* or because noble settles what it began on a link that is up.  A close    *)
(* takes the link down, and settled promises let those go on who wait.      *)
PluginFairness ==
    /\ WF_fleet(NobleStops)
    /\ \A l \in Locks :
          /\ WF_fleet(Launch(l))
          /\ WF_fleet(Granted(l))
          /\ WF_fleet(StepEnds(l))
          /\ WF_fleet(CloseEnds(l))
          /\ WF_fleet(StopReturns(l))
          /\ WF_fleet(LinkLost(l) /\ (l \in tearing \/ step[l] \in {"closing", "abandon"}))

PluginSpec == PluginInit /\ [][PluginNext]_fleet /\ PluginFairness

-----------------------------------------------------------------------------
FleetTypeOK ==
    /\ TypeOK
    /\ stage \in {"launching", "running", "stopping", "released"}
    /\ step \in [Locks -> Steps]
    /\ ticket \in [Locks -> 0..MaxCalls]
    /\ session \in [Locks -> BOOLEAN]
    /\ timer \in [Locks -> 0..Cap]
    /\ attempt \in [Locks -> Nat]
    /\ link \in [Locks -> BOOLEAN]
    /\ tearing \in SUBSET Locks
    /\ misses \in [Locks -> Nat]

(* adapter.js 9-11: scan and connect are modes of the one adapter, so at    *)
(* most one lock is being set up, or cleaned up after, at a time.           *)
OneSetUp ==
    \A k, l \in Locks :
        step[k] \in Opened \cup {"scan"} /\ step[l] \in Opened \cup {"scan"} => k = l

(* platform.js 137-144: "Let go of the locks on the way out".  When noble   *)
(* is stopped, every lock that was connected has been let go of: a link     *)
(* that is still up belongs to an attempt shutdown() did not wait for.      *)
ReleasedInTime ==
    stage = "released" => \A l \in Locks : link[l] => step[l] \in Opened

(* The same without exception, as the comment has it: no half-open link is  *)
(* left for the next process to stumble over.                               *)
AllReleased == stage = "released" => \A l \in Locks : ~link[l]

(* controller.js 60-61: once the shutdown has begun no attempt takes up a   *)
(* lock any more, not even one that was scanning or queueing behind another *)
(* lock's when it did.  One that had a session by then may still go on to   *)
(* connect, and is to be closed: NoConnectStarts is false.                  *)
NothingStarts ==
    [][Stopped => \A l \in Locks : step'[l] \in Opened => step[l] \in Opened]_fleet

(* "It checks `_stopped' at each step": nobody begins to connect, either.   *)
NoConnectStarts ==
    [][Stopped => \A l \in Locks : step'[l] = "connect" => step[l] = "connect"]_fleet

(* ... and nobody begins to scan.                                           *)
NoScanStarts ==
    [][Stopped => \A l \in Locks : step'[l] = "scan" => step[l] = "scan"]_fleet

(* controller.js 229-230: "a lock that is asleep or out of range should not *)
(* be hammered".  After n failed attempts in a row, by whatever mixture of  *)
(* drops, timers and commands, it is left alone for the n-th delay.         *)
NotHammered ==
    \A l \in Locks : timer[l] > 0 /\ misses[l] > 0 => timer[l] >= Delay(misses[l] - 1)

(* ... and the backoff is over only when an attempt has succeeded.          *)
BackoffKept ==
    [][\A l \in Locks : attempt'[l] < attempt[l] => step'[l] = "none"]_fleet

(* controller.js 57: stop() "must return promptly".  However an attempt     *)
(* hangs, the platform gets to release noble.                               *)
ShutdownEnds == stage = "stopping" ~> stage = "released"

(* platform.js with adapter.js: an attempt gets the adapter however badly   *)
(* the other locks behave, unless one of them hangs.                        *)
EachGetsItsTurn ==
    \A l \in Locks :
        step[l] = "queued" ~>
            step[l] # "queued" \/ Stopped \/ \E k \in Locks : step[k] \in {"hung", "stuck"}

(* One lock as Reachability sees it, which has no name for a lock that is   *)
(* not connected and that nothing would connect again.                      *)
ViewOf(l) ==
    IF Stopped THEN "off"
    ELSE IF step[l] = "new" THEN "new"
    ELSE IF session[l] THEN "up"
    ELSE IF step[l] # "none" THEN "trying"
    ELSE IF timer[l] > 0 THEN "waiting" ELSE "stranded"

Promise(l) == INSTANCE Reachability WITH view <- ViewOf(l)

(* Each lock is kept reachable as if it were alone (controller.js 3): the   *)
(* fleet implements Reachability for it, whatever the others do.            *)
KeepsPromises ==
    /\ \A l \in Locks : Promise(l)!Init
    /\ [][\A l \in Locks : [Promise(l)!Next]_(ViewOf(l))]_fleet

=============================================================================
