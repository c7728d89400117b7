--------------------------------- MODULE Cli ---------------------------------
(***************************************************************************)
(* One run of utec over locks it connects to: lock and unlock, status, dump,*)
(* pair, and the child process of `utec test'.  onLock() and the exit of    *)
(* src/cli.js around withSession() and setBolt() of src/ble/lock.js.        *)
(*                                                                         *)
(* A deadline rejects the promise the command waits for.  The session goes  *)
(* on behind it, while the command turns to the next lock, until the        *)
(* process exits.  Frames and waiters are the subject of module Session;    *)
(* here a request is answered, or it throws, or it hangs, or its rejection  *)
(* finds nobody and ends the process.                                       *)
(***************************************************************************)
EXTENDS Naturals

CONSTANT MaxLocks   \* bound: locks a command is for

ASSUME CliAssumption == MaxLocks \in Nat \ {0}

Goals    == {"Locked", "Unlocked"}
Commands == {"bolt", "status", "dump", "pair", "try"}
Locks    == 1..MaxLocks
None     == "none"

VARIABLES
    command,
    last,       \* how many locks it is for
    goal,       \* of lock and unlock
    turn,       \* the lock whose session is awaited; past `last', none
    phase,      \* how far each lock's session has come
    thrown,     \* has the session's work thrown?
    link,       \* the radio links
    verdict,    \* what has been printed of each lock
    code,       \* process.exitCode
    exited,
    late,       \* history: a deadline has passed
    crashed,    \* history: a rejection that nobody handled has ended the process
    heard,      \* session.state of the session that moves the bolt
    deferred,   \* setBolt's local variables `deferred'
    state,      \* and `state'
    bolt,       \* what that bolt really is
    motor,      \* what the lock does about the command: "idle", it has accepted
                \* it and is "due" to run, or it "ran"
    reached     \* history: the bolt was at the goal since the command went out

request == <<command, last, goal>>
outcome == <<turn, verdict, code, exited, late, crashed>>
result  == <<heard, deferred, state>>
lock    == <<bolt, motor, reached>>
vars    == <<request, phase, thrown, link, outcome, result, lock>>

Working == {"reach", "connect", "setup", "login", "bolt", "again", "read", "closing"}
Asking  == {"login", "bolt", "again", "read"}    \* a request is out

Init ==
    /\ command \in Commands /\ goal \in Goals /\ bolt \in Goals
    /\ last \in IF command \in {"bolt", "try"} THEN {1} ELSE Locks
    /\ turn = 1
    /\ phase = [l \in Locks |-> IF l = 1 THEN "reach" ELSE "waits"]
    /\ thrown = [l \in Locks |-> FALSE] /\ link = [l \in Locks |-> FALSE]
    /\ verdict = [l \in Locks |-> None]
    /\ code = 0 /\ exited = FALSE /\ late = FALSE /\ crashed = FALSE
    /\ heard = None /\ deferred = None /\ state = None
    /\ motor = "idle" /\ reached = FALSE

-----------------------------------------------------------------------------
(* Session l goes from one of the phases `from' to the phase `to'.          *)
Goes(l, from, to) ==
    /\ ~exited /\ phase[l] \in from
    /\ phase' = [phase EXCEPT ![l] = to]

(* `pair' has scanned for all of them; other commands look for each.        *)
Begins == IF command = "pair" THEN "connect" ELSE "reach"

(* Failures are told by the exit code, except that `pair' wants one lock    *)
(* identified, and the child of `test' prints its result.                   *)
Failed(l, printed) ==
    CASE command = "try"  -> FALSE
      [] command = "pair" -> l = last /\ "identified" \notin {printed[k] : k \in Locks}
      [] OTHER            -> printed[l] \notin {"done", "read"}

(* The command prints what became of lock l, whose session is left in       *)
(* `now', and turns to the next.                                            *)
Prints(l, v, now) ==
    /\ verdict' = [verdict EXCEPT ![l] = v]
    /\ code' = IF Failed(l, verdict') THEN 1 ELSE code
    /\ turn' = l + 1
    /\ phase' = [k \in Locks |->
           IF k = l THEN now ELSE IF k = l + 1 /\ k <= last THEN Begins ELSE phase[k]]

(* What a command prints for a session that ended.                          *)
Judge(l) ==
    CASE thrown[l]                    -> {"could not reach"}
      [] command = "pair"             -> {"identified", "no match"}
      [] command # "bolt"             -> {"read"}
      [] state = goal                 -> {"done"}
      [] state # goal /\ "Jammed" \in {state, deferred} -> {"JAMMED"}
      [] OTHER                        -> {"could not confirm"}

Awaited(l) == l = turn /\ verdict[l] = None

-----------------------------------------------------------------------------
(* The scan found the lock.  Past its deadline nobody goes on from here.    *)
Found(l) ==
    /\ Awaited(l)
    /\ Goes(l, {"reach"}, "connect")
    /\ UNCHANGED <<request, thrown, link, outcome, result, lock>>

(* The scan failed or found nothing; `pair' ends with it.                   *)
ReachFails(l) ==
    /\ ~exited /\ phase[l] = "reach"
    /\ IF ~Awaited(l)
       THEN Goes(l, {"reach"}, "over") /\ UNCHANGED outcome
       ELSE /\ UNCHANGED <<exited, late, crashed>>
            /\ IF command = "pair"
               THEN /\ Goes(l, {"reach"}, "over")
                    /\ turn' = last + 1 /\ code' = 1
                    /\ verdict' = [k \in Locks |-> "could not reach"]
               ELSE Prints(l, "could not reach", "over")
    /\ UNCHANGED <<request, thrown, link, result, lock>>

Connected(l) ==
    /\ Goes(l, {"connect"}, "setup")
    /\ link' = [link EXCEPT ![l] = TRUE]
    /\ UNCHANGED <<request, thrown, outcome, result, lock>>

SetUp(l) ==
    /\ link[l] /\ Goes(l, {"setup"}, "login")
    /\ UNCHANGED <<request, thrown, link, outcome, result, lock>>

(* The login is answered; the command's own request goes out.               *)
LoggedIn(l) ==
    /\ link[l] /\ Goes(l, {"login"}, IF command = "bolt" THEN "bolt" ELSE "read")
    /\ reached' = (command = "bolt" /\ bolt = goal)
    /\ UNCHANGED <<request, thrown, link, outcome, result, bolt, motor>>

(* Mutant: an acknowledgement passes for the outcome.                       *)
AcceptedIsDone(l) ==
    /\ motor # "idle"
    /\ link[l] /\ Goes(l, {"bolt", "again"}, "closing")
    /\ state' = goal
    /\ UNCHANGED <<request, thrown, link, outcome, heard, deferred, lock>>

(* The acknowledgement arrives.  A LOCK_STATUS pushed earlier, or in the    *)
(* same notification, is in session.state already: that is the deferred     *)
(* state.  The state is read again all the same.                            *)
Accepted(l) ==
    /\ motor # "idle"
    /\ link[l] /\ Goes(l, {"bolt", "again"}, "read")
    /\ deferred' = heard
    /\ UNCHANGED <<request, thrown, link, outcome, heard, state, lock>>

(* A refusal arrives: the other authentication mode, or the state all the   *)
(* same.                                                                    *)
Refused(l) ==
    /\ motor = "idle"
    /\ link[l] /\ Goes(l, {"bolt", "again"}, IF phase[l] = "bolt" THEN "again" ELSE "read")
    /\ deferred' = IF phase[l] = "again" THEN heard ELSE deferred
    /\ UNCHANGED <<request, thrown, link, outcome, heard, state, lock>>

(* A read is answered: the state, the serial number, or all that `dump' asks.*)
ReadBack(l) ==
    /\ link[l] /\ Goes(l, {"read"}, "closing")
    /\ IF command = "bolt" THEN heard' = bolt /\ state' = bolt ELSE UNCHANGED <<heard, state>>
    /\ UNCHANGED <<request, thrown, link, outcome, deferred, lock>>

(* setBolt() catches a failed read and reports what was heard before; dump  *)
(* prints the error and goes on; elsewhere it is thrown.                    *)
ReadFails(l) ==
    /\ Goes(l, {"read"}, "closing")
    /\ state' = IF command = "bolt" THEN deferred ELSE state
    /\ thrown' = [thrown EXCEPT ![l] = command \notin {"bolt", "dump"}]
    /\ UNCHANGED <<request, link, outcome, heard, deferred, lock>>

(* Any other step throws, and withSession() closes.                         *)
StepFails(l) ==
    /\ Goes(l, {"connect", "setup", "login", "bolt", "again"}, "closing")
    /\ thrown' = [thrown EXCEPT ![l] = TRUE]
    /\ UNCHANGED <<request, link, outcome, result, lock>>

(* The write of a request is pending when its timer fires or the link drops:*)
(* the answer's promise is rejected before anybody holds it, and node ends  *)
(* the process.                                                             *)
Crashes(l) ==
    /\ ~exited /\ phase[l] \in Asking
    /\ crashed' = TRUE /\ exited' = TRUE /\ code' = 1
    /\ link' \in {link, [link EXCEPT ![l] = FALSE]}
    /\ UNCHANGED <<request, phase, thrown, turn, verdict, late, result, lock>>

(* Mutant: the close in withSession() is not awaited.                       *)
ClosedUnawaited(l) ==
    /\ ~exited /\ phase[l] = "closing"
    /\ IF Awaited(l)
       THEN \E v \in Judge(l) : Prints(l, v, "over") /\ UNCHANGED <<exited, late, crashed>>
       ELSE Goes(l, {"closing"}, "over") /\ UNCHANGED outcome
    /\ UNCHANGED <<request, thrown, link, result, lock>>

(* Mutant: a lock that throws ends the loop over the locks.                 *)
ClosedThrows(l) ==
    /\ ~exited /\ phase[l] = "closing"
    /\ link' = [link EXCEPT ![l] = FALSE]
    /\ IF Awaited(l) /\ ~thrown[l]
       THEN \E v \in Judge(l) : Prints(l, v, "over") /\ UNCHANGED <<exited, late, crashed>>
       ELSE /\ Goes(l, {"closing"}, "over")
            /\ turn' = IF Awaited(l) THEN last + 1 ELSE turn
            /\ code' = IF Awaited(l) THEN 1 ELSE code
            /\ UNCHANGED <<verdict, exited, late, crashed>>
    /\ UNCHANGED <<request, thrown, result, lock>>

(* The close is over, and so is the session.                                *)
Closed(l) ==
    /\ ~exited /\ phase[l] = "closing"
    /\ link' = [link EXCEPT ![l] = FALSE]
    /\ IF Awaited(l)
       THEN \E v \in Judge(l) : Prints(l, v, "over") /\ UNCHANGED <<exited, late, crashed>>
       ELSE Goes(l, {"closing"}, "over") /\ UNCHANGED outcome
    /\ UNCHANGED <<request, thrown, result, lock>>

(* Mutant: only the scan has a deadline.                                    *)
DeadlineOnReach(l) ==
    /\ ~exited /\ Awaited(l) /\ phase[l] = "reach"
    /\ command \in {"bolt", "status", "dump"}
    /\ late' = TRUE
    /\ Prints(l, "could not reach", phase[l])
    /\ UNCHANGED <<request, thrown, link, exited, crashed, result, lock>>

(* LOCK_BUDGET_MS for reaching the lock, and again for the session.         *)
Deadline(l) ==
    /\ ~exited /\ Awaited(l) /\ phase[l] \in Working
    /\ command \in {"bolt", "status", "dump"}
    /\ late' = TRUE
    /\ Prints(l, "could not reach", phase[l])
    /\ UNCHANGED <<request, thrown, link, exited, crashed, result, lock>>

(* `utec test' kills its child after 45 seconds.                            *)
Killed ==
    /\ command = "try" /\ ~exited
    /\ late' = TRUE /\ exited' = TRUE
    /\ UNCHANGED <<request, phase, thrown, link, turn, verdict, code, crashed, result, lock>>

(* finish(): the output is flushed, and the process ends wherever it is.    *)
Exit ==
    /\ ~exited /\ turn > last
    /\ exited' = TRUE
    /\ UNCHANGED <<request, phase, thrown, link, turn, verdict, code, late, crashed, result,
                   lock>>

-----------------------------------------------------------------------------
(* The lock and the link: external.                                         *)

(* The lock has the command, accepts it, and answers.                       *)
LockAccepts ==
    /\ link[1] /\ ~exited /\ phase[1] \in {"bolt", "again"}
    /\ motor = "idle" /\ motor' = "due"
    /\ UNCHANGED <<request, phase, thrown, link, outcome, result, bolt, reached>>

(* Do the lock's frames reach the session?  They do from lock.js 110 on.    *)
Hears == link[1] /\ ~exited /\ phase[1] \in {"setup"} \cup Asking

(* The motor runs, and the lock may say so in a LOCK_STATUS, before or      *)
(* after its acknowledgement has been taken up.                             *)
MotorRuns ==
    /\ motor = "due" /\ motor' = "ran"
    /\ bolt' \in {goal, "Jammed"}
    /\ reached' = (reached \/ bolt' = goal)
    /\ heard' \in {heard} \cup (IF Hears THEN {bolt'} ELSE {})
    /\ UNCHANGED <<request, phase, thrown, link, outcome, deferred, state>>

(* "Some locks retract after jamming" (152-153).                            *)
Retracts ==
    /\ bolt = "Jammed"
    /\ bolt' \in Goals \ {goal}
    /\ UNCHANGED <<request, phase, thrown, link, outcome, result, motor, reached>>

(* A LOCK_STATUS that nobody asked for.                                     *)
Pushed ==
    /\ command = "bolt" /\ Hears
    /\ heard' = bolt
    /\ UNCHANGED <<request, phase, thrown, link, outcome, deferred, state, lock>>

LinkLost(l) ==
    /\ link[l] /\ ~exited
    /\ link' = [link EXCEPT ![l] = FALSE]
    /\ UNCHANGED <<request, phase, thrown, outcome, result, lock>>

Next ==
    \/ \E l \in Locks :
          \/ Found(l) \/ ReachFails(l)
          \/ Connected(l) \/ SetUp(l) \/ LoggedIn(l)
          \/ Accepted(l) \/ Refused(l)
          \/ ReadBack(l) \/ ReadFails(l) \/ StepFails(l) \/ Closed(l)
          \/ Crashes(l)
          \/ Deadline(l)
          \/ LinkLost(l)
    \/ Killed \/ Exit
    \/ LockAccepts \/ MotorRuns \/ Retracts \/ Pushed

(* Timers fire and output is flushed.  Bluetooth need not ever answer.      *)
Spec ==
    /\ Init /\ [][Next]_vars
    /\ \A l \in Locks : WF_vars(Deadline(l))
    /\ WF_vars(Killed) /\ WF_vars(Exit)

-----------------------------------------------------------------------------
(* "Never report success we cannot see reflected in the lock's own state"   *)
(* (166): where nobody else moves the bolt, `utec lock' that prints "done." *)
(* or exits with 0 has had the bolt there since the command went out, also  *)
(* when the read fails and it is the deferred state that is believed, which *)
(* may be older than the command.                                           *)
DoneIsReal ==
    command = "bolt" /\ (verdict[1] = "done" \/ (exited /\ code = 0)) => reached

(* README.md 262-264, "only reports success when a follow-up status read    *)
(* shows the bolt actually moved": a session without a link, which can read *)
(* nothing, does not come to take the bolt for moved.  It does.             *)
ConfirmedByRead == [][~link[1] /\ state # goal => state' # goal]_vars

(* One lock that cannot be reached, or hangs, does not cost the others      *)
(* their turn: a command that was neither killed nor crashed has a word on  *)
(* each.                                                                    *)
EachHasAWord ==
    exited /\ ~(command = "try" /\ late) /\ ~crashed => \A l \in 1..last : verdict[l] # None

(* 77-79, "gives up and says so": the commands with a deadline end,         *)
(* whatever hangs.                                                          *)
GivesUp == command # "pair" => <>exited

(* A process that was in time and did not crash leaves no link on the       *)
(* adapter.                                                                 *)
InTimeReleases == exited /\ ~late /\ ~crashed => \A l \in Locks : ~link[l]

(* platform.js 142-144: a process that goes leaving its link up "stop[s]    *)
(* the next one connecting": none does.                                     *)
ExitReleases == exited => \A l \in Locks : ~link[l]

(* 77-78, "Bluetooth calls can hang rather than fail, and a command that    *)
(* sits there silently is worse": `pair' gives up, too.                     *)
PairGivesUp == command = "pair" => <>exited

=============================================================================
