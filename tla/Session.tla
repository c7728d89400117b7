------------------------------- MODULE Session -------------------------------
(***************************************************************************)
(* A conversation with a lock: request(), the routing of frames, readStatus *)
(* and setBolt of src/ble/lock.js, and what read(), set(), the state        *)
(* listener and the first status of src/controller.js make of it.           *)
(*                                                                         *)
(* Two callers use a session.  "setup" is _establish(), which reads the     *)
(* first status after it has published the session; "job" is the command    *)
(* queue, which runs one read() or set() at a time.  Time is the event      *)
(* loop's: a notification is dispatched frame by frame, then the promise    *)
(* reactions it caused run, and only then does anything else happen.        *)
(*                                                                         *)
(* The lock at the other end is external.  It answers in order, accepts or  *)
(* refuses a bolt command, runs its motor later, may jam and un-jam, is     *)
(* operated by hand, and pushes a status for a change or does not.          *)
(***************************************************************************)
EXTENDS Naturals, Sequences, SequencesExt

CONSTANTS
    Allowed,    \* optional behaviours explored, out of Options
    MaxWire,    \* bound: frames under way from the lock
    MaxInbox    \* bound: requests unread by the lock when a job begins

Options == {"chunks",      \* a notification may hold two frames
            "lateAck",     \* frames may overtake the write confirmation
            "writeError",  \* a write may fail on a link that is up
            "timeout",     \* the lock may stay silent for 15 s
            "hand",        \* the bolt is also moved by hand or keypad
            "jam"}         \* the motor may jam, and a jam settle

ASSUME SessionAssumption == Allowed \subseteq Options /\ {MaxWire, MaxInbox} \subseteq Nat \ {0}

Callers == {"setup", "job"}
Goals   == {"Locked", "Unlocked"}
States  == Goals \cup {"Jammed"}
None    == "none"
Waiting == [code |-> "waiting"]
Failed  == [code |-> "failed"]

(* A frame: a status with the state it reports, and whether the change that *)
(* led to it was a command's doing; or the answer to a bolt command.        *)
Status(state, ours) == [code |-> "status", state |-> state, ours |-> ours]
Ack(goal, ok)       == [code |-> goal, ok |-> ok]
Frames == [code : {"status"}, state : States, ours : BOOLEAN] \cup [code : Goals, ok : BOOLEAN]

VARIABLES
    open,       \* session.open
    pending,    \* session._pending: who waits for which response code
    heard,      \* session.state: the last status dispatched
    step,       \* the request each caller is in: "idle", "status", and for
                \* set() "bolt" with credentials, then "again" without
    writing,    \* is the caller's write unconfirmed?
    answer,     \* the caller's `answer' promise: Waiting, Failed or a frame
    due,        \* callers whose request() has returned, oldest first
    chunk,      \* frames of the current notification still to dispatch
    goal,       \* what the running set() asks for; None for a read()
    deferred,   \* setBolt's local variable
    outcome,    \* what the last set() reported
    known,      \* controller.state
    wire,       \* frames under way from the lock
    inbox,      \* requests under way to the lock
    bolt,       \* what the bolt really is
    motor,      \* where the motor is about to drive it, or None
    ours,       \* was the bolt's last move a command's doing?
    seen,       \* history: the bolt was at the goal since set() began
    runs,       \* history: motor runs this set() started
    unhandled,  \* history: a promise was rejected while nobody held it
    misblamed   \* history: "at the lock" was logged for a command's doing

conversation == <<open, pending, heard, step, writing, answer, due, chunk>>
command      == <<goal, deferred, outcome>>
lock         == <<inbox, bolt, motor, ours>>
history      == <<seen, runs, unhandled, misblamed>>
vars         == <<conversation, command, known, wire, lock, history>>

NoOutcome == [asked |-> None, state |-> None, confirmed |-> FALSE]

Init ==
    /\ open = FALSE /\ pending = <<>> /\ heard = None
    /\ step = [c \in Callers |-> "idle"]
    /\ writing = [c \in Callers |-> FALSE]
    /\ answer = [c \in Callers |-> Failed]
    /\ due = <<>> /\ chunk = 0
    /\ goal = None /\ deferred = None /\ outcome = NoOutcome
    /\ known = None
    /\ wire = <<>> /\ inbox = <<>>
    /\ bolt \in Goals /\ motor = None /\ ours = FALSE
    /\ seen = FALSE /\ runs = 0 /\ unhandled = FALSE /\ misblamed = FALSE

(* The event loop turns: nothing left to dispatch, no reaction left to run. *)
Turn == chunk = 0 /\ due = <<>>

Commanding == goal # None     \* _commandDepth > 0

-----------------------------------------------------------------------------
(* request(), and what ends it.                                             *)

(* A caller's request goes out: the waiter is registered before the write.  *)
(* `what' is the caller's step, `code' the response it expects.             *)
Request(c, what, code) ==
    /\ step' = [step EXCEPT ![c] = what]
    /\ pending' = Append(pending, [who |-> c, expect |-> code])
    /\ writing' = [writing EXCEPT ![c] = TRUE]
    /\ answer' = [answer EXCEPT ![c] = Waiting]
    /\ inbox' = Append(inbox, [who |-> c, command |-> code])

(* Those of the callers cs, whose promises have settled in this order, that *)
(* do not still await their write: their request() is over.                 *)
Returns(cs) ==
    FlattenSeq([i \in DOMAIN cs |-> IF writing[cs[i]] THEN <<>> ELSE <<cs[i]>>])

Waiters == {pending[i].who : i \in DOMAIN pending}

(* _discard(): the caller's waiter goes, if it is still there.              *)
Discard(c) ==
    IF c \in Waiters
    THEN \E i \in DOMAIN pending : pending[i].who = c /\ pending' = RemoveAt(pending, i)
    ELSE UNCHANGED pending

(* _failPending(): every waiter is rejected.  A caller still awaiting its   *)
(* write does not hold the promise that is rejected.                        *)
FailPending ==
    /\ pending' = <<>>
    /\ answer' = [c \in Callers |-> IF c \in Waiters THEN Failed ELSE answer[c]]
    /\ unhandled' = (unhandled \/ \E c \in Waiters : writing[c])

(* The link ends or the session is closed: nothing more is dispatched, and  *)
(* what the lock has not read by now it never will.                         *)
EndSession(stillDue) ==
    /\ open' = FALSE
    /\ FailPending
    /\ due' = stillDue \o Returns([i \in DOMAIN pending |-> pending[i].who])
    /\ wire' = <<>> /\ inbox' = <<>>

(* Mutant: the caller goes on as soon as its write is confirmed.            *)
WriteDoneReturns(c) ==
    /\ Turn
    /\ writing[c]
    /\ writing' = [writing EXCEPT ![c] = FALSE]
    /\ due' = Append(due, c)
    /\ UNCHANGED <<open, pending, heard, step, answer, chunk, command, known, wire, lock, history>>

(* Mutant: a request that was settled before its write never returns.       *)
WriteDoneForgets(c) ==
    /\ Turn
    /\ writing[c]
    /\ writing' = [writing EXCEPT ![c] = FALSE]
    /\ UNCHANGED <<open, pending, heard, step, answer, due, chunk, command, known, wire,
                   lock, history>>

(* The write is confirmed.                                                  *)
WriteDone(c) ==
    /\ Turn
    /\ writing[c]
    /\ writing' = [writing EXCEPT ![c] = FALSE]
    /\ due' = IF answer[c] = Waiting THEN due ELSE Append(due, c)
    /\ UNCHANGED <<open, pending, heard, step, answer, chunk, command, known, wire, lock, history>>

(* The write fails before the lock has read it, or because the session is   *)
(* over: _discard() drops the waiter and request() throws.                  *)
WriteFails(c) ==
    /\ Turn
    /\ writing[c]
    /\ \/ ~open /\ UNCHANGED inbox
       \/ /\ open /\ "writeError" \in Allowed /\ answer[c] = Waiting
          /\ \E i \in DOMAIN inbox :
                /\ inbox[i].who = c
                /\ \A j \in DOMAIN inbox : inbox[j].who = c => j <= i
                /\ inbox' = RemoveAt(inbox, i)
    /\ writing' = [writing EXCEPT ![c] = FALSE]
    /\ answer' = [answer EXCEPT ![c] = Failed]
    /\ Discard(c)
    /\ due' = Append(due, c)
    /\ UNCHANGED <<open, heard, step, chunk, command, known, wire, bolt, motor, ours, history>>

(* Mutant: the timer rejects, and leaves the waiter registered.             *)
TimeoutKept(c) ==
    /\ Turn
    /\ "timeout" \in Allowed
    /\ c \in Waiters
    /\ answer' = [answer EXCEPT ![c] = Failed]
    /\ due' = due \o Returns(<<c>>)
    /\ unhandled' = (unhandled \/ writing[c])
    /\ UNCHANGED <<open, pending, heard, step, writing, chunk, command, known, wire, lock,
                   seen, runs, misblamed>>

(* Fifteen seconds without an answer.  The timer started before the write.  *)
Timeout(c) ==
    /\ Turn
    /\ "timeout" \in Allowed
    /\ c \in Waiters
    /\ Discard(c)
    /\ answer' = [answer EXCEPT ![c] = Failed]
    /\ due' = due \o Returns(<<c>>)
    /\ unhandled' = (unhandled \/ writing[c])
    /\ UNCHANGED <<open, heard, step, writing, chunk, command, known, wire, lock,
                   seen, runs, misblamed>>

(* Mutant: nobody tells the waiters.                                        *)
HangupSilent ==
    /\ Turn
    /\ open
    /\ open' = FALSE
    /\ wire' = <<>> /\ inbox' = <<>>
    /\ UNCHANGED <<pending, heard, step, writing, answer, due, chunk, command, known,
                   bolt, motor, ours, history>>

(* A drop, or a close() by stop() or release().                             *)
Hangup ==
    /\ Turn
    /\ open
    /\ EndSession(due)
    /\ UNCHANGED <<heard, step, writing, chunk, command, known, bolt, motor, ours,
                   seen, runs, misblamed>>

-----------------------------------------------------------------------------
(* Frames: _onData and _dispatch.                                           *)

(* Mutant: a frame is handed over before all of it has arrived.             *)
NotifyPartial(n) ==
    /\ Turn
    /\ open
    /\ n \in 1..(Len(wire) + 1)
    /\ n > 1 => "chunks" \in Allowed
    /\ "lateAck" \in Allowed \/ \A c \in Callers : ~writing[c]
    /\ chunk' = n
    /\ UNCHANGED <<open, pending, heard, step, writing, answer, due, command, known, wire,
                   lock, history>>

(* A notification arrives.                                                  *)
Notify(n) ==
    /\ Turn
    /\ open
    /\ n \in 1..Len(wire)
    /\ n > 1 => "chunks" \in Allowed
    /\ "lateAck" \in Allowed \/ \A c \in Callers : ~writing[c]
    /\ chunk' = n
    /\ UNCHANGED <<open, pending, heard, step, writing, answer, due, command, known, wire,
                   lock, history>>

(* The state listener of _establish(): the controller follows, and reports  *)
(* a change that comes while it has no command in flight.                   *)
Hear(frame) ==
    IF frame.code = "status"
    THEN /\ heard' = frame.state
         /\ IF heard # frame.state
            THEN /\ known' = frame.state
                 /\ misblamed' = (misblamed \/ ( /\ known \notin {None, frame.state}
                                                /\ ~Commanding /\ frame.ours))
            ELSE UNCHANGED <<known, misblamed>>
    ELSE UNCHANGED <<heard, known, misblamed>>

(* The waiter a frame answers: the first that expects its code, if any.     *)
Claimant(frame) == SelectInSeq(pending, LAMBDA w : w.expect = frame.code)

Dispatch ==
    /\ chunk > 0
    /\ chunk' = chunk - 1
    /\ wire' = Tail(wire)
    /\ Hear(Head(wire))
    /\ LET frame == Head(wire)
           i == Claimant(frame)
       IN  IF i = 0
           THEN UNCHANGED <<pending, answer, due>>      \* a push
           ELSE /\ pending' = RemoveAt(pending, i)
                /\ answer' = [answer EXCEPT ![pending[i].who] = frame]
                /\ due' = due \o Returns(<<pending[i].who>>)
    /\ UNCHANGED <<open, step, writing, command, lock, seen, runs, unhandled>>

-----------------------------------------------------------------------------
(* The callers.                                                             *)

Idle(c) == step[c] = "idle"

(* A fresh session: setup publishes it and reads the first status.          *)
OpenSession ==
    /\ Turn
    /\ ~open
    /\ \A c \in Callers : Idle(c)
    /\ open' = TRUE
    /\ heard' = None
    /\ Request("setup", "status", "status")
    /\ UNCHANGED <<due, chunk, command, known, wire, bolt, motor, ours, history>>

JobMayBegin == Turn /\ open /\ Idle("job") /\ Len(inbox) < MaxInbox

Read ==
    /\ JobMayBegin
    /\ Request("job", "status", "status")
    /\ UNCHANGED <<open, heard, due, chunk, command, known, wire, bolt, motor, ours, history>>

Set(g) ==
    /\ JobMayBegin
    /\ goal' = g
    /\ outcome' = NoOutcome
    /\ seen' = (bolt = g)
    /\ runs' = 0
    /\ Request("job", "bolt", g)
    /\ UNCHANGED <<open, heard, due, chunk, deferred, known, wire, bolt, motor, ours,
                   unhandled, misblamed>>

Returned(c) == chunk = 0 /\ due # <<>> /\ Head(due) = c

(* A caller takes its last answer and is done.                              *)
Leaves(c) ==
    /\ due' = Tail(due)
    /\ step' = [step EXCEPT ![c] = "idle"]
    /\ answer' = [answer EXCEPT ![c] = Failed]

(* _establish() has its first status, or closes the session.                *)
SetupReturns ==
    /\ Returned("setup")
    /\ IF answer["setup"] = Failed
       THEN /\ EndSession(Tail(due))
            /\ step' = [step EXCEPT !["setup"] = "idle"]
            /\ UNCHANGED known
       ELSE /\ Leaves("setup")
            /\ known' = answer["setup"].state
            /\ UNCHANGED <<open, pending, wire, inbox, unhandled>>
    /\ UNCHANGED <<heard, writing, chunk, command, bolt, motor, ours, seen, runs, misblamed>>

ReadReturns ==
    /\ Returned("job") /\ step["job"] = "status" /\ ~Commanding
    /\ Leaves("job")
    /\ known' = IF answer["job"] = Failed THEN known ELSE answer["job"].state
    /\ UNCHANGED <<open, pending, heard, writing, chunk, command, wire, lock, history>>

Refused == answer["job"] # Failed /\ ~answer["job"].ok

(* set() is over: _commandDepth goes down.                                  *)
EndSet(state, isConfirmed) ==
    /\ Leaves("job")
    /\ deferred' = None
    /\ outcome' = [asked |-> goal, state |-> state, confirmed |-> isConfirmed]
    /\ known' = IF state = None THEN known ELSE state
    /\ goal' = None

(* The bolt command got no answer, or was refused by a session since ended. *)
SetThrows ==
    /\ Returned("job") /\ step["job"] \in {"bolt", "again"}
    /\ answer["job"] = Failed \/ (Refused /\ step["job"] = "bolt" /\ ~open)
    /\ Leaves("job")
    /\ goal' = None
    /\ UNCHANGED <<open, pending, heard, writing, chunk, deferred, outcome, known, wire,
                   lock, history>>

(* Mutant: both authentication modes are always tried.                      *)
SetRetriesAlways ==
    /\ Returned("job") /\ step["job"] = "bolt"
    /\ answer["job"] # Failed /\ open
    /\ due' = Tail(due)
    /\ Request("job", "again", goal)
    /\ UNCHANGED <<open, heard, chunk, command, known, wire, bolt, motor, ours, history>>

(* The first mode was refused: the other one.                               *)
SetRetries ==
    /\ Returned("job") /\ step["job"] = "bolt"
    /\ Refused /\ open
    /\ due' = Tail(due)
    /\ Request("job", "again", goal)
    /\ UNCHANGED <<open, heard, chunk, command, known, wire, bolt, motor, ours, history>>

(* The modes are exhausted or one was accepted: read the state again.  On a *)
(* session that has ended meanwhile the read throws, and what was heard     *)
(* last is what is reported.                                                *)
BoltReturns ==
    /\ Returned("job") /\ step["job"] \in {"bolt", "again"}
    /\ answer["job"] # Failed
    /\ step["job"] = "bolt" => ~Refused
    /\ IF open
       THEN /\ due' = Tail(due)
            /\ deferred' = heard
            /\ Request("job", "status", "status")
            /\ UNCHANGED <<goal, outcome, known>>
       ELSE EndSet(heard, FALSE) /\ UNCHANGED <<pending, writing, inbox>>
    /\ UNCHANGED <<open, heard, chunk, wire, bolt, motor, ours, history>>

(* Mutant: what was heard before the follow-up read is reported.            *)
SetReturnsDeferred ==
    /\ Returned("job") /\ step["job"] = "status" /\ Commanding
    /\ EndSet(deferred, answer["job"] # Failed)
    /\ UNCHANGED <<open, pending, heard, writing, chunk, wire, lock, history>>

(* The follow-up read decides; if it failed, the deferred state does.       *)
SetReturns ==
    /\ Returned("job") /\ step["job"] = "status" /\ Commanding
    /\ IF answer["job"] = Failed
       THEN EndSet(deferred, FALSE)
       ELSE EndSet(answer["job"].state, TRUE)
    /\ UNCHANGED <<open, pending, heard, writing, chunk, wire, lock, history>>

-----------------------------------------------------------------------------
(* The lock: external.                                                      *)

Roomy == Len(wire) < MaxWire

(* It reads the next request and answers it.                                *)
LockAnswers ==
    /\ Turn
    /\ inbox # <<>> /\ Roomy
    /\ inbox' = Tail(inbox)
    /\ IF Head(inbox).command = "status"
       THEN /\ wire' = Append(wire, Status(bolt, ours))
            /\ UNCHANGED <<motor, runs>>
       ELSE \/ /\ wire' = Append(wire, Ack(Head(inbox).command, TRUE))
               /\ motor' = Head(inbox).command
               /\ runs' = runs + 1
            \/ /\ wire' = Append(wire, Ack(Head(inbox).command, FALSE))
               /\ UNCHANGED <<motor, runs>>
    /\ UNCHANGED <<conversation, command, known, bolt, ours, seen, unhandled, misblamed>>

(* It loses one.                                                            *)
LockIgnores ==
    /\ Turn
    /\ "timeout" \in Allowed
    /\ inbox # <<>>
    /\ inbox' = Tail(inbox)
    /\ UNCHANGED <<conversation, command, known, wire, bolt, motor, ours, history>>

(* The bolt moves, and the lock may push a status.                          *)
Moves(state, byCommand) ==
    /\ bolt' = state
    /\ ours' = byCommand
    /\ seen' = (seen \/ state = goal)
    /\ \/ UNCHANGED wire
       \/ open /\ Roomy /\ wire' = Append(wire, Status(state, byCommand))
    /\ UNCHANGED <<conversation, command, known, inbox, runs, unhandled, misblamed>>

MotorRuns ==
    /\ Turn
    /\ motor # None
    /\ motor' = None
    /\ \E state \in {motor} \cup (IF "jam" \in Allowed THEN {"Jammed"} ELSE {}) :
           Moves(state, TRUE)

(* Some locks retract after jamming (cli.js 150-151).                       *)
JamSettles ==
    /\ Turn
    /\ bolt = "Jammed" /\ motor = None
    /\ \E state \in Goals : Moves(state, ours)
    /\ UNCHANGED motor

Keypad ==
    /\ Turn
    /\ "hand" \in Allowed
    /\ motor = None
    /\ \E state \in Goals \ {bolt} : Moves(state, FALSE)
    /\ UNCHANGED motor

-----------------------------------------------------------------------------
Link ==
    \/ \E c \in Callers : WriteDone(c) \/ WriteFails(c) \/ Timeout(c)
    \/ Hangup
    \/ \E n \in 1..2 : Notify(n)
    \/ OpenSession

Reaction ==
    \/ Dispatch
    \/ SetupReturns \/ ReadReturns
    \/ SetThrows \/ SetRetries \/ BoltReturns \/ SetReturns

Command == Read \/ \E g \in Goals : Set(g)

Lock == LockAnswers \/ LockIgnores \/ MotorRuns \/ JamSettles \/ Keypad

Next == Link \/ Reaction \/ Command \/ Lock

(* Reactions run, writes settle and timers fire, however busy the event     *)
(* loop is.  Nothing obliges the lock to answer, the radio to deliver, a    *)
(* command to be given or the bolt to move.                                 *)
Fairness ==
    /\ WF_vars(Reaction)
    /\ \A c \in Callers : SF_vars(WriteDone(c) \/ WriteFails(c)) /\ SF_vars(Timeout(c))

Spec == Init /\ [][Next]_vars /\ Fairness

-----------------------------------------------------------------------------
Active(c) == step[c] # "idle"

(* Types of the state.                                                      *)
TypeOK ==
    /\ open \in BOOLEAN
    /\ pending \in Seq([who : Callers, expect : {"status"} \cup Goals])
    /\ {heard, known, deferred} \subseteq States \cup {None}
    /\ step \in [Callers -> {"idle", "status", "bolt", "again"}]
    /\ writing \in [Callers -> BOOLEAN]
    /\ answer \in [Callers -> {Waiting, Failed} \cup Frames]
    /\ due \in Seq(Callers)
    /\ chunk \in 0..2 /\ chunk <= Len(wire)
    /\ goal \in Goals \cup {None}
    /\ outcome \in [asked : Goals \cup {None}, state : States \cup {None}, confirmed : BOOLEAN]
    /\ wire \in Seq(Frames) /\ Len(wire) <= MaxWire
    /\ inbox \in Seq([who : Callers, command : {"status"} \cup Goals])
    /\ bolt \in States /\ motor \in Goals \cup {None}
    /\ {ours, seen, unhandled, misblamed} \subseteq BOOLEAN
    /\ runs \in Nat

(* What the caller's request is to be answered with.                        *)
Expected(c) == IF step[c] = "status" THEN "status" ELSE goal

(* A request that is not settled has one waiter, registered for the code it *)
(* expects, and nobody else has any: a timeout, a failed write, an answer   *)
(* and the end of the session each take away exactly their own (156-168).   *)
WaitersExact ==
    /\ \A c \in Callers : c \in Waiters <=> Active(c) /\ answer[c] = Waiting
    /\ \A i \in DOMAIN pending : pending[i].expect = Expected(pending[i].who)
    /\ \A i, j \in DOMAIN pending : pending[i].who = pending[j].who => i = j

(* An ended session has nobody waiting: no request hangs on a dead link     *)
(* until its timer (57-61, 212-214).                                        *)
ClosedIsSettled == ~open => pending = <<>>

(* A caller whose request() returned is resumed, and never twice, nor       *)
(* before.                                                                  *)
ResumedOnce ==
    /\ \A c \in Callers :
          c \in ToSet(due) <=> Active(c) /\ ~writing[c] /\ answer[c] # Waiting
    /\ IsInjective(due)

(* "The state read back afterwards is the ground truth" (250-251): where    *)
(* the follow-up read confirms the state asked for, the bolt was in it      *)
(* after set() began.                                                       *)
ConfirmedIsReal ==
    outcome.confirmed /\ outcome.state = outcome.asked => seen

(* "Reports what the lock actually said rather than asserting an outcome"   *)
(* (250-251): whatever set() reports as reached was reached.                *)
SuccessIsReal == outcome.state # None /\ outcome.state = outcome.asked => seen

(* "A rejected command does nothing, so trying both is safe" (247): one     *)
(* set() runs the motor at most once.                                       *)
MovesOnce == runs <= 1

(* Once nobody has anything in flight, the controller shows the last status *)
(* the session heard: no older answer has overwritten it (133, "the         *)
(* freshest truth available").                                              *)
KnownIsFreshest ==
    open /\ Turn /\ (\A c \in Callers : Idle(c)) => known = heard

(* controller.js 12-13, 254: "one command at a time".                       *)
OneAtATime == ~(Active("setup") /\ Active("job"))

(* lock.js 198-199: no promise is rejected while nobody holds it.           *)
NoUnhandledRejection == ~unhandled

(* README 47: "`at the lock` marks a change nothing here commanded".        *)
OnlyForeignBlamed == ~misblamed

(* Every request ends, so the command queue moves on.                       *)
CallsEnd == \A c \in Callers : Active(c) ~> Idle(c)

=============================================================================
