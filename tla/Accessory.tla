------------------------------ MODULE Accessory ------------------------------
(***************************************************************************)
(* What HomeKit sees of one lock: src/homebridge/accessory.js over the      *)
(* command queue of src/controller.js.                                      *)
(*                                                                         *)
(* HomeKit may set the target while an earlier set, or a read, is still in  *)
(* the queue.  The controller runs one job at a time and meanwhile reports  *)
(* states of its own: the first status of a connection, and what the lock   *)
(* pushes.  Every report changes controller.state and runs onState() in the *)
(* same turn of the event loop, and the result of a set() reaches the       *)
(* waiting setTarget() before the loop turns again.                         *)
(***************************************************************************)
EXTENDS Naturals, Sequences

CONSTANTS
    Allowed,    \* optional behaviours explored, out of Options
    MaxQueue    \* bound: jobs in the controller's queue

Options == {"overlap",   \* HomeKit sets the target again before the first answer
            "hand"}      \* the bolt is moved at the lock too

ASSUME AccessoryAssumption == Allowed \subseteq Options /\ MaxQueue \in Nat \ {0}

Goals  == {"Locked", "Unlocked"}
States == Goals \cup {"Jammed", "Other"}    \* Other: Unavailable, Unknown, undecoded
None   == "none"
Jobs   == Goals \cup {"read", "recheck"}    \* a set() by its goal, and two kinds of read()

VARIABLES
    state,      \* controller.state.state
    target,     \* _target: a goal, or None for null
    jamTimer,   \* is _jammedTimer armed?
    queue,      \* jobs enqueued and not over; the first is running
    gaveUp      \* history: the last re-read of a jam failed, nothing was heard since

vars == <<state, target, jamTimer, queue, gaveUp>>

Init ==
    /\ state = None
    /\ target = None
    /\ jamTimer = FALSE
    /\ queue = <<>>
    /\ gaveUp = FALSE

(* setTarget() calls that HomeKit has no answer to yet.                     *)
Pending == \E i \in DOMAIN queue : queue[i] \in Goals

(* The lock reports what it may: the bolt as it was, as the running command *)
(* wants it, anything after a jam, and anything at all if moved by hand.    *)
Believable(s) ==
    \/ "hand" \in Allowed
    \/ state \notin Goals
    \/ s \in {state, "Jammed", "Other"}
    \/ queue # <<>> /\ s = Head(queue)

-----------------------------------------------------------------------------
(* targetState(): with nothing asked for, the target follows the lock.      *)
targetState ==
    IF target # None THEN target
    ELSE IF state = "Unlocked" THEN "Unlocked" ELSE "Locked"

(* Mutants of onState(): a settled bolt leaves the timer armed; only a      *)
(* change to Jammed arms it.                                                *)
OnStateTimerKept(s) ==
    /\ state' = s
    /\ gaveUp' = FALSE
    /\ target' = IF s \in Goals THEN s ELSE target
    /\ jamTimer' = (s = "Jammed" \/ jamTimer)

OnStateArmsOnce(s) ==
    /\ state' = s
    /\ gaveUp' = FALSE
    /\ target' = IF s \in Goals THEN s ELSE target
    /\ jamTimer' = IF s \in Goals THEN FALSE ELSE ((s = "Jammed" /\ s # state) \/ jamTimer)

(* The controller has a state, and onState() follows it: a locked or        *)
(* unlocked bolt becomes the target and ends the jam, a jam (re)starts the  *)
(* timer of holdJammed().                                                   *)
OnState(s) ==
    /\ state' = s
    /\ gaveUp' = FALSE
    /\ target' = IF s \in Goals THEN s ELSE target
    /\ jamTimer' = IF s \in Goals THEN FALSE ELSE (s = "Jammed" \/ jamTimer)

-----------------------------------------------------------------------------
(* Enqueued by HomeKit, by the refresh interval, and by the jam timer.      *)

SetTarget(value) ==
    /\ Len(queue) < MaxQueue
    /\ Pending => "overlap" \in Allowed
    /\ target' = value
    /\ queue' = Append(queue, value)
    /\ UNCHANGED <<state, jamTimer, gaveUp>>

RefreshTick ==
    /\ Len(queue) < MaxQueue
    /\ queue' = Append(queue, "read")
    /\ UNCHANGED <<state, target, jamTimer, gaveUp>>

JamTimerFires ==
    /\ Len(queue) < MaxQueue
    /\ jamTimer
    /\ jamTimer' = FALSE
    /\ queue' = Append(queue, "recheck")
    /\ UNCHANGED <<state, target, gaveUp>>

-----------------------------------------------------------------------------
(* What the controller reports.                                             *)

(* A push, or the first status of a connection.                             *)
Reports(s) ==
    /\ Believable(s)
    /\ OnState(s)
    /\ UNCHANGED queue

Running(kinds) == queue # <<>> /\ Head(queue) \in kinds

ReadReturns(s) ==
    /\ Running({"read", "recheck"})
    /\ Believable(s)
    /\ queue' = Tail(queue)
    /\ OnState(s)

(* Unreachable, or no answer.  Nobody but the log is told.                  *)
ReadFails ==
    /\ Running({"read", "recheck"})
    /\ queue' = Tail(queue)
    /\ gaveUp' = (gaveUp \/ Head(queue) = "recheck")
    /\ UNCHANGED <<state, target, jamTimer>>

(* set() has the goal confirmed: onState() has made it the target.          *)
SetReached ==
    /\ Running(Goals)
    /\ queue' = Tail(queue)
    /\ OnState(Head(queue))

(* set() has another state to report: no target, and HomeKit gets an error. *)
SetMissed(s) ==
    /\ Running(Goals)
    /\ s # Head(queue) /\ Believable(s)
    /\ queue' = Tail(queue)
    /\ state' = s
    /\ gaveUp' = FALSE
    /\ target' = None
    /\ jamTimer' = IF s \in Goals THEN FALSE ELSE (s = "Jammed" \/ jamTimer)

(* Mutant: the catch block forgets the target.                              *)
SetFailsKept ==
    /\ Running(Goals)
    /\ queue' = Tail(queue)
    /\ UNCHANGED <<state, target, jamTimer, gaveUp>>

(* set() threw, or knows no state at all.                                   *)
SetFails ==
    /\ Running(Goals)
    /\ queue' = Tail(queue)
    /\ target' = None
    /\ UNCHANGED <<state, jamTimer, gaveUp>>

-----------------------------------------------------------------------------
Next ==
    \/ \E g \in Goals : SetTarget(g)
    \/ RefreshTick
    \/ JamTimerFires
    \/ \E s \in States : Reports(s) \/ ReadReturns(s) \/ SetMissed(s)
    \/ ReadFails
    \/ SetReached
    \/ SetFails

Spec == Init /\ [][Next]_vars

-----------------------------------------------------------------------------
(* Types of the state: in particular a target is something HomeKit can ask. *)
TypeOK ==
    /\ state \in States \cup {None}
    /\ target \in Goals \cup {None}
    /\ jamTimer \in BOOLEAN
    /\ queue \in Seq(Jobs)
    /\ gaveUp \in BOOLEAN

(* With no command in flight Home never shows "Locking..." or "Unlocking...": *)
(* the target agrees with a bolt that is locked or unlocked, however sets,  *)
(* failures, pushes and reads were interleaved (83-97, 138-146).            *)
Settles == ~Pending /\ state \in Goals => targetState = state

(* A jam is never left alone: its timer runs, or the re-read it asked for   *)
(* is queued, unless the last re-read failed and nothing was heard since    *)
(* (99-107).                                                                *)
JamWatched ==
    state = "Jammed" =>
        jamTimer \/ gaveUp \/ \E i \in DOMAIN queue : queue[i] = "recheck"

(* The timer never outlives its jam: once the bolt is known to be locked or *)
(* unlocked, no re-read is due (92-93).                                     *)
NoTimerOnceSettled == state \in Goals => ~jamTimer

(* accessory.js 5-6: "LockTargetState (what was asked for)": while a set is *)
(* in flight, the target is the last one asked for.                         *)
LastAsked(g) ==
    \E i \in DOMAIN queue :
        queue[i] = g /\ \A j \in DOMAIN queue : j > i => queue[j] \notin Goals
TargetIsAsked == \A g \in Goals : LastAsked(g) => targetState = g

(* accessory.js 99-100: "if none does, stop asserting a stale jam": a jam   *)
(* whose re-read failed is not reported any longer.                         *)
StaleJamDropped == gaveUp => state # "Jammed"

=============================================================================
