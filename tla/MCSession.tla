----------------------------- MODULE MCSession -----------------------------
(***************************************************************************)
(* Instances of Session for TLC, with the views under which some of them    *)
(* are explored.  A view leaves out variables that neither the checked      *)
(* invariants nor any step that changes the rest depends on.                *)
(***************************************************************************)
EXTENDS Session

(* What decides who waits and who is resumed.  A frame counts by its code   *)
(* and its ok; that some frame can be pushed does not depend on the bolt.   *)
Shape(frame) ==
    IF frame.code \in Goals THEN frame ELSE [code |-> frame.code]

RoutingView ==
    <<open, pending, step, writing, [c \in Callers |-> Shape(answer[c])], due, chunk,
      goal, motor # None, [i \in DOMAIN wire |-> Shape(wire[i])], inbox>>

(* What decides the outcome of a set(): all but the controller's state, the *)
(* blame for a change and the unhandled rejections.                         *)
Outline(frame) ==
    IF frame.code = "status" THEN frame.state ELSE frame

OutcomeView ==
    <<open, pending, heard, step, writing, [c \in Callers |-> Outline(answer[c])], due, chunk,
      command, [i \in DOMAIN wire |-> Outline(wire[i])], inbox, bolt, motor, seen, runs>>
=============================================================================
