---------------------------- MODULE Reachability ----------------------------
(***************************************************************************)
(* What a LockController promises its owner, whatever the lock and the      *)
(* radio do: "Keeps one lock reachable" (src/controller.js 3).  Until it is *)
(* turned off it is up, trying, or waiting to try again, it only waits for  *)
(* a while, and it never comes up without trying.  Turned off, it is off    *)
(* for good.                                                                *)
(***************************************************************************)
VARIABLE view

Init == view = "new"

TurnOn  == view = "new" /\ view' = "trying"
ComeUp  == view = "trying" /\ view' = "up"
GiveUp  == view = "trying" /\ view' = "waiting"
Lose    == view = "up" /\ view' \in {"waiting", "trying"}
Retry   == view = "waiting" /\ view' = "trying"
TurnOff == view \in {"up", "trying", "waiting"} /\ view' = "off"

Next == TurnOn \/ ComeUp \/ GiveUp \/ Lose \/ Retry \/ TurnOff

(* It does not wait for ever.  Nothing is promised of the length of a try:  *)
(* a connect may never resolve (src/ble/probe.js 28-31).                    *)
Fairness == WF_view(Retry)

Spec == Init /\ [][Next]_view /\ Fairness
=============================================================================
