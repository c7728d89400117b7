\* Two-frame notifications, late write confirmations, hand and jam; no frame is lost.
\* The view drops what neither the outcome nor the traffic depends on.
SPECIFICATION Spec
CONSTANTS
    Allowed = {"chunks", "lateAck", "hand", "jam"}
    MaxWire = 3
    MaxInbox = 2
VIEW OutcomeView
INVARIANTS
    ConfirmedIsReal
    MovesOnce
