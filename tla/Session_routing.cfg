\* Every behaviour: who waits for what, and that every call ends.
SPECIFICATION Spec
CONSTANTS
    Allowed = {"chunks", "lateAck", "writeError", "timeout", "hand", "jam"}
    MaxWire = 2
    MaxInbox = 1
VIEW RoutingView
INVARIANTS
    WaitersExact
    ClosedIsSettled
    ResumedOnce
PROPERTIES
    CallsEnd
