\* A bolt that moves after set() has returned (a jam that settles, or a motor slower
\* than the follow-up read) is logged as a change "at the lock".
SPECIFICATION Spec
CONSTANTS
    Allowed = {"jam"}
    MaxWire = 2
    MaxInbox = 1
INVARIANTS
    OnlyForeignBlamed
