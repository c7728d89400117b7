\* A session ends while a write is unconfirmed.
SPECIFICATION Spec
CONSTANTS
    Allowed = {}
    MaxWire = 2
    MaxInbox = 1
INVARIANTS
    NoUnhandledRejection
