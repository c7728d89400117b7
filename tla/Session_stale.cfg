\* Two status frames in one notification: the older answer overwrites the newer push.
SPECIFICATION Spec
CONSTANTS
    Allowed = {"chunks", "hand"}
    MaxWire = 2
    MaxInbox = 1
INVARIANTS
    KnownIsFreshest
