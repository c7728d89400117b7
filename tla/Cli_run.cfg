\* Every way a command over up to three locks can go, deadlines included.
SPECIFICATION Spec
CONSTANTS
    MaxLocks = 3
INVARIANTS
    DoneIsReal
    EachHasAWord
    InTimeReleases
PROPERTIES
    GivesUp
CHECK_DEADLOCK FALSE
