\* A lock hangs while it is asked for its serial number.
SPECIFICATION Spec
CONSTANTS
    MaxLocks = 1
PROPERTIES
    PairGivesUp
CHECK_DEADLOCK FALSE
