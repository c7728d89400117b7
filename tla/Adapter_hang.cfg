\* One fn that never settles.
SPECIFICATION Spec
CONSTANTS
    MaxCalls = 3
    MayHang = TRUE
PROPERTIES
    ChainStaysAlive
CHECK_DEADLOCK FALSE
