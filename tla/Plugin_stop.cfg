\* An attempt in flight when noble is stopped.
SPECIFICATION PluginSpec
CONSTANTS
    Locks = {front, back}
    MaxCalls = 3
    MayHang = FALSE
    Base = 2
    Cap = 6
INVARIANT
    AllReleased
CHECK_DEADLOCK FALSE
