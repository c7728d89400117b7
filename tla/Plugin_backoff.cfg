\* A lock that logs in, and then drops.
SPECIFICATION PluginSpec
CONSTANTS
    Locks = {front, back}
    MaxCalls = 3
    MayHang = FALSE
    Base = 2
    Cap = 6
PROPERTY
    BackoffKept
CHECK_DEADLOCK FALSE
