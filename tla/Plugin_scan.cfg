\* An attempt that waits for the adapter to power on when the shutdown begins.
\* NoConnectStarts in the place of NoScanStarts fails as well: one that settles the
\* peripheral when the shutdown begins goes on to connect.
SPECIFICATION PluginSpec
CONSTANTS
    Locks = {front, back}
    MaxCalls = 3
    MayHang = FALSE
    Base = 2
    Cap = 6
PROPERTY
    NoScanStarts
CHECK_DEADLOCK FALSE
