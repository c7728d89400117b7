\* Two locks, five attempts between them, any of which may fail, drop or hang;
\* the delays are 2, 4, 6, 6, 6.  The process ends.
SPECIFICATION PluginSpec
CONSTANTS
    Locks = {front, back}
    MaxCalls = 5
    MayHang = TRUE
    Base = 2
    Cap = 6
INVARIANTS
    OneSetUp
    ServedInOrder
    ReleasedInTime
    NotHammered
PROPERTIES
    NothingStarts
    EachGetsItsTurn
    ShutdownEnds
    KeepsPromises
CHECK_DEADLOCK FALSE
