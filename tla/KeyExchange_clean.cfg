\* The abandoned exchange of the first attempt cleans up during the second.
SPECIFICATION ExchangeSpec
CONSTANTS
    P = 13
    B = 12
    N = 19
    GX = 0
    GY = 5
    BASE = 4
    BYTES = 2
    MaxAttempts = 2
    Abscissas = {0}
    Keys = {2}
INVARIANTS
    NextAttemptIsClean
CHECK_DEADLOCK FALSE
