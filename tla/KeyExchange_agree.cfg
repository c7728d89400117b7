\* Two attempts, every pair of some private keys, drops and garbage.
SPECIFICATION ExchangeSpec
CONSTANTS
    P = 13
    B = 12
    N = 19
    GX = 0
    GY = 5
    BASE = 4
    BYTES = 2
    MaxAttempts = 2
    Abscissas = {0, 13}
    Keys = {1, 2, 9, 18}
INVARIANTS
    KeyAgreed
    GroupLaws
CHECK_DEADLOCK FALSE
