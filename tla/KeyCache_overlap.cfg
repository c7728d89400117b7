\* `utec forget' while `utec pair' scans.
SPECIFICATION Spec
CONSTANTS
    Serials = {A, B}
    Processes = {p, q}
    Only = {}
    MaxKey = 1
    MayCrash = FALSE
INVARIANTS
    StaysForgotten
