\* A command killed as it writes, then `utec link'.
SPECIFICATION Spec
CONSTANTS
    Serials = {A, B}
    Processes = {p}
    Only = {}
    MaxKey = 1
    MayCrash = TRUE
INVARIANTS
    LinkRepairs
