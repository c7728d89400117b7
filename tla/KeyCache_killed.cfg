\* One command at a time, any of which may be killed.
SPECIFICATION Spec
CONSTANTS
    Serials = {A, B}
    Processes = {p}
    Only = {}
    MaxKey = 2
    MayCrash = TRUE
PROPERTIES
    PairingKept
    AccessoriesKept
