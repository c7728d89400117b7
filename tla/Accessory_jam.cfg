\* A jam whose re-read fails.
SPECIFICATION Spec
CONSTANTS
    Allowed = {}
    MaxQueue = 2
INVARIANTS
    StaleJamDropped
