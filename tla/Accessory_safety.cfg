\* Overlapping sets, keypad use, jams, refreshes and re-reads.
SPECIFICATION Spec
CONSTANTS
    Allowed = {"overlap", "hand"}
    MaxQueue = 4
INVARIANTS
    Settles
    JamWatched
