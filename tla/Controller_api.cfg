\* release(), a restart and a silent loss of the link, a scan or connect that hangs.
SPECIFICATION Spec
CONSTANTS
    s1 = s1
    s2 = s2
    s3 = s3
    None = None
    Sessions <- ThreeSessions
    Allowed = {"release", "restart", "silence", "hang"}
    MaxQueue = 2
SYMMETRY Symmetry
INVARIANTS
    NothingElseHeld
    ConnectedTruthful
    NoOrphanLink
    StopCancelsRetry
