\* stop() during the first status read.
SPECIFICATION Spec
CONSTANTS
    s1 = s1
    s2 = s2
    s3 = s3
    None = None
    Sessions <- TwoSessions
    Allowed = {}
    MaxQueue = 1
INVARIANTS
    StopEndsRefresh
