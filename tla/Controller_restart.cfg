\* stop() and start() again.
SPECIFICATION Spec
CONSTANTS
    s1 = s1
    s2 = s2
    s3 = s3
    None = None
    Sessions <- TwoSessions
    Allowed = {"restart"}
    MaxQueue = 1
PROPERTIES
    KeepsTrying
