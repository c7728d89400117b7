\* release() as its comment advertises it.
SPECIFICATION Spec
CONSTANTS
    s1 = s1
    s2 = s2
    s3 = s3
    None = None
    Sessions <- TwoSessions
    Allowed = {"release"}
    MaxQueue = 1
PROPERTIES
    KeepsTrying
