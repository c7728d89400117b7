\* A link that dies without a disconnect event.
SPECIFICATION Spec
CONSTANTS
    s1 = s1
    s2 = s2
    s3 = s3
    None = None
    Sessions <- TwoSessions
    Allowed = {"silence"}
    MaxQueue = 1
PROPERTIES
    LossIsNoticed
