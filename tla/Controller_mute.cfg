\* A lock that takes the link and answers nothing, while it is set up.
SPECIFICATION Spec
CONSTANTS
    s1 = s1
    s2 = s2
    s3 = s3
    None = None
    Sessions <- TwoSessions
    Allowed = {"mute"}
    MaxQueue = 1
PROPERTIES
    AttemptsEnd
