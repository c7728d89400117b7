\* The controller as the plugin uses it: start once, stop once; a scan or a connect
\* may hang.
SPECIFICATION Spec
CONSTANTS
    s1 = s1
    s2 = s2
    s3 = s3
    None = None
    Sessions <- TwoSessions
    Allowed = {"hang"}
    MaxQueue = 2
INVARIANTS
    LiveIsWatched
    NeverStranded
PROPERTIES
    JobsEnd
    StopReleases
    KeepsPromise
\* Behind an attempt that hangs the queue fills to its bound, and stays full.
CHECK_DEADLOCK FALSE
