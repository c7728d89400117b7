\* A deadline passes while the session is up.
\* The property ConfirmedByRead, in the place of the invariant, fails as well: the
\* read fails, and a state heard before it is reported.
SPECIFICATION Spec
CONSTANTS
    MaxLocks = 1
INVARIANTS
    ExitReleases
CHECK_DEADLOCK FALSE
