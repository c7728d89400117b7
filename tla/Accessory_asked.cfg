\* One set at a time and nobody at the lock.
SPECIFICATION Spec
CONSTANTS
    Allowed = {}
    MaxQueue = 2
INVARIANTS
    TargetIsAsked
