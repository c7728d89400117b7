\* macOS, where a paired lock is looked for under two identifiers.
SPECIFICATION Spec
CONSTANTS
    Locks = {door, gate}
    Others = {}
    Platforms = {"macos"}
INVARIANTS
    FoundIsEnough
