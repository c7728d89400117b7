\* The first status of setup and a queued job are in flight together.
SPECIFICATION Spec
CONSTANTS
    Allowed = {}
    MaxWire = 2
    MaxInbox = 1
INVARIANTS
    OneAtATime
