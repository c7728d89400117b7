\* A bolt command times out, and its late acknowledgement is taken for the next one's.
SPECIFICATION Spec
CONSTANTS
    Allowed = {"timeout", "hand"}
    MaxWire = 2
    MaxInbox = 1
INVARIANTS
    ConfirmedIsReal
