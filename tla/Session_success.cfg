\* The follow-up read fails, and a state heard before the command is reported.
SPECIFICATION Spec
CONSTANTS
    Allowed = {"timeout", "hand"}
    MaxWire = 2
    MaxInbox = 1
INVARIANTS
    SuccessIsReal
