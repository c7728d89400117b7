\* Two locks on either platform, with every combination of known address and
\* peripheral id.
SPECIFICATION Spec
CONSTANTS
    Locks = {door, gate}
    Others = {phone}
    Platforms = {"linux", "macos"}
INVARIANTS
    NeverMistaken
    ScanIsOver
PROPERTIES
    ReachEnds
