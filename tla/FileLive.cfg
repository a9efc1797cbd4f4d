\* One edit, one failed commit and one cancel or resume, in every pair of modes.
SPECIFICATION LiveSpec
CONSTANTS
    None = None
    path = path
    a = a
    b = b
    Paths = {path}
    Contents = {a, b}
    Starts <- MCStarts
    Window = 1
    Slow = {}
    Modes <- MCModes
    Blocks = 1
    MaxEdits = 1
    MaxCuts = 0
    MaxAsks <- MCOnce
    MaxFaults <- MCOnce
INVARIANTS
    TypeOK
PROPERTIES
    Quiesces
CHECK_DEADLOCK FALSE
