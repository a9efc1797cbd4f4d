\* One edit in a session with a control-only server, and no faults.
SPECIFICATION Spec
CONSTANTS
    None = None
    path = path
    a = a
    b = b
    Paths = {path}
    Contents = {a, b}
    Starts <- MCStarts
    Window = 1
    Slow = {}
    Modes <- MCDeployed
    Blocks = 1
    MaxEdits = 1
    MaxCuts = 0
    MaxAsks <- MCNever
    MaxFaults <- MCNever
INVARIANT
    FallbackIsCorrect
CHECK_DEADLOCK FALSE
