\* One edit and one broken stream, between full sessions and with a control-only server.
SPECIFICATION Spec
CONSTANTS
    None = None
    path = path
    a = a
    b = b
    Paths = {path}
    Contents = {a, b}
    Starts <- MCStarts
    Window = 1
    Slow = {}
    Modes <- MCSyncing
    Blocks = 2
    MaxEdits = 1
    MaxCuts = 1
    MaxAsks <- MCNever
    MaxFaults <- MCOnce

    
    
PROPERTIES
    NoPhantomDelete
CHECK_DEADLOCK FALSE
