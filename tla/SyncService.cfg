\* Two loops overlap; one rebind, one broken dial or session, one cancel.
SPECIFICATION Spec
CONSTANTS
    None = None
    staging = staging
    project = project
    r1 = r1
    r2 = r2
    Binds <- MCBinds
    Roots <- MCRoots
    Names <- MCNames
    Loops = {1, 2}
    MaxBinds = 2
    MaxEnds = 1
    MaxCancels = 1
    MaxCreates = 1
INVARIANTS
    TypeOK
    OneLoop
    
    SessionReachable
    
PROPERTIES
    Served
CHECK_DEADLOCK FALSE
