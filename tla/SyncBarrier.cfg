\* Two tasks, one session, one bind, one poll at a time, one cancel.
SPECIFICATION BarrierSpec
CONSTANTS
    None = None
    Evicted = Evicted
    ws1 = ws1
    ws2 = ws2
    staging = staging
    project = project
    TaskIds = {1, 2}
    Workspaces <- MCWorkspaces
    Names <- MCNames
    Binds <- MCBinds
    Sessions = {1}
    Pollers = {1}
    PeerFiles <- MCPeerFiles
    MaxBinds = 1
    MaxCancels = 1
INVARIANTS
    BarrierTypeOK
    OneTaskPerProject
    
PROPERTIES
    VerdictIsFinal
    TaskResolves
CHECK_DEADLOCK FALSE
