SPECIFICATION FairSpec
CONSTANTS
    s1 = s1
    s2 = s2
    None = None
    Timeout = 2
    GraceOffset = 1
    Sessions = {s1, s2}
    HookIsGuarded = TRUE
    MaxClock = 5
CHECK_DEADLOCK FALSE
INVARIANTS
    TypeOK
    OpenHolderIsCurrent
    NoZombie
    NoOverrun
PROPERTY
    CloseRevokes
