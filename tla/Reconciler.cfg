SPECIFICATION FairSpec
CONSTANTS
    f = f
    g = g
    self = self
    client = client
    sendreceive = sendreceive
    sendonly = sendonly
    Unset = Unset
    NoFolder = NoFolder
    None = None
    FolderIds = {f, g}
    DeviceIds = {self, client}
    Types = {sendreceive, sendonly}
    DefaultType = sendreceive
    OptionSets = {"off", "on"}
    RogueFolders <- MCRogue
    SettableDesired <- MCDesired
    InitialActual <- SomeActual
    MaxAttempts = 2
    MaxFaults = 2
    MaxEdits = 2
INVARIANTS
    TypeOK
    LatchHonest
    TickLeavesSafe
PROPERTIES
    WideningIsEarned
    EventuallySafe
    EventuallyConverged
    SignalIsHeeded
