SPECIFICATION KaridSpec
CONSTANTS
    f = f
    foreign = foreign
    self = self
    d1 = d1
    d2 = d2
    c1 = c1
    c2 = c2
    pathA = pathA
    pathB = pathB
    Unset = Unset
    NoFolder = NoFolder
    None = None
    FolderIds = {f, foreign}
    Adoptable = {f}
    DeviceIds = {self, d1, d2}
    Self = self
    Types = {pathA, pathB}
    DefaultType = pathA
    OptionSets = {"off", "on"}
    PinnedOptions = "off"
    Clients = {c1, c2}
    Request <- MCRequest
    InitialActual <- MCActual
    SettableDesired <- MCDesired
    RogueFolders = {}
    MaxAttempts = 2
    MaxFaults = 2
    MaxEdits = 0
    MaxPairs = 2
    MaxCrashes = 1
INVARIANTS
    KaridTypeOK
    NoPairLost
PROPERTIES
    ImplementsSharing
    PairServed
