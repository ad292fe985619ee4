SPECIFICATION Spec
CONSTANTS
    v1 = v1
    v2 = v2
    v3 = v3
    Release = {v1, v2, v3}
    IsoType <- MCIsoType
    Version <- MCVersion
    ByAddedDate = {"devuan"}
    RatioUnit = 1
    MaxRatio = 0
    Floor = 1
    Interval = 1
    Window = 1
    MinDelta = 1
    FreshRatio = {0}
    MaxStamp = 4
    MaxOther = 0
    MaxDay = 2
    Modes = {"stagnant", "keep_only_latest"}
    MinRatio = 0
    DiskLimit = 3
    Faults = {"rpc", "file", "stop"}
INVARIANTS TypeOK HeldHasWatchFile
PROPERTIES NewestKept RemovedHistoryGrows
