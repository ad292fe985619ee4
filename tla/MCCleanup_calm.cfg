SPECIFICATION Spec
CONSTANTS
    v1 = v1
    v2 = v2
    v3 = v3
    Release = {v1, v2}
    IsoType <- MCIsoType
    Version <- MCVersion
    ByAddedDate = {"devuan"}
    RatioUnit = 1
    MaxRatio = 0
    Floor = 1
    Interval = 2
    Window = 1
    MinDelta = 1
    FreshRatio <- NoRatioYet
    MaxStamp = 0
    MaxOther = 1
    MaxDay = 4
    Modes = {"stagnant", "keep_only_latest"}
    MinRatio = 0
    DiskLimit = 3
    Faults = {}
INVARIANTS SamplesSpaced RemovalsRemembered NoOrphanWatchFile
PROPERTIES TooNewToJudge
