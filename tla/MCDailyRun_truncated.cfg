SPECIFICATION Spec
CONSTANTS
    u1 = u1
    u2 = u2
    u3 = u3
    k1 = k1
    k2 = k2
    k3 = k3
    d1 = d1
    d2 = d2
    d3 = d3
    Release = {u1, u2}
    IsoType <- MCIsoType
    Version <- MCVersion
    ByAddedDate = {"devuan"}
    RatioUnit = 1
    MaxRatio = 1
    Floor = 1
    Interval = 1
    Window = 1
    MinDelta = 1
    FreshRatio = {0}
    MaxStamp = 4
    MaxOther = 0
    MaxDay = 3
    Modes = {"stagnant"}
    MinRatio = 1
    DiskLimit = 0
    ListsAll = {"ubuntu"}
    Discovered = {"kali"}
    SkipRatioCheck = FALSE
    CheckOldReleases = FALSE
    SkipRemoved = TRUE
    RecheckDays = 2
    Faults = {"stop"}
PROPERTIES GateHonoured
