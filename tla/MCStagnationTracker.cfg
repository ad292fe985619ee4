SPECIFICATION Spec
CONSTANTS
    Interval = 3
    Window = 5
    MinDelta = 2
    MaxRatio = 3
    MaxMisses = 2
INVARIANTS TypeOK AnchorKept
PROPERTIES FlatIsRemoved StagnantGoes
CHECK_DEADLOCK FALSE
