SPECIFICATION ClosingSpec
CONSTANTS
    EncComponents <- MCComponents
    ProdIDs = {"", "p"}
    MaxEncCalls = 4
    Inputs = {}
    Rests = {}
    MaxReadErrors = 0
    MaxCalls = 6
INVARIANTS
    ClosedIsComplete
    AckedIsOnWire
    EOFTellsTruth
PROPERTIES
    EverythingArrives
    OneBehind
CHECK_DEADLOCK FALSE
