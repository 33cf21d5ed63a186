SPECIFICATION Spec
CONSTANTS
    Inputs <- MCInputs
    Rests <- MCRests
    MaxReadErrors = 1
    MaxCalls = 4
INVARIANTS
    LockStep
    TruncationIsNotEOF
    YieldedIsAsSent
CHECK_DEADLOCK FALSE
