SPECIFICATION Spec
CONSTANTS
    Components <- MCComponents
    Literals <- MCLiterals
    InstantsOf <- MCInstantsOf
    Limits = {0, 1, 3}
    MaxIterations = 5
    MaxDuration = 100000000
    MaxPeriods = 20
INVARIANTS
    ExpandsAsDeclared
    CompleteIsTrue
    NextIsNext
    CapIsExact
    SetIsMerged
    SyntaxIsStable
CHECK_DEADLOCK FALSE
