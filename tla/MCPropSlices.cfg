SPECIFICATION Spec
CONSTANTS
    a1 = a1
    a2 = a2
    a3 = a3
    v1 = v1
    v2 = v2
    Vars <- MCVars
    Arrays <- MCArrays
    Initial <- MCInitial
    Uids = {"p", "q"}
    Labels = {"x", "y", "z"}
    MaxLen = 4
    MaxOps = 5
SYMMETRY Symmetry
INVARIANTS
    RefreshedIsIsolated
PROPERTIES
    OnlyAppendReachesOthers
CHECK_DEADLOCK FALSE
