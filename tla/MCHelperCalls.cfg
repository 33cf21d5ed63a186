SPECIFICATION Spec
CONSTANTS
    Goroutines = {1, 2, 3}
    Serialised = TRUE
    Priorities = {1, 10}
    MaxCalls = 2
INVARIANTS
    Counted
    HashIsFresh
CHECK_DEADLOCK FALSE
