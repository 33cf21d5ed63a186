SPECIFICATION Spec
CONSTANTS
    Documents <- MCDocuments
    UIDs <- MCUIDs
    Kinds <- MCKinds
    Made <- Literal
    NewProps <- MCNewProps
    MaxEdits = 2
    MaxCards = 2
    MaxReadErrors = 1
INVARIANTS
    ClosedIsComplete
    StreamAgrees
    
    LinesRoundTrip
CHECK_DEADLOCK FALSE
