SPECIFICATION Spec
CONSTANTS
    Documents <- MCDocuments
    UIDs <- MCUIDs
    Kinds <- MCKinds
    Made <- NewCard
    NewProps <- MCNewProps
    MaxEdits = 2
    MaxCards = 2
    MaxReadErrors = 1
INVARIANT
    MadeCardsAreCards
CHECK_DEADLOCK FALSE
