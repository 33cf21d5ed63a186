SPECIFICATION Spec
CONSTANTS
    u1 = u1
    u2 = u2
    BaseUIDs <- MCBaseUIDs
    NoUID = NoUID
    Statuses = {"COMPLETED", "CANCELLED"}
    NoStatus = NoStatus
    NoHash = NoHash
    MaxStamp = 2
    MaxRev = 1
    MaxLen = 3
    MaxEdits = 1
    Foreign <- MCForeign
INVARIANTS
    OrderIrrelevant
    HashesVerify
PROPERTIES
    AppendedTakesEffect
    AnswersAsOfCall
CHECK_DEADLOCK FALSE
