SPECIFICATION Spec
CONSTANTS
    Order <- MCOrder
    NFC <- MCNFC
    Upper <- MCUpper
    ToUTC <- MCToUTC
    Trimmed <- MCTrimmed
    Tokens <- MCTokens
    Decimals <- MCDecimals
    MaxInt <- MCMaxInt
    UnsupportedRules = {"FREQ=SECONDLY"}
    MalformedRules = {"x"}
    MalformedTexts = {"x"}
    Extensions <- MCExtensions
    Now = "noonZ"
    JournalUIDs <- MCJournalUIDs
    Calendars <- MCCalendars
    Times <- MCTimes
    Uids = {"", "a"}
    Labels = {"x", "STATUS-SUPERSESSION"}
    Words = {"COMPLETED", "PUBLIC", "OPAQUE"}
    Numbers = {2, 200}
    RawProps <- MCRawProps
    MaxComponents = 3
    MaxSteps = 2
    MaxCalls = 3
    MaxEdits = 4
    CardUids = {"", "a", "e+acute", "eacute"}
    CardKinds = {"", "group", "GROUP"}
    CardProps <- MCCardProps
    Lower <- MCLower
INVARIANTS
    HashIsContent
    CanonicalIsFixpoint
    HashTellsTampering
    DiffAccounts
    EmptyDiffIsEqual
    HelpersKeepClean
    CleanEntriesCount
CHECK_DEADLOCK FALSE
