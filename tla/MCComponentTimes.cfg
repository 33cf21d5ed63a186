SPECIFICATION Spec
CONSTANTS
    Numerals <- MCNumerals
    MaxDuration = 1000000
    Items <- MCItems
    Zones <- MCZones
    Instants <- MCInstants
    Days <- MCDays
    MaxSets = 2
INVARIANTS
    ReadsBackAsWritten
    OffsetInEffect
    DurationTextsAgree
    DurationsAddUp
    AlarmFollowsDue
CHECK_DEADLOCK FALSE
