SPECIFICATION Spec
CONSTANTS
    Numerals <- MCNumerals
    MaxDuration = 100000000
    Items <- SouthernItems
    Zones <- MCZones
    Instants <- MCInstants
    Days <- MCDays
    MaxSets = 2
INVARIANT
    OffsetInEffectEverywhere
CHECK_DEADLOCK FALSE
