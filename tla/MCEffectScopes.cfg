CONSTANTS
    MaxScope = 2
    MaxNode = 0
    InitCapacity = 2
    MaxClaims = 1
    MaxGeneration = 4
    MaxEffects = 1
    MaxFrames = 2
    MaxNested = 1
SPECIFICATION Spec
INVARIANTS
    TreeInductive
    OwnerNeverAliases
    ResultFindsNearestSurvivor
    ScopesFormTree
CHECK_DEADLOCK FALSE
