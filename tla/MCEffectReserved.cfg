CONSTANTS
    MaxScope = 0
    MaxNode = 0
    InitCapacity = 2
    MaxClaims = 0
    MaxGeneration = 1
    MaxEffects = 4
    MaxFrames = 2
    MaxNested = 3
SPECIFICATION Spec
INVARIANT
    ReservedPlaceIsKept
CHECK_DEADLOCK FALSE
