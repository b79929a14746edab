CONSTANTS
    MaxScope = 1
    MaxNode = 0
    InitCapacity = 2
    MaxClaims = 1
    MaxGeneration = 2
    MaxEffects = 3
    MaxFrames = 2
    MaxNested = 2
SPECIFICATION FairSpec
PROPERTIES
    ImplementsEffectQueue
    EveryEffectReturns
CHECK_DEADLOCK FALSE
