CONSTANTS
    MaxTokens = 3
    Capacity = 2
    MaxPending = 2
    MaxCommands = 1
    MaxFrames = 2
    MaxMounts = 2
    MaxCalls = 2
SPECIFICATION FairSpec
INVARIANTS
    Inductive
    NoContractFailure
    ExecutorAtRest
    OneContinuation
PROPERTIES
    PendingEffectsStart
    UnmountCompletes
CHECK_DEADLOCK FALSE
