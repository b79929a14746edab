CONSTANTS
    MaxTokens = 2
    Capacity = 2
    MaxPending = 2
    MaxCommands = 0
    MaxFrames = 1
    MaxMounts = 1
    MaxCalls = 1
SPECIFICATION Spec
PROPERTY
    TrapStopsWasm
CHECK_DEADLOCK FALSE
