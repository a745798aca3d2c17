SPECIFICATION Spec
CONSTANTS
    None = None
    MaxHeight = 6
    MaxBlockDist = 4
    BatchSize = 2
    Recovery = TRUE
    Light = TRUE
    Failing = {"block"}
    MaxErrors = 1
    MaxInterrupts = 0
    MaxCrash = 1
INVARIANTS
    GapsAreKept
    BlocksOnce
PROPERTIES
    TipIsHighest
CHECK_DEADLOCK FALSE
