SPECIFICATION Spec
CONSTANTS
    None = None
    MaxHeight = 4
    MaxBlockDist = 10
    BatchSize = 1
    Recovery = TRUE
    Light = FALSE
    Failing = {"header", "range", "block"}
    MaxErrors = 1
    MaxInterrupts = 1
    MaxCrash = 0
PROPERTIES
    OnlyInterruptionsForget
CHECK_DEADLOCK FALSE
