SPECIFICATION FairSpec
CONSTANTS
    None = None
    MaxHeight = 4
    MaxBlockDist = 10
    BatchSize = 2
    Recovery = TRUE
    Light = FALSE
    Failing = {}
    MaxErrors = 0
    MaxInterrupts = 0
    MaxCrash = 1
PROPERTIES
    GapsAreFilled
CHECK_DEADLOCK FALSE
