SPECIFICATION FairSpec
CONSTANTS
    None = None
    Ids = {"a"}
    ChainOrder <- ThreeChains
    RelayChain = "0"
    Descs <- SomeDescs
    Batches <- SomeBatches
    PatchOps = {{"senders", "destinations"}, {"events"}}
    Clients = {"c1", "c2"}
    MaxPersistent = 1
    MaxErrors = 1
    MaxCrash = 1
PROPERTIES
    OnlyRacesMiscount
    OnlyRacesDiverge
    OnlyStaleWritesMislead
    OnlyRetriesLeaveStreams
    FailedStreamsReturn
CHECK_DEADLOCK FALSE
