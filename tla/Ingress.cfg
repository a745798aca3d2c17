SPECIFICATION FairSpec
CONSTANTS
    None = None
    Down = Down
    Latest = Latest
    Chains = {"a", "b"}
    Requests = {"r1", "r2", "r3"}
    Chain <- ChainOf
    Key <- KeyOf
    At <- AtOf
    Loads <- SomeLoads
    MaxBlocks = 3
INVARIANTS
    BlocksAreContiguous
    AnswersAreForTheBlock
PROPERTIES
    OnlyLateNetworksAreBlockless
    BlocksArrive
    RequestsEnd
CHECK_DEADLOCK FALSE
