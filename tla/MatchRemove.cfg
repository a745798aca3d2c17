SPECIFICATION Spec
CONSTANTS
    NoId = NoId
    None = None
    Relay = "0"
    Subs <- NestedSubs
    Prefixed <- NestedPrefix
    Removable <- NestedSubs
    Refs = {"cafe"}
    Chains = {"0", "1000", "2000"}
    Outs <- PeerOuts
    Ins <- PeerIns
    Relays <- NoRelays
    Before <- NoOrder
    MaxDeliver = 1
    MaxCrash = 0
PROPERTIES
    OnlyNeighboursLose
CHECK_DEADLOCK FALSE
