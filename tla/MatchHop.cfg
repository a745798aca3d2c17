SPECIFICATION Spec
CONSTANTS
    NoId = NoId
    None = None
    Relay = "0"
    Subs <- OneSub
    Prefixed <- AlonePrefix
    Removable <- NoSubs
    Refs = {"cafe", "dead", "topic"}
    Chains = {"0", "1000", "2000"}
    Outs <- HopOuts
    Ins <- HopIns
    Relays <- NoRelays
    Before <- OriginFirst
    MaxDeliver = 1
    MaxCrash = 0
INVARIANTS
    HopsAreRecognised
CHECK_DEADLOCK FALSE
