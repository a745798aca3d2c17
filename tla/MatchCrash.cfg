SPECIFICATION Spec
CONSTANTS
    NoId = NoId
    None = None
    Relay = "0"
    Subs <- OneSub
    Prefixed <- AlonePrefix
    Removable <- NoSubs
    Refs = {"cafe", "topic"}
    Chains = {"0", "1000"}
    Outs <- UpOuts
    Ins <- UpIns
    Relays <- NoRelays
    Before <- NoOrder
    MaxDeliver = 2
    MaxCrash = 1
INVARIANTS
    NoMissedMatch
    ReceivedAtMostDelivered
CHECK_DEADLOCK FALSE
