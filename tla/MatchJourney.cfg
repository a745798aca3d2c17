SPECIFICATION FairSpec
CONSTANTS
    NoId = NoId
    None = None
    Relay = "0"
    Subs <- OneSub
    Prefixed <- AlonePrefix
    Removable <- NoSubs
    Refs = {"cafe", "topic"}
    Chains = {"0", "1000", "2000"}
    Outs <- SingleOuts
    Ins <- SingleIns
    Relays <- SingleRelays
    Before <- NoOrder
    MaxDeliver = 1
    MaxCrash = 0
INVARIANTS
    TypeOK
    EveryEntryIsDue
    NoMissedRelay
PROPERTIES
    EverySentIsSettled
    OnlyRacingSweepsContradict
CHECK_DEADLOCK FALSE
