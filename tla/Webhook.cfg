SPECIFICATION FairSpec
CONSTANTS
    None = None
    Messages = {"sent"}
    Webhooks = {"w1", "w2"}
    OtherChannels = {"log"}
    Accepted <- BothAccept
    Channels <- SomeChannels
    MaxHooks = 2
    MaxFailures = 3
    MaxFaults = 1
INVARIANTS
    RepeatsHaveAReason
PROPERTIES
    ReliableDelivery
    EventuallyDelivered
    OnlySecondFailuresMultiply
CHECK_DEADLOCK FALSE
