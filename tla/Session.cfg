SPECIFICATION FairSpec
CONSTANTS
    None = None
    Http = http
    OnDemand = ondemand
    Clients = {"c1", "c2", "c3"}
    Goals <- OwnersAndGuest
    Persistent = {"p"}
    Tokens = {"c1", "c2"}
    Blobs = {"c1"}
    MaxClients = 2
    MaxEphemeral = 1
    MaxNotify = 1
    MaxHttp = 1
INVARIANTS
    CountsAreRight
    HandlersGetTheirs
PROPERTIES
    OnlyLateCallbacksAbandon
    OnlyOthersDeafen
    RequestsAreAnswered
CHECK_DEADLOCK FALSE
