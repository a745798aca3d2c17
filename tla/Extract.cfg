SPECIFICATION FairSpec
CONSTANTS
    Routes <- AllRoutes
    NoId = NoId
    None = None
    Unread = Unread
    MaxBatch = 2
    MaxFaults = 1
INVARIANTS
    OnlyLookalikesMislead
    StopsFollowPath
    ReportsMeet
    OnlyFirstOutcomesAreMissed
    OnlyFirstRecipientsAreRelayed
PROPERTIES
    OnlyUnreadablesEndStreams
    TaggedAreReported
CHECK_DEADLOCK FALSE
