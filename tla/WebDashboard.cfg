CONSTANTS
    t1 = t1
    t2 = t2
    Tabs <- TwoTabs
    QueueSize = 2
    MaxHistory = 2
    MaxEvents = 6
    None = None
SPECIFICATION FairSpec
INVARIANTS
    TypeOK
    NoQueueLeftBehind
    StreamHasNoGaps
    StaleOnlyByGap
PROPERTIES
    ShownGoesForward
    LeavingFreesServer
CHECK_DEADLOCK FALSE
