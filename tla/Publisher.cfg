CONSTANTS
    Capacity = 2
    MaxPushed = 5
    MaxFaults = 4
SPECIFICATION FairSpec
INVARIANTS
    TypeOK
    NothingLostOnTheWay
    InOrderOnce
PROPERTY
    Retried
CHECK_DEADLOCK FALSE
