CONSTANTS
    Capacity = 2
    MaxPushed = 4
    MaxFaults = 1
SPECIFICATION Spec
INVARIANT
    FailureReconnects
CHECK_DEADLOCK FALSE
