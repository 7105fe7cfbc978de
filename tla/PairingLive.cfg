SPECIFICATION LiveSpec
CONSTANTS
    PairIds <- MCPairIds
    MaxFaults = 1
    MaxTorn = 0
    MaxDenials = 1
    MaxRevokes = 0
PROPERTIES
    EventuallyPaired
    RecoveryEnds
CHECK_DEADLOCK FALSE
