SPECIFICATION LiveSpec
CONSTANTS
    PairIds <- MCPairIds
    MaxFaults = 1
    MaxTorn = 1
    MaxDenials = 0
    MaxRevokes = 0
PROPERTY EventuallyPaired
CHECK_DEADLOCK FALSE
