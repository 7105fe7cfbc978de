SPECIFICATION LiveSpec
CONSTANTS
    PairIds <- MCPairIds
    MaxFaults = 2
    MaxTorn = 0
    MaxDenials = 0
    MaxRevokes = 0
PROPERTY EventuallyPaired
CHECK_DEADLOCK FALSE
