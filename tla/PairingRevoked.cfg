SPECIFICATION Spec
CONSTANTS
    PairIds <- MCPairIds
    MaxFaults = 1
    MaxTorn = 0
    MaxDenials = 0
    MaxRevokes = 1
INVARIANT RevokedConsentIsSpent
CHECK_DEADLOCK FALSE
