SPECIFICATION Spec
CONSTANTS
    PairIds <- MCPairIds
    MaxFaults = 3
    MaxTorn = 1
    MaxDenials = 1
    MaxRevokes = 2
INVARIANTS
    TypeOK
    ActiveIsBilateral
    InitiatorActivatesLast
    ResponderIsRecoverable
    ActiveRecordsAgree
    RevokedStaysRevoked
    PromptOnlyWithoutState
PROPERTIES
    PendingOutlivedByActive
    ImplementsBilateralTrust
CHECK_DEADLOCK FALSE
