SPECIFICATION LiveSpec
CONSTANTS
    i1 = i1
    i2 = i2
    r = r
    Initiators = {i1, i2}
    Responder = r
    PairIds <- MCPairIds
    Lifetime = 2
    MaxTime = 3
    MaxLost = 1
INVARIANTS TypeOK InitiatorTrustLoads ExpiryLeavesReadable AuthorizedOnce
PROPERTY ExpiryErasesNothing
CHECK_DEADLOCK FALSE
