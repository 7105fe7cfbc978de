SPECIFICATION LiveSpec
CONSTANTS
    i1 = i1
    i2 = i2
    r = r
    Initiators = {i1}
    Responder = r
    PairIds <- MCPairIds
    Lifetime = 2
    MaxTime = 2
    MaxLost = 1
PROPERTY AuthorizationIsRebound
CHECK_DEADLOCK FALSE
