SPECIFICATION Spec
CONSTANTS
    d1 = d1
    n1 = n1
    n2 = n2
    n3 = n3
    n4 = n4
    Devices = {d1}
    Nonces = {n1, n2}
    MaxAge = 3
    MaxFuture = 1
    MaxReplayEntries = 3
    Interval = 2
    MaxSkew = 1
    MaxBack = 3
    Start = 4
    MaxTime = 10
CHECK_DEADLOCK FALSE
INVARIANT NeverAcceptedTwice
