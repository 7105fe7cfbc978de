SPECIFICATION Spec
CONSTANTS
    d1 = d1
    n1 = n1
    n2 = n2
    n3 = n3
    n4 = n4
    Devices = {d1}
    Nonces = {n1, n2, n3, n4}
    MaxAge = 3
    MaxFuture = 1
    MaxReplayEntries = 3
    Interval = 2
    MaxSkew = 2
    MaxBack = 1
    Start = 3
    MaxTime = 9
SYMMETRY Symmetry
CHECK_DEADLOCK FALSE
INVARIANTS TypeOK AcceptedOnce HasRoom
