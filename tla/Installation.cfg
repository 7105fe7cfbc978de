SPECIFICATION Spec
CONSTANTS
    Processes = {p1, p2}
    Keys = {k1, k2}
    Peers = {d1}
    Capabilities = {a, b}
    MaxCalls = 3
SYMMETRY Symmetry
INVARIANTS TypeOK IdentityIsPermanent RetiredStaysSilent GrantsAreKept GrantsAreWarranted
CHECK_DEADLOCK FALSE
