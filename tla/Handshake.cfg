SPECIFICATION LiveSpec
CONSTANTS
    a = a
    b = b
    c = c
    p1 = p1
    p2 = p2
    i1 = i1
    i2 = i2
    r1 = r1
    Initiators = {i1, i2}
    Responders = {r1}
    Devices = {a, b, c}
    Contexts <- MCContexts
    MaxStarts = 2
    MaxPayloads = 2
INVARIANTS TypeOK SessionsMatch ResponderIsAnswered CertificatesHold BindingsAreFresh PayloadsAreThePeers
CHECK_DEADLOCK FALSE
PROPERTY EventuallyAuthenticated
