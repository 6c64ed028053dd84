SPECIFICATION Spec
CONSTANTS
    a = a
    b = b
    c = c
    d = d
    Bcast = Bcast
    Node = {a, b, c}
    Adj <- Fan
    Thread = {"app"}
    Scopes = {2}
    MaxSends <- TwoOfA
    MaxLoss = 0
    MaxLeaves = 0
    MaxBoots = 1
CHECK_DEADLOCK FALSE
INVARIANTS
    TypeOK
    InOrderOnce
PROPERTIES
    ImplementsService
