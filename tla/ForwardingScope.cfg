SPECIFICATION FairSpec
CONSTANTS
    a = a
    b = b
    c = c
    d = d
    Bcast = Bcast
    Node = {a, b, c, d}
    Adj <- Line
    Thread = {"app"}
    Scopes = {1}
    MaxSends <- OneOfA
    MaxLoss = 1
    MaxLeaves = 1
    MaxBoots = 0
CHECK_DEADLOCK FALSE
INVARIANTS
    OnlyToReceiver
    WithinScope
PROPERTIES
    EventuallyDelivered
