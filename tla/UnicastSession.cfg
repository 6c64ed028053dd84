SPECIFICATION FairSpec
CONSTANTS
    x = x
    y = y
    Node = {x, y}
    Caller = {"app", "rx"}
    MaxRetries = 2
    MaxCalls <- TwoOfX
    MaxLoss = 1
    MaxLeaves = 1
    MaxBoots = 1
CHECK_DEADLOCK FALSE
INVARIANTS
    TypeOK
    
    KeyIsThere

    
