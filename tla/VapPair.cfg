SPECIFICATION FairSpec
CONSTANTS
    n1 = n1
    n2 = n2
    Node = {n1, n2}
    Linked <- Pair
    Keyed <- Pair
    MaxLinks = 0
    MaxLoss = 1
    MaxLeaves = 1
    MaxBoots = 1
    MaxSuspends = 1
CHECK_DEADLOCK FALSE
INVARIANTS
    TypeOK
    EndsMatch
    

    
