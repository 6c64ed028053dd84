SPECIFICATION Spec
CONSTANTS
    n1 = n1
    n2 = n2
    Node = {n1, n2}
    Linked <- OneWay
    Keyed <- Alone
    MaxLinks = 1
    MaxLoss = 1
    MaxLeaves = 1
    MaxBoots = 0
    MaxSuspends = 0
CHECK_DEADLOCK FALSE
INVARIANTS
    
    WiringPaired
