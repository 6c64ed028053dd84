SPECIFICATION Spec
CONSTANTS
    p1 = p1
    Nbr = {p1}
    NoFreq = {}
    Arrivals <- AllKinds
    Calls = {"broadcast", "unicast", "ruk"}
    Registered = TRUE
    LostLimit = 1
    MaxIn = 1
    MaxCalls = 1
    MaxRotations = 1
    MaxProbes = 1
CHECK_DEADLOCK FALSE
INVARIANTS
    TypeOK
    
    
