SPECIFICATION FairSpec
CONSTANTS
    p1 = p1
    Nbr = {p1}
    NoFreq = {}
    Arrivals <- GoodAndBad
    Calls = {"broadcast", "unicast"}
    Registered = FALSE
    LostLimit = 1
    MaxIn = 2
    MaxCalls = 1
    MaxRotations = 1
    MaxProbes = 0
CHECK_DEADLOCK FALSE
PROPERTIES
    SendReturns
    
