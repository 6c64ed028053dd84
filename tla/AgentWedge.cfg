SPECIFICATION FairSpec
CONSTANTS
    p1 = p1
    Nbr = {p1}
    NoFreq = {}
    Arrivals <- NoArrival
    Calls = {"ruk", "broadcast"}
    Registered = FALSE
    LostLimit = 1
    MaxIn = 0
    MaxCalls = 2
    MaxRotations = 1
    MaxProbes = 0
CHECK_DEADLOCK FALSE
PROPERTIES
    SendReturns
