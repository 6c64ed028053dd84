\* Two clients, one neighbour, stations far away and near.
CONSTANTS
    Client = {"c1", "c2"}
    Neighbor = {"n1"}
    Rssi <- Signals
    Rates = {6, 54}
    oldPower = 50
    tpc_enabled = TRUE
    MaxRequests = 2
    MaxFaults = 1
SPECIFICATION Spec
INVARIANTS TypeOK RepliesInRange EntriesMatch 
CHECK_DEADLOCK FALSE
