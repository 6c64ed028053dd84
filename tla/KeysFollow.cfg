SPECIFICATION FairSpec
CONSTANTS
    LostLimit = 2
    Retries = 2
    ExpireAfter = 2
    Capacity = 2
    MaxTime = 4
    MaxLoss = 3
CHECK_DEADLOCK FALSE
INVARIANTS
    TypeOK
    AgreeWhenSettled
PROPERTIES
    HeardNotExpired
    Heals
