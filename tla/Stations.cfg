\* Two BSSs of hostapd and a VAP of simple-hostapd; one or two stations at a time.
CONSTANTS
    Bss = {"home", "guest", "vap"}
    Sta = {"s1", "s2", "s3"}
    Reach <- HomeReach
    Ranges <- HomeRanges
    Proc <- HomeProc
    Dumb = {"vap"}
    Wpa = {"home"}
    MaxSta <- HomeMaxSta
    MaxAid = 2
    Quits = {"s1"}
    MaxFrames <- HomeFrames
    MaxOrders = 1
    MaxFails = 1
    MaxTx <- HomeTx
SPECIFICATION FairSpec
PROPERTY SilentRemovedOrLate
INVARIANTS TypeOK TimersMatch TablesAgree DriverAgrees OneAssociation
CHECK_DEADLOCK FALSE
