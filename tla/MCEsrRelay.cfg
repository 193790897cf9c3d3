SPECIFICATION FairSpec
CONSTANTS
    none = none
    None = none
    Keys <- TwoKeys
    MaxRn = 2
    Malformed <- OneBad
    Costs <- Dear
    Budget = 3
    Cap = 2
    MaxFaults = 2
INVARIANTS
    SentOnce
    CapRespected
    WalletProtected
PROPERTIES
    CommitsLand
CHECK_DEADLOCK FALSE
