SPECIFICATION FairSpec
CONSTANTS
    d1 = d1
    d2 = d2
    nobody = nobody
    None = nobody
    DPs <- Two
    Own <- Two
    DOs <- TwoDOs
    Fits <- TwoDOs
    Delegated <- NoDOs
    V3 <- TwoDOs
    GasEstimated = FALSE
    MaxRetries = 2
    ExecLimit = 1
    MaxFaults = 1
PROPERTY OrdersFinish
