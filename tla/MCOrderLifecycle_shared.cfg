SPECIFICATION Spec
CONSTANTS
    d1 = d1
    d2 = d2
    nobody = nobody
    None = nobody
    DPs <- Two
    Own <- One
    DOs <- TwoDOs
    Fits <- TwoDOs
    Delegated <- NoDOs
    V3 <- OnlyD2
    GasEstimated = FALSE
    MaxRetries = 2
    ExecLimit = 2
    MaxFaults = 2
INVARIANT RunsBounded
