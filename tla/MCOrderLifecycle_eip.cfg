SPECIFICATION Spec
CONSTANTS
    d1 = d1
    d2 = d2
    nobody = nobody
    None = nobody
    DPs <- Two
    Own <- Two
    DOs <- TwoDOs
    Fits <- TwoDOs
    Delegated <- OnlyD2
    V3 <- OnlyD2
    GasEstimated = TRUE
    MaxRetries = 2
    ExecLimit = 1
    MaxFaults = 2
INVARIANTS
    UnfinishedIsVisible
    ApprovedBeforeRun
    GivenUpIsDue
    TakeableNotForgotten
    SubmitBounded
PROPERTY OwnerSpec
