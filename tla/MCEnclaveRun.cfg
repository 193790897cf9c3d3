SPECIFICATION FairSpec
INVARIANTS OwnResult StateFollowed
PROPERTY ResultPinned
CONSTANTS
    Orders = {a, b}
    NetworkOf <- TwoNetworks
    MaxRuns = 2
    PinTries = 2
    MaxFaults = 1
    None = None
CHECK_DEADLOCK FALSE
