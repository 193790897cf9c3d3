SPECIFICATION FairSpec
CONSTANTS
    n1 = n1
    n2 = n2
    mainnet = mainnet
    testnet = testnet
    w1 = w1
    w2 = w2
    Networks = {n1, n2}
    Types = {mainnet, testnet}
    TypeOf <- TypeOfMixed
    Workers = {w1}
    GasEstimated <- OnlyN1
    SkipTest = FALSE
    None = None
PROPERTIES
    RestartCompletes
    GateOpens
    FlagReleased
