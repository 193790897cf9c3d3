SPECIFICATION Spec
CONSTANTS
    n1 = n1
    n2 = n2
    mainnet = mainnet
    testnet = testnet
    w1 = w1
    w2 = w2
    Networks = {n1, n2}
    Types = {testnet}
    TypeOf <- TypeOfSame
    Workers = {w1, w2}
    GasEstimated <- OnlyN1
    SkipTest = FALSE
    None = None
INVARIANTS
    TypeOK
    FlagOwnerLive
    TestLockOwner
    OrdersNeedProof
    OneReplicationWorker
    ReplicationAfterTest
PROPERTIES
    TestSpec
    CleanRestart
SYMMETRY WorkerSymmetry
