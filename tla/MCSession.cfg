SPECIFICATION FairSpec
CONSTANTS
    none = none
    None = none
    Seqs <- OneSeq
    Outs = 3
    NoBlob <- Second
    BadProof <- First
    Costs <- Dear
    Budget = 2
    MaxRows = 2
    MaxFaults = 2
INVARIANTS
    OutputsInOrder
    PassedIsOnChain
PROPERTIES
    InputsDelivered
    OutputsLand
CHECK_DEADLOCK FALSE
