SPECIFICATION FairSpec
INVARIANT Spread
PROPERTY Attempted
CONSTANTS
    n1 = n1
    n2 = n2
    Nodes = {n1, n2}
    Requests <- Two
    DpIds <- Dps
    Counts <- OneOrTwoSlots
    Cycle = 2
    Period = 1
    MaxRestarts = 1
    None = None
CHECK_DEADLOCK FALSE
