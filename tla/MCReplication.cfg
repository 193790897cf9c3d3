SPECIFICATION FairSpec
INVARIANTS AttemptsBounded GivenUpLate
PROPERTY Replicated
CONSTANTS
    Entries = {k1}
    MaxVersion = 1
    Workers <- TwoWorkers
    Reconnecting <- Processing
    PerCycle = 1
    MaxAttempts = 2
    Streak = 2
    MaxFaults = 2
