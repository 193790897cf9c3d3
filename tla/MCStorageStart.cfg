SPECIFICATION FairSpec
 
PROPERTY Started
CONSTANTS
    Networks = {a, b}
    Workers = {}
    Required = 2
    MaxVersion = 3
    MaxFaults = 1
    MaxCrashes = 1
    MaxRepos = 5
CHECK_DEADLOCK FALSE
