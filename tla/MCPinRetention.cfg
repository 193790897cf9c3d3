SPECIFICATION FairPinsSpec
PROPERTIES StateKept ImagesKept ExpiredRemoved
CONSTANTS
    Images <- Image
    States <- State
    Results <- NoItems
    Dirs <- NoItems
    Staged <- NoItems
    Neighbours = TRUE
    Retention = 1
    MaxFailures = 1
CHECK_DEADLOCK FALSE
