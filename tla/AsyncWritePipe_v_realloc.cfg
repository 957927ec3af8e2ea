SPECIFICATION FairSpec
CONSTANTS
    Sizes = {1, 2, 4}
    Seeks <- MCNone
    BufferLen = 3
    Mega = 2
    QueueSize = 2
    Space = 6
    MaxCalls = 4
    bWithinLimits = FALSE
CHECK_DEADLOCK FALSE
PROPERTY ImplementsFile
