SPECIFICATION FairSpec
CONSTANTS
    Sizes = {1, 2, 4}
    Seeks <- MCSeeks
    BufferLen = 3
    Mega = 2
    QueueSize = 2
    Space = 6
    MaxCalls = 4
    bWithinLimits = TRUE
INVARIANTS
    TypeOK
    ReadsLiveData
    PositionTrue
    ClosedComplete
PROPERTIES
    ImplementsFile
    CallsReturn
