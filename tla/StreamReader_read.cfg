SPECIFICATION FairSpec
CONSTANTS
    mBlockSize = 2
    mBlockCnt = 4
    mEarlierDataMinBlockCnt = 1
    Ends = 9
    Lengths = {0, 9}
    Probe = 3
    Servers <- MCBoth
    Hosts <- MCBoth
    Faults = {"connect", "refuse", "network"}
    Sizes = {2}
    Targets = {5, 8}
    nPreCacheSize = 3
    MaxAborts = 1
INVARIANTS
    RingHoldsStream
    ReadExact
    EndTrue
PROPERTIES
    Served
    Closed
CHECK_DEADLOCK FALSE
