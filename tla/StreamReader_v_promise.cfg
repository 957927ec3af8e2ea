SPECIFICATION FairSpec
CONSTANTS
    mBlockSize = 2
    mBlockCnt = 4
    mEarlierDataMinBlockCnt = 1
    Ends = 9
    Lengths = {0, 9}
    Probe = 3
    Servers <- MCBoth
    Hosts <- MCRemote
    Faults = {"connect"}
    Sizes = {2}
    Targets = {5, 8}
    nPreCacheSize = 2
    MaxAborts = 0
CHECK_DEADLOCK FALSE
INVARIANT PromiseKept
