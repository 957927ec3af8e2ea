SPECIFICATION FairSpec
CONSTANTS
    Producers = {p1, p2}
    Consumers = {c1, c2}
    Msgs = {m1, m2}
    nMaxQSize = 3
    bBlocking = FALSE
    Indexes <- MCIndexes
    Peeks <- MCPeeks
INVARIANTS
    SemaphoresExact
    ListsWellFormed
    NoFault
PROPERTIES
    ImplementsFifo
    Delivered
CHECK_DEADLOCK FALSE
