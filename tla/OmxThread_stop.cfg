SPECIFICATION FairSpec
CONSTANTS
    Clients = {c1, c2}
    MaxCalls = 3
    MaxPasses = 2
INVARIANTS
    SemCntExact
    NoLostWakeup
PROPERTIES
    EventuallyTaken
    Destroyed
CHECK_DEADLOCK FALSE
