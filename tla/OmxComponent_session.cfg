SPECIFICATION FairSpec
CONSTANTS
    nPorts = 2
    nBufferCountActual = 2
    nHeaders = 2
    NULL = NULL
    Controllers = {k1}
    Senders = {k1}
    Feeders = {}
    Commands <- MCSession
    Failures = {"InstanceInit", "DoExec2Pause"}
    MaxResets = 1
    bWaits = TRUE
    bPatient = TRUE
    bTurns = TRUE
INVARIANTS
    TypeOK
    PendingMatches
    PortsPopulated
    ResourcesMatchState
    HeadersRegistered
PROPERTIES
    LegalTransitions
    CommandsConclude
CHECK_DEADLOCK FALSE
