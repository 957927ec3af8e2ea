SPECIFICATION Spec
CONSTANTS
    nPorts = 1
    nBufferCountActual = 1
    nHeaders = 1
    NULL = NULL
    Controllers = {k1}
    Senders = {k1}
    Feeders = {}
    Commands <- MCUp
    Failures = {"DoLoaded2Idle"}
    MaxResets = 0
    bWaits = TRUE
    bPatient = TRUE
    bTurns = TRUE
INVARIANTS
    ResourcesMatchState
