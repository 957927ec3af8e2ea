SPECIFICATION Spec
CONSTANTS
    nPorts = 2
    nBufferCountActual = 1
    nHeaders = 1
    NULL = NULL
    Controllers = {k1, k2}
    Senders = {k1}
    Feeders = {}
    Commands <- MCLifecycle
    Failures = {"DoAllocateBuffer"}
    MaxResets = 0
    bWaits = TRUE
    bPatient = FALSE
    bTurns = TRUE
INVARIANTS
    LoadedHoldsNothing
CHECK_DEADLOCK FALSE
