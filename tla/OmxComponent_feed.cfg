SPECIFICATION Spec
CONSTANTS
    nPorts = 2
    nBufferCountActual = 2
    nHeaders = 2
    NULL = NULL
    Controllers = {k1}
    Senders = {k1}
    Feeders = {f1, f2}
    Commands <- MCFeedAll
    Failures = {}
    MaxResets = 0
    bWaits = TRUE
    bPatient = TRUE
    bTurns = TRUE
INVARIANTS
    AnsweredOnce
    BuffersGivenBack
CHECK_DEADLOCK FALSE
