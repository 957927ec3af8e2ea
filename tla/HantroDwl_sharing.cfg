SPECIFICATION FairSpec
CONSTANTS
    None = None
    d = d
    p = p
    x = x
    q = q
    Files <- MCFiles
    Supported <- MCSupported
    client_type <- MCTypes
INVARIANTS
    PermitsExact
    PermitFindsCore
    HardwareOwned
    ClosedHoldsNothing
PROPERTIES
    WaitsForOwn
    Reserved
    CallsReturn
