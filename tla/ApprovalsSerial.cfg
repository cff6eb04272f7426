SPECIFICATION FairSpec
CONSTANTS
    r1 = r1
    r2 = r2
    r3 = r3
    r4 = r4
    a1 = a1
    a2 = a2
    None = None
    Requests <- ThreeRequests
    Ids <- TwoIds
    MaxInFlight = 1
    MaxCrashes = 1
    LedgerMayRefuse = TRUE
PROPERTIES
    ImplementsLifecycle
    ApprovedSettles
CHECK_DEADLOCK FALSE
