SPECIFICATION Spec
CONSTANTS
    r1 = r1
    r2 = r2
    r3 = r3
    r4 = r4
    a1 = a1
    a2 = a2
    None = None
    Requests <- FourRequests
    Ids <- TwoIds
    MaxInFlight = 2
    MaxCrashes = 1
    LedgerMayRefuse = TRUE
SYMMETRY FourSymmetric
INVARIANTS
    FiredOnlyAfterApproval
    ContainmentIsReal
    LedgerIsTrue
    DecidedIsAudited
CHECK_DEADLOCK FALSE
