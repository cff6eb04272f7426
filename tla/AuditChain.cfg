SPECIFICATION FairSpec
CONSTANTS
    w1 = w1
    w2 = w2
    w3 = w3
    Appends <- TwoAppends
    Forged = Forged
    MaxFaults = 2
INVARIANTS
    IntactButTail
    LostOnlyAtTail
    IndexTrue
PROPERTIES
    AppendingIsNotRepairing
    AppendReturns
CHECK_DEADLOCK FALSE
