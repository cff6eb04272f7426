SPECIFICATION FairSpec
CONSTANTS
    x1 = x1
    x2 = x2
    r1 = r1
    r2 = r2
    l1 = l1
    f1 = f1
    None = None
    tp = tp
    Verdicts <- OneVerdict
    Analyses <- TwoRuns
    Past = {}
    Requests <- TwoRequests
    Logs <- OneLog
    FindingIds <- OneFinding
    Moved <- Moving
    MaxThreads = 3
    MaxRestarts = 1
INVARIANTS
    HistoryIsOwn
    MarksAreMeant
    ReviewOnDisk
PROPERTY JobIsTrue
CHECK_DEADLOCK FALSE
