SPECIFICATION MCSpec
CONSTANTS
    d1 = d1
    None = None
    Derived <- MCDerived
    Runs <- MCRuns
    Moves = {"new", "investigating", "closed"}
    Statuses = {"closed"}
    Dispositions = {"confirmed"}
    MaxCases = 2
    MaxEdits = 1
    MaxDecisions = 2
    MaxRequests = 3
    Asked = {"create", "approval", "enrich", "link", "attach", "download"}
    Named = {0, 1, 2}
    Start <- MCStart
    MaxDeaths = 1
INVARIANTS
    TimestampsAreHonest
    CaseIsHosted
    CaseFilesHold
PROPERTY ImplementsRecord
CHECK_DEADLOCK FALSE
