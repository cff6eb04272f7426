SPECIFICATION MCSpec
CONSTANTS
    MaxLines = 4
    Files <- MCFiles
    Modes = {"console", "honest", "force"}
    Probe = 3
    EvtxInstalled = TRUE
    a = a
    b = b
    NoRule = NoRule
    NoIdent = NoIdent
    None = None
    Inputs <- MCInputs
    Explanations <- MCExplanations
    Inside <- MCInside
    Cached <- MCCached
    GAP_FILL_MAX_CHUNKS = 1
    EAGER_EXPLANATIONS = 2
    SECOND_PASS_MAX = 2
    LLM_RETRIES = 1
    LLM_WORKERS = 2
INVARIANTS
    LossIsKnown
    EventsMatchReport
    LinesAreTrue
    ProseIsOwn
    FailuresAreReported
CHECK_DEADLOCK FALSE
