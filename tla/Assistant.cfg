SPECIFICATION SuiteSpec
CONSTANTS
    NONE = NONE
    i1 = i1
    i2 = i2
    w1 = w1
    t1 = t1
    a1 = a1
    a2 = a2
    k1 = k1
    k2 = k2
    JobSizes = {2, 4}
    MaxJob = 3
    OutputSizes = {1, 3}
    MaxPipe = 2
    PipeSize = 1
    Deadline = 1
    MaxClock = 2
    ModelCalls = 3
    ToolCalls = 3
    ToolSteps = 2
    InputTokens = 4
    OutputTokens = 3
    WallSeconds = 1
    FinalReserve = 1
    Estimates = {0, 2}
    Inputs = {0, 3}
    Outputs = {0, 2}
    CallIds = {c1, c2, c3}
    Requests = {read1, runbook, forbidden}
    Rejected = {forbidden}
    Runbooks = {runbook}
    MaxBatch = 2
    StreamCalls = {c1, c2}
    MaxItems = 3
    MaxText = 1
    Pieces = 2
    Workers = {w1, w2}
    Threads = {t1, t2}
    Accounts = {a1}
    Clients = {k1}
    MaxAttempts = 2
    MaxToken = 2
    Ids = {i1, i2}
    Analyses = {a1, a2}
    AnalysisOf <- PageAnalysisOf
    Slots = {1, 2}
    Uses <- PageUses
INVARIANTS
    JobLeavesNothing
    ConversationSound
    ReplyIsWhole
    TokensSpentOnce
    
PROPERTIES
    AccountKept
    AssistantEnds
CHECK_DEADLOCK FALSE
