SPECIFICATION SuiteSpec
CONSTANTS
    Parts = {"followups", "restarts"}
    a1 = a1
    p1 = p1
    rB = rB
    rD = rD
    blank = blank
    c1 = c1
    c2 = c2
    k1 = k1
    f1 = f1
    f2 = f2
    Nobody = Nobody
    Replayer = Replayer
    Analyses = {a1}
    Ids = {i1, i2}
    Keys = {k1, k2}
    Payloads = {p1}
    Requests = {rB, rD}
    LLM = {rD}
    Bodies = {blank}
    Blank = blank
    Reviewable = {}
    NONE = NONE
    PayloadSize <- MCPayloadSize
    RequestSize <- MCRequestSize
    BodySize <- MCBodySize
    RunStatuses = {"other"}
    OutcomeSizes = {1}
    ApprovalSize = 1
    MaxOutcome = 1
    RecordMargin = 1
    MaxTurns = 2
    MaxSnapshots = 2
    MaxInvestigations = 3
    MaxBytes = 100
    DailyJobs = 9
    Retention = 1
    Day = 1
    MaxClock = 1
    MaxRevision = 0
    Capacity = 2
    MaxStarts = 2
    MaxFaults = 0
SYMMETRY Symmetry
PROPERTIES
    WorkerInStep
    ImplementsLifecycle
CHECK_DEADLOCK FALSE
