SPECIFICATION SuiteSpec
CONSTANTS
    a1 = a1
    a2 = a2
    p1 = p1
    p2 = p2
    rB = rB
    rD = rD
    blank = blank
    draft = draft
    final = final
    Analyses = {a1, a2}
    Editors = {e1, e2}
    Ids = {i1, i2}
    Keys = {k1, k2}
    Payloads = {p1, p2}
    Requests = {rB, rD}
    LLM = {rD}
    Bodies = {blank, draft, final}
    Blank = blank
    Reviewable = {final}
    NONE = NONE
    PayloadSize <- MCPayloadSize
    RequestSize <- MCRequestSize
    BodySize <- MCBodySize
    RunStatuses = {"partial", "other"}
    OutcomeSizes = {1, 2, 3}
    ApprovalSize = 1
    MaxOutcome = 2
    RecordMargin = 2
    MaxTurns = 2
    MaxSnapshots = 2
    MaxInvestigations = 2
    MaxBytes = 24
    DailyJobs = 2
    Retention = 2
    Day = 2
    MaxClock = 4
    MaxRevision = 3
SYMMETRY Symmetry
INVARIANTS
    RowsAndLimits
    MirrorsLastTurn
    ApprovalMatchesRecord
PROPERTIES
    AnswersAreFinal
    NoLostUpdate
CHECK_DEADLOCK FALSE
