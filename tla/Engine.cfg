SPECIFICATION SuiteSpec
CONSTANTS
    t1 = t1
    t2 = t2
    t3 = t3
    s1 = s1
    s2 = s2
    s3 = s3
    gateway = gateway
    orders = orders
    payment = payment
    stock = stock
    good = good
    bad = bad
    slow = slow
    r1 = r1
    r2 = r2
    r3 = r3
    NONE = NONE
    TraceIds = {t1, t2, t3}
    SpanIds = {s1, s2, s3}
    Services = {gateway, orders}
    Rank <- MCRank
    Batches <- MCBatches
    MaxTraces = 2
    TTL = 2
    MaxTime = 4
    Threads = {e1, e2}
    IsServer <- MCServer
    SpanFailed <- MCFailed
    MinBaseline = 1
    MaxBaseline = 1
    Window = 2
    MinCurrent = 1
    ErrorThreshold = 1
    MaxExports = 2
    IntakeRequests <- Exports
    Half = 4
    IntakeExports = 3
    EngineRequests = 3
    ServedRequests = {r1, r2, r3}
    Queue = 2
    Calls <- CallTree
    RootCall = gateway
    CallParent <- Fork
    CallOrder <- ForkOrder
    CallServices <- CallTree
    CallServiceOf <- Itself
    Parallel = {gateway}
    AlwaysOk = {orders}
    MaxChanges = 1
INVARIANTS
    LinkedExactly
    GraphSound
    DetectorSound
    
    FailuresHeard
PROPERTIES
    EngineEnds
CHECK_DEADLOCK FALSE
