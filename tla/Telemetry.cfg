SPECIFICATION SuiteSpec
CONSTANTS
    NONE = NONE
    c1 = c1
    c2 = c2
    c3 = c3
    k2 = k2
    f2 = f2
    d0 = d0
    d1 = d1
    Nobody = Nobody
    Replayer = Replayer
    LiveSpans <- AllSpans
    LivePresent <- EarlySpans
    LiveServices <- SearchedServices
    LiveFamilies = 2
    LiveEnd = 4
    LiveChunk = 3
    LiveLimit = 2
    LiveQueries = 6
    LiveBytes = 18
    LiveMaxSpans = 7
    StreamLines <- AllLines
    LineStreams <- Streams
    NoSpan = 0
    StreamSpans = 3
    LogServices <- ContextServices
    LogStores <- ContextStores
    LogStart = 1
    LogEnd = 3
    MaxRecords = 3
    Timeout = 1
    Stamps = {1, 2, 3}
    MaxBins = 2
    MaxLosses = 3
    Threads = {t1, t2}
    MaxAnalyses = 3
    MaxEntries = 2
    MaxBytes = 4
    MaxEntryBytes = 3
    Ttl = 2
    Sizes = {1, 2, 4}
    MaxTime = 3
    Callers = {c1, c2, c3}
    Keys = {k1, k2}
    Flights = {f1, f2}
    ReuseTtl = 1
    Wait = 1
    Entries = 1
    MaxTombstones = 3
    MaxClock = 1
    Docs <- ServingDocs
    Shipped <- MCShipped
    Dirs = {d0, d1}
    ID = "shop"
    Operators = {c1, c2}
    MaxPreparations = 2
    MaxKills = 1
INVARIANTS
    
    
    CatalogueHonest
    ReuseHonest
    
PROPERTIES
    TelemetryEnds
CHECK_DEADLOCK FALSE
