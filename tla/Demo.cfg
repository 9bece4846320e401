SPECIFICATION SuiteSpec
CONSTANTS
    NONE = NONE
    TORN = TORN
    gateway = gateway
    orders = orders
    payment = payment
    c1 = c1
    c2 = c2
    t1 = t1
    t2 = t2
    Services = {gateway, orders, payment}
    Traces <- MCTraces
    ServerId = "s"
INVARIANTS
    AffectedExact
    UnionExact
    DiagnosisSound
    
    ReplayHonest
    
PROPERTIES
    DemoEnds
CHECK_DEADLOCK FALSE
