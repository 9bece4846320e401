SPECIFICATION RequestsSpec
CONSTANTS
    Callers = {c1, c2}
    Keys = {k1, k2}
    Flights = {f1, f2}
    Nobody = Nobody
    Replayer = Replayer
    Ttl = 1
    Wait = 1
    Entries = 1
    MaxTombstones = 3
    MaxClock = 1
INVARIANTS
    RefreshIsNew
