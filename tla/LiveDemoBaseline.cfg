SPECIFICATION Spec
CONSTANTS
    Services = {gateway, payment}
    Kinds = {latency}
    NONE = NONE
    MaxOperations = 3
    MaxLate = 0
    MaxRestarts = 0
INVARIANTS BaselineOfHealthyRequests
CHECK_DEADLOCK FALSE
