SPECIFICATION Spec
CONSTANTS
    Systems = {s1, s2, s3}
    EXTERNAL = ext
    Ks = {3, 5}
    MaxRuns = 1
    MaxKills = 0
    NONE = NONE
INVARIANTS
    SelectedIsEvaluated
CHECK_DEADLOCK FALSE
