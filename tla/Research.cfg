SPECIFICATION SuiteSpec
CONSTANTS
    NONE = NONE
    s1 = s1
    s2 = s2
    s3 = s3
    ext = ext
    Incidents = {1, 2, 3, 4, 5, 6, 7}
    Cluster <- RepeatedCluster
    Root <- RepeatedRoot
    Folds = 2
    OuterFolds = 4
    InnerFolds = 3
    ExpertFolds = 2
    FusionFolds = 2
    MaxRuns = 3
    MaxKills = 1
INVARIANTS
    
    HoldoutUnseen
    RepetitionsUnseen
CHECK_DEADLOCK FALSE
