SPECIFICATION FairSpec
CONSTANTS
    MaxTighteningId = 42949672
    ThisRun = 1
    OtherRun = 2
    MaxOthers = 0
    BatchSize = 2
    FirstPage = 1
    PageSize = 1
    MaxFeeds = 1
    NoRequest = "nothing"
    Scenarios <- MCScenarios
INVARIANTS
    EveryByteIsTraced
CHECK_DEADLOCK FALSE
