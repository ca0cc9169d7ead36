SPECIFICATION FairSpec
CONSTANTS
    MaxTighteningId = 42949672
    ThisRun = 1
    OtherRun = 2
    MaxOthers = 1
    BatchSize = 2
    FirstPage = 1
    PageSize = 1
    MaxFeeds = 2
    NoRequest = "nothing"
    Scenarios <- MCScenarios
CHECK_DEADLOCK FALSE
INVARIANTS
    ReadsWhatWasWritten
    SettledByItsOwn
    RequestsAreAnswered
    TraceTellsTheStream
    EndedRunIsComplete
PROPERTIES
    ViewerCatchesUp
