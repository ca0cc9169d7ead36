SPECIFICATION FairFlowSpec
CONSTANTS
    MaxId = 4
    Capacity = 1
    ResultIds <- MCResultIds
    ResultBuffer = 1
    HandlerAttempts = 1
    MaxProduced = 3
    History = {0}
    MaxEvicted = 0
    RecoveryLimit = 1
    RecoveryAttempts = 1
    SilenceLimit = 2
    Polling = TRUE
    FaultKinds = {"silence", "latest refused", "handler"}
    MaxFaults = 1
CHECK_DEADLOCK FALSE
INVARIANTS
    SlotMatchesPass
    SettledWasAccepted
PROPERTIES
    BackpressureEnds
