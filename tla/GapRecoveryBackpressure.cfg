SPECIFICATION Spec
CONSTANTS
    MaxId = 4
    Capacity = 2
    ResultIds <- MCResultIds
    ResultBuffer = 1
    HandlerAttempts = 1
    MaxProduced = 3
    History = {0, 1}
    MaxEvicted = 0
    RecoveryLimit = 2
    RecoveryAttempts = 1
    SilenceLimit = 1
    Polling = TRUE
    FaultKinds = {"session"}
    MaxFaults = 1
CHECK_DEADLOCK FALSE
INVARIANT KnownIsOnItsWay
