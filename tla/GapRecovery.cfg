SPECIFICATION FairSpec
CONSTANTS
    MaxId = 3
    Capacity = 1
    ResultIds <- MCResultIds
    ResultBuffer = 6
    HandlerAttempts = 2
    MaxProduced = 2
    History = {0, 1}
    MaxEvicted = 1
    RecoveryLimit = 2
    RecoveryAttempts = 2
    SilenceLimit = 1
    Polling = TRUE
    FaultKinds = {"silence", "refusal", "latest refused", "session", "handler"}
    MaxFaults = 2
CHECK_DEADLOCK FALSE
INVARIANTS
    HandledOnce
    AcceptedStaysSeen
    WrittenOffIsGone
    EmptyControllerHasNoHistory
PROPERTIES
    DueIsDelivered
