SPECIFICATION FairFlowSpec
CONSTANTS
    MaxId = 3
    Capacity = 1
    ResultIds <- MCResultIds
    ResultBuffer = 6
    HandlerAttempts = 1
    MaxProduced = 2
    History = {0, 1}
    MaxEvicted = 1
    RecoveryLimit = 1
    RecoveryAttempts = 1
    SilenceLimit = 1
    Polling = FALSE
    FaultKinds = {"session", "refusal", "resend"}
    MaxFaults = 2
CHECK_DEADLOCK FALSE
INVARIANTS
    FlowTypeOK
    HeardIsNotHistory
PROPERTIES
    DueIsDelivered
