SPECIFICATION SimulatorFairSpec
CONSTANTS
    MaxConnections = 2
    MaxResults = 1
    MaxAttempts = 2
    MaxInbox = 2
    MaxHeld = 1
    FaultKinds <- MCFaultKinds
CHECK_DEADLOCK FALSE
INVARIANTS
    NewestIsCurrent
PROPERTIES
    GivesUpOnItsOwn
    ResultsMoveOn
