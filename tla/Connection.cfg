SPECIFICATION FairSpec
CONSTANTS
    app = app
    scope = scope
    Closers <- MCClosers
    Interruptible <- MCInterruptible
    MaxBackoff = 5
    MaxFailures = 4
CHECK_DEADLOCK FALSE
INVARIANTS
    StateFollowsSupervisor
    ClosedIsReleased
    BackoffFollowsStreak
PROPERTIES
    ComesUp
    CloseCompletes
