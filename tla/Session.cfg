SPECIFICATION Spec
CONSTANTS
    first = first
    second = second
    app = app
    attempt = attempt
    keepAlive = keepAlive
    results = results
    NoFiber = NoFiber
    NoSession = NoSession
    Fibers <- MCFibers
    Consumers <- MCConsumers
    Apps = {app}
    Attempt = attempt
    KeepAlive = keepAlive
    Mids = {results}
    MidOf <- MCMidOf
    Sessions <- MCSessions
    Commands <- SessionCommands
    MaxSessions = 2
    MaxChannel = 1
    BufferSize = 1
    ResponseTimeout = 0
CHECK_DEADLOCK FALSE
INVARIANTS
    NoConsumerIsMissed
    SentAtMostOnce
    OpenStreamsAreRegistered
