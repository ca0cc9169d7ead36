SPECIFICATION FairSpec
CONSTANTS
    app = app
    other = other
    loop = loop
    NoFiber = NoFiber
    Link = link
    Query = query
    Mirror = mirror
    Apps <- MCApps
    Loop = loop
    Fibers <- MCFibers
    Sessions = {link}
    Commands = {query, mirror}
    Config <- MCConfig
    TickLength = 25
    ResponseTimeout = 2
CHECK_DEADLOCK FALSE
INVARIANTS
    SilenceIsBounded
PROPERTIES
    RequestsComeBack
    ReaderMovesOn
