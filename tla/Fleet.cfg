SPECIFICATION FairSpec
CONSTANTS
    device = device
    first = first
    second = second
    noCall = noCall
    outages = outages
    operator = operator
    owner = owner
    nobody = nobody
    Devices <- MCDevices
    Calls <- MCCalls
    NoCall = noCall
    Outages = outages
    Operator = operator
    Owner = owner
    Nobody = nobody
    MaxOutages = 1
CHECK_DEADLOCK FALSE
INVARIANTS
    OneFiberPerDevice
    SlotsAreHeld
    LiveIsReachable
PROPERTIES
    RemoveReleases
    CallsAreAnswered
    DevicesComeBack
