SPECIFICATION DeviceSpec
CONSTANTS
    h1 = h1
    h2 = h2
    device = device
    None = None
    Host = {h1, h2}
    Device = device
    Client = {device}
    AskedRate <- MCAskedRate
    Second <- MCSecond
    Frames = 1
    MaxTime = 4
    MaxRequests = 1
INVARIANTS
    CountMatchesHardware
    SkewAtMostOneBuffer
PROPERTIES
    ConfigChangeApplies
SYMMETRY HostSymmetry
CHECK_DEADLOCK FALSE
