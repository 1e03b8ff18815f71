CONSTANTS
    Object = {s1, s2}
    Client = {c1, c2}
    Part = {p1, p2}
    Device = Device
    Startup = Startup
    Queue = Queue
    EarlyUnplug = FALSE
    ID <- MCID
SPECIFICATION Spec
CHECK_DEADLOCK FALSE
INVARIANT NoEarlyReference
