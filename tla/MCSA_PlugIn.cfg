CONSTANTS
    Object = {s1, s2}
    Client = {c1, c2}
    Part = {p1, p2}
    Device = Device
    Startup = Startup
    Queue = Queue
    EarlyUnplug = FALSE
    ID <- MCID
SPECIFICATION FairSpec
INVARIANT RefsExact
INVARIANT NoUseAfterDelete
INVARIANT MapHoldsLiveDevices
INVARIANT ListedResolves
PROPERTY TerminatedIsDeleted
PROPERTY ImplementsHandles
CHECK_DEADLOCK FALSE
