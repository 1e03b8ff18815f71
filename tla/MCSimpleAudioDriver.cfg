SPECIFICATION Spec
CONSTANTS
    c1 = c1
    c2 = c2
    None = None
    Client = {c1, c2}
    AskedRate <- MCAskedRate
    Second <- MCSecond
    Frames = 1
    MaxTime = 3
INVARIANTS
    StampNotInFuture
    GoneClientIsNotOwner
PROPERTIES
    QuietWhenStopped
    FirstStampComes
CHECK_DEADLOCK FALSE
