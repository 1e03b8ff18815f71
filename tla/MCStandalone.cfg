SPECIFICATION MCSpec
CONSTANTS
    NullThread = {t1, t2}
    Asked <- MCAsked
    BoxNames = {studio}
    NullBox = NullBox
    NullName = NullName
    Nobody = Nobody
    MaxPending = 2
    Touched <- MCTouched
    MaxTelling = 2
    IOClient = {t1, t2}
    Period <- MCPeriod
    MaxNow = 6
    MaxAsked = 2
    SA_Thread = {t1, t2}
    SA_Touched <- MCSA_Touched
    SA_Curve <- MCSA_Curve
    SA_Thirty = 30
    SA_Scalars <- MCSA_Scalars
    SA_Decibels <- MCSA_Decibels
    MaxQueued = 1
    CurveRange <- MCCurveRange
    Thirty = 30
    Socket = {s1, s2}
    Sender = {t1}
    MaxArrivals = 2
    MaxSent = 2
    DiskClient = {t1, t2}
    DiskBlocks = 4
    Table <- MCTable
    Encrypted = {2}
    Cell = {0, 1}
    Interval = 2
    Periods = 6
    Latency = 3
    Wrap = 8
    MaxTime = 20
    Readers = {r1, r2, r3}
    StaleTickle = FALSE
INVARIANTS
    CountsIO
    WaitersReadWhenOn
    ReadsWhenOn
    ReplyFits
    HostsUpToDate
    OneClock
    CookiesLive
    WallHolds
    DeliveredInOrder
    EngineOnTime
    CurveInverts
PROPERTIES
    DrainedBeforeLower
    ChangeCompletes
    PropertyTablesAgree
    ChangesAnnounced
    StampsAdvance
    UnloadEnds
    DisableEnds
    ImplementsBlockStore
CHECK_DEADLOCK FALSE
