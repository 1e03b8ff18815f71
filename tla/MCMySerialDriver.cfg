CONSTANTS
    Thread = {t1, t2, t3}
    PD_S_ACQUIRED = PD_S_ACQUIRED
    PD_S_ACTIVE = PD_S_ACTIVE
    CTS = CTS
    ModemBits <- MCModemBits
    SetCalls <- MCSetCalls
    WatchCalls <- MCWatchCalls
SPECIFICATION FairSpec
INVARIANT PortExclusive
INVARIANT NoMissedWakeup
INVARIANT ClosedPortIsClear
PROPERTY StopFreezesPort
PROPERTY AcquireProgress
PROPERTY ClosedPortFreesWatchers
PROPERTY ImplementsPortLock
CHECK_DEADLOCK FALSE
