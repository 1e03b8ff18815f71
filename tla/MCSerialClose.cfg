CONSTANTS
    Thread = {t1, t2}
    PD_S_ACQUIRED = PD_S_ACQUIRED
    PD_S_ACTIVE = PD_S_ACTIVE
    CTS = CTS
    ModemBits <- MCModemBits
    SetCalls <- MCSetCalls
    WatchCalls <- MCWatchCalls
SPECIFICATION HSpec
INVARIANT CloseAbortsWatch
CHECK_DEADLOCK FALSE
