SPECIFICATION Spec
CONSTANTS
    QLEN = 2
    WND = 1
    TCP_MAXRTX = 2
    FIN_WAIT_TIMEOUT = 1
    SYN_RCVD_TIMEOUT = 1
    MSL2 = 2
    CloseAt <- MCCloseAt
INVARIANTS TypeOK NoPcbLost NoDanglingPcb StateMatchesFins EofIsLast
PROPERTIES ClosedIsFreed FinIsReported
