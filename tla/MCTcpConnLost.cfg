SPECIFICATION Safety
CONSTANTS
    QLEN = 1
    WND = 1
    TCP_MAXRTX = 2
    FIN_WAIT_TIMEOUT = 1
    SYN_RCVD_TIMEOUT = 1
    MSL2 = 2
    CloseAt <- MCCloseAnywhere
INVARIANT NoPcbLost
