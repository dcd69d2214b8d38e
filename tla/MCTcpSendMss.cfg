SPECIFICATION Safety
CONSTANTS
    MSS = 3
    TCP_SND_BUF = 4
    TCP_MAXRTX = 2
    SeqWrap = 20
    ISS = 18
    Total = 4
    PeerBuf = 2
    InitWnd <- MCSmallWnd
INVARIANT MssLocalFits
