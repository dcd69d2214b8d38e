SPECIFICATION Safety
CONSTANTS
    MSS = 2
    TCP_SND_BUF = 2
    TCP_MAXRTX = 2
    SeqWrap = 20
    ISS = 18
    Total = 3
    PeerBuf = 4
    InitWnd <- MCInitWnd
INVARIANTS TypeOK QueuesHoldStream SndBufExact WithinWindow NeverStalled StreamIntact
