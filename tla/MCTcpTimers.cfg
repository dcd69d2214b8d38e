SPECIFICATION Spec
CONSTANTS
    PCB = {p1, p2, p3}
    NULL = NULL
    CtrWrap = 3
INVARIANTS TypeOK PointersLive EveryPcbOnce
CHECK_DEADLOCK FALSE
PROPERTIES TimerReturns
