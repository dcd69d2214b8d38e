SPECIFICATION Safety
CONSTANTS
    PCB = {p1, p2, p3}
    NULL = NULL
    CtrWrap = 3
INVARIANTS UnlinkAssertsHold
CHECK_DEADLOCK FALSE
