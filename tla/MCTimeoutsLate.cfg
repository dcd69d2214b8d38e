SPECIFICATION Safety
CONSTANTS
    Cyclic = {"autoip_tmr", "etharp_tmr"}
    interval_ms <- MCInterval
    TCP_TMR_INTERVAL = 3
    MEMP_NUM_SYS_TIMEOUT = 3
    Wrap = 16
    MaxLag = 3
INVARIANTS ExpiresOnTime
