SPECIFICATION Spec
CONSTANTS
    Cyclic = {"autoip_tmr", "etharp_tmr"}
    interval_ms <- MCInterval
    TCP_TMR_INTERVAL = 3
    MEMP_NUM_SYS_TIMEOUT = 3
    Wrap = 12
    MaxLag = 2
INVARIANTS TypeOK TimersArmed NeverEarly
PROPERTIES TimersKeepFiring
