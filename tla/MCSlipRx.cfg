SPECIFICATION Spec
CONSTANTS
    Plain <- MCPlain
    Packets <- MCPackets
    MaxFrames = 3
    MBOX_SIZE = 2
    BUF_LEN = 2
    SLIP_MAX_SIZE = 3
    PBUF_POOL_SIZE = 2
INVARIANTS TypeOK  DamageBounded
CHECK_DEADLOCK FALSE
PROPERTIES LossFreeDelivery
