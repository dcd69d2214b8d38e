SPECIFICATION Spec
CONSTANTS
    Plain = {"x"}
    Packets <- MCPackets
    InLan = {"host", "gw"}
    DF_GW = "gw"
    MaxFrames = 3
    MaxLost = 2
INVARIANTS TypeOK DamageBounded
PROPERTIES DecoderNeverRaises Forwarded
CHECK_DEADLOCK FALSE
