SPECIFICATION Spec
CONSTANTS
    ETH_RXBUFNB = 3
    SEM_MAX = 3
    MaxSegs = 2
    MaxFrames = 3
INVARIANT PacketFilled
CHECK_DEADLOCK FALSE
