SPECIFICATION FairSpec
CONSTANTS
    ETH_RXBUFNB = 3
    SEM_MAX = 3
    MaxSegs = 1
    MaxFrames = 3
PROPERTY ReadyIsRead

CHECK_DEADLOCK FALSE
