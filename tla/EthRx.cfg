SPECIFICATION Spec
CONSTANTS
    ETH_RXBUFNB = 3
    SEM_MAX = 2
    MaxSegs = 2
    MaxFrames = 5
INVARIANTS FrameFound FramesInOrder DescriptorsReturned FullIsServed NoPhantomFrame
PROPERTY SignalSpec
CHECK_DEADLOCK FALSE
