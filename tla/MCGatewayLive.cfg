SPECIFICATION FairSpec
CONSTANTS
    Capacity = 3
    FrameLen = 2
    MaxFrames = 4
    MaxInbound = 1
CHECK_DEADLOCK FALSE
PROPERTIES
    Drained
    LossNoticed
