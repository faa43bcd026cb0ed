SPECIFICATION Spec
CONSTANTS
    c1 = c1
    c2 = c2
    Callers <- const_Callers
    NoOne = nobody
    FrameLen = 2
    Frames <- const_Frames
    Strays <- const_Strays
    MaxOpens = 2
    MaxBytes = 2
    MaxLacks = 1
    MaxWrites = 2
    Patient = TRUE
CHECK_DEADLOCK FALSE
INVARIANT
    ReceiverFreed
