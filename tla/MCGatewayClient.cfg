SPECIFICATION Spec
CONSTANTS
    Capacity = 5
    FrameLen = 2
    MaxFrames = 5
    MaxInbound = 3
CHECK_DEADLOCK FALSE
INVARIANTS
    TypeOK
    WholeFrames
    Framed
    NoLoss
    InOrder
    ParsedWhole
    LateCommands
    SigpipeWindow
