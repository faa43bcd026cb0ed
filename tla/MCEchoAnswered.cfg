SPECIFICATION FairSpec
CONSTANTS
    ChannelCap = 2
    BufferCap = 1
    SocketCap = 1
    LongLines = {2, 5}
    MaxLines = 6
CHECK_DEADLOCK FALSE
PROPERTIES
    Answered
