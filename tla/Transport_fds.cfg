SPECIFICATION Spec
CONSTANTS
    short = short
    middle = middle
    long = long
    huge = huge
    None = None
    Senders <- Frames
    Length <- FrameLength
    Carriers <- WithFds
    Capacity = 3
    Chunk = 2
    Exclusive = TRUE
    Pipelined = TRUE
CHECK_DEADLOCK FALSE
INVARIANT FdsBelong
