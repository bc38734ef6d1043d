CONSTANTS
    Bufs = {b1, b2, b3}
    Low = 1
    High = 2
    MaxFrames = 2
    MaySuspend = TRUE
    MayFail = FALSE
    NoBuf = NoBuf
SPECIFICATION FairSpec
PROPERTIES
    PostIsServed
CHECK_DEADLOCK FALSE
