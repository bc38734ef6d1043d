CONSTANTS
    Bufs = {b1, b2, b3}
    Low = 1
    High = 2
    MaxFrames = 3
    MaySuspend = TRUE
    MayFail = TRUE
    NoBuf = NoBuf
SPECIFICATION FairSpec
INVARIANTS
    OnePlace
PROPERTIES
    InOrder
    FlowReopens
    ThreadServes
CHECK_DEADLOCK FALSE
