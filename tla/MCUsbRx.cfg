SPECIFICATION LiveSpec
CONSTANTS
    Bufs = {b1, b2, b3}
    NoBuf = NoBuf
    Pipes = {"data", "msg"}
    Faults = {"submit", "memory", "suspend"}
    QMax = 2  MaxFrames = 3
INVARIANTS BuffersSound NoLostWakeup
PROPERTIES AllHandled
CHECK_DEADLOCK FALSE
