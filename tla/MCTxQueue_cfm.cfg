SPECIFICATION Spec
CONSTANTS
    q1 = q1  q2 = q2  NoQ = NoQ
    Tids <- Two  Prio <- Two
    PsIdMaps <- Legacy  HwqOf <- OneHwq
    Senders = {s}
    Credits = 2  CreditMax = 128  Wrap = 65536  LimitWrap = 256
    FlowStop = 2  FlowRestart = 2  HwqSize = 2
    Requests = {0, 1}  MaxFrames = 2  MaxRetry = 2
    Scenarios = {{"cfm", "ps", "stop", "unlocked"}}
INVARIANTS OneEntry
CHECK_DEADLOCK FALSE
