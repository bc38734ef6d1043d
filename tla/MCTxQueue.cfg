SPECIFICATION Spec
CONSTANTS
    q1 = q1  q2 = q2  NoQ = NoQ
    Tids <- Two Prio <- Two
    PsIdMaps <- Mixed HwqOf <- TwoHwqs
    Senders = {s}
    Credits = 2  CreditMax = 4  Wrap = 65536  LimitWrap = 256
    FlowStop = 2  FlowRestart = 2  HwqSize = 2
    Requests = {0, 1}  MaxFrames = 3  MaxRetry = 2
    Scenarios = {{"ps", "busy"}, {"ps", "stop"}, {"ps", "interrupt", "csa", "stop"},
                 {"cfm", "retry", "ps"}, {"cfm", "ps", "unlocked"}, {"cfm", "retry", "stop", "unlocked"},
                 {"cfm", "retry", "stop", "wrap"}, {"ps", "life", "early", "nocb"},
                 {"stop", "life"}, {"cfm", "retry", "life"}, {"ps", "life"}}
INVARIANTS QueuesSound ServedRightly InOrder
CHECK_DEADLOCK FALSE
