CONSTANTS
    Callers = {t1, t2, t3}
    PoolSize = 4
    MaxQueued = 2
    ReqIds = {r1}
    Kinds = {"data", "traffic"}
    MaxSends = 3
    MayKill = FALSE
    MayStop = FALSE
    MayDeinit = FALSE
    NoOne = NoOne
SPECIFICATION FairSpec
PROPERTIES
    SendReturns
CHECK_DEADLOCK FALSE
