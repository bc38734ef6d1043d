CONSTANTS
    Callers = {t1, t2}
    PoolSize = 5
    MaxQueued = 2
    ReqIds = {r1}
    Kinds = {"data", "plain", "defer", "nocfm"}
    MaxSends = 3
    MayKill = FALSE
    MayStop = FALSE
    MayDeinit = FALSE
    NoOne = NoOne
SPECIFICATION FairSpec
INVARIANTS
    AnswersSound
PROPERTIES
    SendReturns
    DeferredIsPushed
CHECK_DEADLOCK FALSE
