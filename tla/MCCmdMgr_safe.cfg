CONSTANTS
    Callers = {t1, t2}
    PoolSize = 2
    MaxQueued = 2
    ReqIds = {r1}
    Kinds = {"data", "plain", "nocfm"}
    MaxSends = 3
    MayKill = TRUE
    MayStop = TRUE
    MayDeinit = TRUE
    NoOne = NoOne
SPECIFICATION Spec
SYMMETRY Sym
INVARIANTS
    DescriptorsSound
    OneInFlight
    CopyToLive
CHECK_DEADLOCK FALSE
