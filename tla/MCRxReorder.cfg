SPECIFICATION MCSpec
CONSTANTS
    W = 4  MayFlush = TRUE
    Half = 8  Reach = 3  Pool = 5  MaxN = 18  MayDeinit = FALSE  MaySuspend = FALSE
    TearHalf = 5  TearReach = 1  TearPool = 3  TearMaxN = 8
INVARIANTS HeldSound_wt
PROPERTIES Promise_w Released_w
CHECK_DEADLOCK FALSE
