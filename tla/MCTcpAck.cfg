SPECIFICATION LiveSpec
CONSTANTS
    f1 = f1  f2 = f2  q1 = q1
    Queues = {q1}  Flows = {f1, f2}  QueueOf <- ToQueue Loads <- LongOrTwo
    NSlots = 1  MaxDrop = 2  Half = 2  MaxN = 5  NMsgs = 3  CntCap = 3  Retries = 1
    MayAge = TRUE MayRemove = TRUE
INVARIANTS AcksSound
PROPERTIES AckGetsOut
CHECK_DEADLOCK FALSE
