SPECIFICATION LiveSpec
CONSTANTS
  NULL = NULL  None = None
  Parts = {"conn", "chan", "sta", "txq"}
  NX_VIRT_DEV_MAX = 2  NX_VLAN = 1  P2P_ALIVE_TIME_COUNT = 2  MaxStarted = 4
  MaxMsgs = 3
  ApVifs = {a} MeshVifs = {} StaVifs = {s} MonVifs = {} Chans = {c1, c2} RadarChans = {c2} MaxChanMsgs = 1 Together = {{a, s}}
  Stas = {s1, s2} MaxStaMsgs = 2 MaxProbes = 0
  RocVifs = {v1, v2} RocChans = {k1, k2} MaxCookie = 3 KeySlots = {g1, g2} HwKeys = {0, 1}
  RxBufs = {1, 2} MAX_RXQLEN = 2 MaxTrgg = 2 MaxCmd = 2
  Devs = {1, 2}
  PulseMax = 2  MaxServed = 1  Radars <- Pulses
  UcChips = {"8801", "DC", "DC0", "D81", "X2"}  UcSome <- FewKeys  UcPartners = {"plain", "negative"}  MaxPlugs = 2
  UcShapes = {"plain", "zero", "negative", "big", "point", "dash", "trailing", "remark", "twice", "space", "empty", "bare", "comment", "essay", "unknown", "value", "blank"}
  MeshSlots = {0, 1}  Concerns <- MeshConcerns
  TpScripts <- Situations  USB_TXDESC_CNT = 2  IndexWrap = 4
  RxScripts <- Scripts  FragRoom = 2000
  q1 = q1  q2 = q2  NoQ = NoQ  Tids <- TxTids  Prio <- TxTids  PsIdMaps <- TxKinds  HwqOf <- TxHwq
  Senders = {sd}  Credits = 1  CreditMax = 128  Wrap = 65536  LimitWrap = 256  FlowStop = 2  FlowRestart = 2  HwqSize = 2
  Requests = {0, 1}  MaxFrames = 2  MaxRetry = 2  Scenarios = {{"ps", "busy"}, {"ps", "cfm", "retry"}}
PROPERTIES Settles CsaEnds LostIsDeleted PollDelivers
CHECK_DEADLOCK FALSE
