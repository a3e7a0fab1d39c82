SPECIFICATION Spec
CONSTANTS
  Threads = {t1}
  Conns = {c1}
  ConnOf <- SingleProcess
  ChanSize = 1
  SendSize = 1
  Batch = 1
  NetBatch = 1
  BusyPolls = 1
  MaxReqs = 1
  StoreBuffer = TRUE
  LateWakes = FALSE
  NoMsg = NoMsg
  NoConn = NoConn
INVARIANT SleeperIsNotNeeded
CHECK_DEADLOCK FALSE
