SPECIFICATION MCSpec
CONSTANTS
  c1 = c1
  c2 = c2
  t1 = t1
  t2 = t2
  t3 = t3
  Threads = {t1, t2, t3}
  Conns = {c1, c2}
  ConnOf <- ProcessOf
  ChanSize = 1
  SendSize = 1
  Batch = 1
  NetBatch = 1
  BusyPolls = 1
  MaxReqs = 2
  StoreBuffer = TRUE
  LateWakes = FALSE
  NoMsg = NoMsg
  NoConn = NoConn
INVARIANT TypeOK
INVARIANT ResponseHasWaiter
INVARIANT ResponseIsAnnounced
INVARIANT RequestIsAnnounced
INVARIANT SleepsWithNothingOwed
SYMMETRY AnyThread
CHECK_DEADLOCK FALSE
