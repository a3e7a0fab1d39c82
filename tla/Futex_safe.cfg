CONSTANTS
  Threads = {t1, t2, t3}
  Queues = {q1, q2, q3}
  BUSY_LOOP_ITERS = 1
  Timed = {TRUE, FALSE}
  WakeAll = {TRUE, FALSE}
  NoQueue = NoQueue
  NoThread = NoThread
SPECIFICATION Spec
SYMMETRY Symmetry
INVARIANTS TypeOK MutualExclusion EntriesAreAlive UnlinkedIsWoken
CHECK_DEADLOCK FALSE
PROPERTIES LinkedStaysReachable
