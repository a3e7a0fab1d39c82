CONSTANTS
  Threads = {t1, t2}
  Queues = {q1, q2}
  BUSY_LOOP_ITERS = 0
  Timed = {FALSE}
  WakeAll = {FALSE}
  NoQueue = NoQueue
  NoThread = NoThread
SPECIFICATION Spec
SYMMETRY Symmetry
INVARIANTS NobodyIsForgotten
CHECK_DEADLOCK FALSE
