CONSTANTS
  Threads = {t1}
  Objects = {o1, o2}
  IrqObjects = {o2}
  DoneObjects = {o1}
  Cpus = {c1, c2}
  Wakers = {w1}
  Irqs = {i1}
  Timeouts = {"none", "later"}
  MaxWakes = 2
  MaxQueued = 1
  MaxTimers = 2
  Nil = Nil
SPECIFICATION LiveSpec
INVARIANTS DoneStaysWoken
PROPERTIES TimedWaitEnds QueuedWakeEnds MarkedWakeEnds
CHECK_DEADLOCK FALSE
