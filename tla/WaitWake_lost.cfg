CONSTANTS
  Threads = {t1}
  Objects = {o1}
  IrqObjects = {}
  DoneObjects = {}
  Cpus = {c1}
  Wakers = {w1, w2}
  Irqs = {}
  Timeouts = {"none"}
  MaxWakes = 2
  MaxQueued = 0
  MaxTimers = 0
  Nil = Nil
SPECIFICATION Spec
INVARIANTS NoLostWake
CHECK_DEADLOCK FALSE
