CONSTANTS
  Threads = {t1}
  Objects = {o1, o2, o3}
  IrqObjects = {o2, o3}
  DoneObjects = {o1}
  Cpus = {c1, c2}
  Wakers = {w1, w2}
  Irqs = {i1, i2}
  Timeouts = {"none", "now", "later", "poll"}
  MaxWakes = 2
  MaxQueued = 1
  MaxTimers = 1
  Nil = Nil
SPECIFICATION SafeSpec
SYMMETRY Symmetry
INVARIANTS TypeOK OneWayToRun WaitAsserts WokenListSound MarkedIsReachable
CHECK_DEADLOCK FALSE
