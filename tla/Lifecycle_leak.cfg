SPECIFICATION Spec
CONSTANTS
  m = m
  t1 = t1
  t2 = t2
  Threads = {m, t1}
  Main = m
  Codes <- MCCodes
  Events = {"die"}
  DebugAssertions = TRUE
  MaxJobs = 2
INVARIANT NoActiveThreadsLeft
CHECK_DEADLOCK FALSE
