SPECIFICATION Spec
CONSTANTS
  m = m
  t1 = t1
  t2 = t2
  Threads = {m, t1}
  Main = m
  Codes = {"0", "max"}
  Events = {"kill", "die", "debug", "early", "rewake", "oom", "exception", "guard"}
  DebugAssertions = FALSE
  MaxJobs = 1
INVARIANT ExitingIsFinal
PROPERTY ExitCodeIsKept
PROPERTY DeadIsForever
CHECK_DEADLOCK FALSE
