SPECIFICATION FairSpec
CONSTANTS
  m = m
  t1 = t1
  t2 = t2
  Threads = {m, t1, t2}
  Main = m
  Codes = {"0", "max"}
  Events = {"kill", "die", "pagefault"}
  DebugAssertions = TRUE
  MaxJobs = 2
INVARIANT TypeOK
INVARIANT NoPanic
INVARIANT OneOwner
INVARIANT ExitingIsFinal
INVARIANT ExitedIsQuiet
PROPERTY ExitCodeIsKept
PROPERTY DeadIsForever
PROPERTY ExitCompletes
CHECK_DEADLOCK FALSE
