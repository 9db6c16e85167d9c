SPECIFICATION FairSpec
CONSTANTS
  Threads = {"worker"}
  Pids = {1, 2}
  Sessions = {s1, s2}
  None = None
  NoPid = 0
  ForkFailed = 100
INVARIANTS
  TypeOK
  Agrees
  Watched
CHECK_DEADLOCK FALSE
PROPERTIES
  StopReturns
  ExitNoticed
