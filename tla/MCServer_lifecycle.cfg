SPECIFICATION FairSpec
CONSTANTS
  c1 = c1
  c2 = c2
  Conns <- TwoConns
  Deadline = 5
  ReadDeadline = 2
  AcceptError = AcceptError
  None = None
INVARIANTS TypeOK DrainedOnReturn ExitStatus LifetimeBounded
PROPERTIES ShutdownCompletes EveryConnectionEnds
CHECK_DEADLOCK FALSE
