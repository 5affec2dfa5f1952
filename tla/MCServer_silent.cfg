SPECIFICATION SilentSpec
CONSTANTS
  c1 = c1
  c2 = c2
  Conns <- TwoConns
  Deadline = 2
  ReadDeadline = 2
  AcceptError = AcceptError
  None = None
PROPERTIES ShutdownCompletes
CHECK_DEADLOCK FALSE
