SPECIFICATION FairSpec
CONSTANTS
  c1 = c1
  c2 = c2
  q1 = q1
  q2 = q2
  q3 = q3
  Conns <- TwoConns
  Requests <- ThreeRequests
  Loads <- ThreeLoads
  MaxTries = 2
  MaxNumber = 2
INVARIANTS TypeOK RepliesInStep RepliesShowOwn AnsweredIsSeen LaterIsNumberedHigher
PROPERTIES NobodyWaits
CHECK_DEADLOCK FALSE
