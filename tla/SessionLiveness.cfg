SPECIFICATION FairSpec
CONSTANTS
  MaxPoolConnections = 2
  MaxGranted = 2
  MaxResizes = 1
  MayCancel = TRUE
  Conn = {c1, c2}
  Ctx = {w1, w2}
  None = None
CHECK_DEADLOCK FALSE
PROPERTIES
  PoolSpec
  ShutdownCompletes
  BrokenPoolResolved
