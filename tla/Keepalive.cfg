SPECIFICATION Spec
CONSTANTS
  Conn = {c1, c2}
  PingInterval = 3
  PongTimeout = 1
  FailureThreshold = 3
  MaxStalls = 1
CHECK_DEADLOCK FALSE
SYMMETRY Symmetry
INVARIANTS
  TypeOK
  NoFalseAlarm
  SilenceDetected
