SPECIFICATION Spec
CONSTANTS
  Width = 14
  Second = 24
  MaxReconnectDelay = 240
  MaxJitter = 2
  AttemptCap = 8
  MaxActive = 1
CHECK_DEADLOCK FALSE
INVARIANTS
  TypeOK
  DelayFollowsBackoff
PROPERTIES
  ImplementsRunner
  Reconnects
