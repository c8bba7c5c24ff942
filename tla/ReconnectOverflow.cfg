SPECIFICATION Spec
CONSTANTS
  Width = 14
  Second = 24
  MaxReconnectDelay = 240
  MaxJitter = 2
  AttemptCap = 14
  MaxActive = 1
CHECK_DEADLOCK FALSE
INVARIANTS
  DelayFollowsBackoff
