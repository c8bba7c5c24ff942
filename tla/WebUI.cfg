SPECIFICATION Spec
CONSTANTS
  Req = {r1, r2}
  RunnerId = {1, 2, 3}
  None = None
  Envs <- MCEnvs
  Edits <- MCEdits
CHECK_DEADLOCK FALSE
INVARIANTS
  TypeOK
  HeldRunsCurrent
  
  UntouchedTokenKept
PROPERTIES
  ClientComesBack
  ShutdownExits
