SPECIFICATION Spec
CONSTANTS
  MaxPoolConnections = 3
  MaxGranted = 3
  MaxResizes = 1
  MayCancel = FALSE
  Conn = {c1, c2, c3}
  Ctx = {w1, w2, w3}
  None = None
CHECK_DEADLOCK FALSE
SYMMETRY Symmetry
INVARIANTS
  TypeOK
  CutSlotsEmpty
  SlotZeroMaintained
  SlotOwned
  ConnAccounted
  ControlPresent
  OneControlLoop
  DataWatched
  NoControlEndsSession
PROPERTIES
  ControlMovesOnlyWhenLost
