SPECIFICATION Spec
CONSTANTS
  MaxPoolConnections = 3
  MaxGranted = 3
  MaxResizes = 0
  MayCancel = FALSE
  Conn = {c1, c2, c3}
  Ctx = {w1, w2, w3}
  None = None
CHECK_DEADLOCK FALSE
SYMMETRY Symmetry
INVARIANTS
  ControlWatched
