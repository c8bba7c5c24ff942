SPECIFICATION Spec
CONSTANTS
  Threshold = 2
  Cooldown = 1
  FailureCap = 2
  Req = {r1, r2}
  Lane = {l1}
  NoLane = NoLane
  DrainPolls = 1
  MaxStreams = 2
  MayTimeOut = TRUE
  MayCancel = FALSE
SYMMETRY Symmetry
INVARIANTS
  HalfOpenHasProbe
