SPECIFICATION FairSpec
CONSTANTS
  Threshold = 2
  Cooldown = 1
  FailureCap = 2
  Req = {r1, r2}
  Lane = {l1}
  NoLane = NoLane
  DrainPolls = 1
  MaxStreams = 2
  MayTimeOut = TRUE
  MayCancel = TRUE
INVARIANTS
  TypeOK
  ClosedBelowThreshold
  SlotsConserved
  DrainAborts
PROPERTIES
  CooldownNotExtended
  NothingAfterEnd
  Recovers
  CutLaneCloses
