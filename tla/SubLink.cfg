SPECIFICATION FairSpec
CONSTANTS
  Changing = {2}
  MaxVer = 2
  MaxNoise = 1
  Setups <- ThreeSetups
  QueueSize = 2
  NoFrame = NoFrame
  Garbage = Garbage
INVARIANTS
  TypeOK
  PriorityProtects
  BranchShown
PROPERTIES
  IsTelemetry
  RestIsLearnt
