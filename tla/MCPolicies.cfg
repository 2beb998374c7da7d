SPECIFICATION PartSpec
CONSTANTS
  b1 = b1
  b2 = b2
  t1 = t1
  r1 = r1
  r2 = r2
  r3 = r3
  NoLane = NoLane
  NoType = NoType
  NoSize = NoSize
  NoBounds = NoBounds
  MaxLoad = 3
  Limit = 2
  BlockId = {b1, b2}
  Projection <- MCProjection
  BoundsChoice <- MCBoundsChoice
  MaxSessionVersion = 3
  Nothing = Nothing
  TxnId = {t1}
  OpType = {"AppendChunk", "CancelTransaction"}
  FaultSet <- MCFaultSet
  ResultVersion = {2, BadVersion}
  BadVersion = BadVersion
  Made <- MCMade
  Bounds <- MCLifecycleBounds
  NoAnswer = NoAnswer
  Ref = {r1, r2, r3}
  Leaf <- MCLeaf
  Heaps <- MCHeaps
  Roots <- MCRoots
  Options <- MCOptions
  NoLimit = NoLimit
  BadLimit = BadLimit
  Pending = Pending
  Thrown = Thrown
  Stacks = {2, 3}
INVARIANTS
  RefusalImpliesThrottle
  StaleAdviceIsSound
  RecordsCameALegalWay
  VerdictIsThatOfTheTree
PROPERTIES
  OnlyCompatibleGoesBack
  WalkEnds
\* The walk of a payload stops when it has a verdict.
CHECK_DEADLOCK FALSE
