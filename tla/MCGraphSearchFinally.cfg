CONSTANTS
  MaxVertices = 3
  MaxBorn = 2
  Batches <- OneBatch
  Targets <- TwoTargets
  QueueSize = 2
  FinallySize = 100
SPECIFICATION Spec
INVARIANT FinallyClean
CHECK_DEADLOCK FALSE
