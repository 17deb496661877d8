CONSTANTS
  MaxVertices = 5
  MaxBorn = 7
  Batches <- TwoBatches
  Targets <- TwoTargets
  QueueSize = 2
  FinallySize = 4
SPECIFICATION Spec
INVARIANTS
  IndexRight
  ShortestTree
  LayersRight
  PathsRight
PROPERTIES
 EdgesKept
 SearchRefines
CHECK_DEADLOCK FALSE
