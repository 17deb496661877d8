CONSTANTS
  Arc <- LineArcs
  Cdg = {p, q, r}
  Shapes <- LineShapes
SPECIFICATION FairSpec
CHECK_DEADLOCK FALSE
INVARIANTS WholePaths EachPathOnce OnlyCyclesCost
PROPERTY Terminates
