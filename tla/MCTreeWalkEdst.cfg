CONSTANTS
  V <- RingV
  E <- RingE
  Ends <- RingEnds
  Dst = 1
  DefaultTrees = {}
  ResilientTrees = {t1, t2}
  Model = "edst"
  FailKinds = {"edges", "vertices"}
  MaxFailures = 2
  NoTree = NoTree
  TopTrees = 8
SPECIFICATION FairSpec
CHECK_DEADLOCK FALSE
INVARIANTS IInv IntactTreeDelivers Resilient NoArcTwice TransitAvoidsFailures
PROPERTY Terminates
