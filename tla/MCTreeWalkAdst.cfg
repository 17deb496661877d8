CONSTANTS
  V <- OctaV
  E <- OctaE
  Ends <- OctaEnds
  Dst = 0
  DefaultTrees = {}
  ResilientTrees = {1, 2, 3, 4}
  Model = "adst"
  FailKinds = {"edges"}
  MaxFailures = 3
  NoTree = 0
  TopTrees = 8
SPECIFICATION OctaSpec
CHECK_DEADLOCK FALSE
INVARIANT Resilient
