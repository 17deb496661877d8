CONSTANTS
  V <- HubV
  E <- HubE
  Ends <- HubEnds
  QuitEarly = FALSE
  NumTrees = 0
  BusyDegree = 2
  MaxTries = 5
  NoEdge = NoEdge
SPECIFICATION FairSpec
CHECK_DEADLOCK FALSE
INVARIANTS IInv TreesDisjoint TreesSpan Maximal RankOrder
PROPERTIES Refinement Terminates
