CONSTANTS
  Port <- TrianglePorts
  Flow <- Flows
  Paths <- TrianglePaths
  Cap <- LargeNumber
  Absent = Absent
SPECIFICATION FairSpec
CHECK_DEADLOCK FALSE
INVARIANTS IInv UsedIsSum MaxMinFair
PROPERTIES RatesRise Evaluated
