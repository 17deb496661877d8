CONSTANTS
  V <- LoopV
  E <- LoopE
  Ends <- LoopEnds
  PortOf <- LoopPorts
  Dst = 1
  Args <- LoopArgs
  MaxFailures = 2
  NoArc = NoArc
SPECIFICATION Spec
CHECK_DEADLOCK FALSE
INVARIANT DependenciesFound
