CONSTANTS
  V <- LoopV
  E <- LoopE
  Ends <- LoopEnds
  Dst = 1
  Args <- LoopArgs
  MaxFailures = 2
SPECIFICATION Spec
CHECK_DEADLOCK FALSE
INVARIANT NoPortTwice
