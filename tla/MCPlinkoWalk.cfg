CONSTANTS
  V <- WheelV
  E <- WheelE
  Ends <- WheelEnds
  Dst = 1
  Args <- WheelArgs
  MaxFailures = 3
SPECIFICATION FairSpec
CHECK_DEADLOCK FALSE
INVARIANTS KnowsWhatFailed Exclusive Resilient
PROPERTY Terminates
