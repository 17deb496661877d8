CONSTANTS
  V <- ThreeV
  E <- EightE
  Ends <- EightEnds
  Forests <- TwoForests
  Args <- SomeArgs
  MaxFailures = 3
SPECIFICATION Spec
INVARIANTS
  AssertsHold
  LayersResilient
  DeadlockFree
PROPERTY Terminates
CHECK_DEADLOCK FALSE
