CONSTANTS
  Key = {a, b, c}
  Priority <- MCPriority
  Absent = Absent
  NoAnswer = NoAnswer
  IndexError = IndexError
SPECIFICATION FairSpec
INVARIANTS IInv HeapBounded
PROPERTIES Refinement LookupsReturn
