SPECIFICATION RSSpec
CONSTANTS
  N = 2
  MaxBuffers = 4
  MaxTotal = 3
  Untouched = Untouched
INVARIANTS
  ReadsInOrder
PROPERTIES
  SuccessFills
  FailureSticks
  ReadsReturn
