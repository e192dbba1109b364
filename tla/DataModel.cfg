SPECIFICATION DataSpec
CHECK_DEADLOCK FALSE
CONSTANTS
  MaxBuffers = 3
  MaxTotal = 3
  SizeMax = 6
  Untouched = Untouched
INVARIANTS
  Inv
  CopiedInOrder
  ResultIsLeast
  OneStream
PROPERTIES
  CallsReturn
  IsDataRead
