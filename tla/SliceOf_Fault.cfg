SPECIFICATION Spec
CHECK_DEADLOCK FALSE
CONSTANTS
  MaxBuffers = 3
  MaxTotal = 4
  SizeMax = 8
INVARIANTS
  NoFault
