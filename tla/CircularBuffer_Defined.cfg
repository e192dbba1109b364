SPECIFICATION Spec
CHECK_DEADLOCK FALSE
CONSTANTS
  Byte = {0, 1}
  Caps = {0, 1}
  SizeMax = 9
INVARIANTS
  PrepareDefined
