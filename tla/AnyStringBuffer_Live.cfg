SPECIFICATION AnySpec
CHECK_DEADLOCK FALSE
CONSTANTS
  Byte = {0, 1}
  Zero = 0
  StrMax = 3
  SizeMax = 7
INVARIANTS
  DataIsLive
