SPECIFICATION AnySpec
CHECK_DEADLOCK FALSE
CONSTANTS
  Byte = {0, 1}
  Caps = {0, 1, 2, 3}
  SizeMax = 7
  N = 2
  BesidesCap = 2
INVARIANTS
  BuffersInStorage
  Inv
  ReadableWritableDisjoint
  CopiesAreCurrent
  CopyKeepsBytes
PROPERTIES
  DataStaysValid
  ImplementsDynamicBuffer
  AnyImplementsDynamicBuffer
