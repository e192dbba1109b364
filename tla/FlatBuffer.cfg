SPECIFICATION Spec
CONSTANTS
  Byte = {0, 1}
  Caps = {0, 1, 2, 3, 4}
  SizeMax = 9
INVARIANTS
  Inv
  ReadableWritableDisjoint
  CopyKeepsBytes
PROPERTIES
  CommitAppendsPrepared
  ImplementsDynamicBuffer
