SPECIFICATION PairSpec
CONSTANTS
  MaxLen = 8
  PairSizeMax = 17
INVARIANTS
  PairTypeOK
PROPERTIES
  PairImplementsByteWindow
