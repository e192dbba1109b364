SPECIFICATION Spec
CONSTANTS
  Handle = {h1, h2}
  Source = {s1, s2}
  Empty = Empty
  N = 2
  MaxBuffers = 3
  MaxTotal = 2
  Untouched = Untouched
INVARIANTS
  Inv
  DeliversInOrder
PROPERTIES
  EofWithLastByte
  ReadsReturn
