SPECIFICATION Spec
CONSTANTS
  Object = {a, b}
  Iterator = {i1, i2}
  Heap = {p1, p2, p3, p4, p5}
  Static = Static
  None = None
  MaxLen = 1
INVARIANTS
  Inv
  UsableReaches
  EqualIsSame
