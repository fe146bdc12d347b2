SPECIFICATION Spec
CONSTANTS
  B = 2
  BL = 1
  MaxSize = 12
INVARIANTS
  TypeOK
  ArraysAreSequences
  AssertionsHold
  TreesStayShallow
