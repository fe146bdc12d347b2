SPECIFICATION Spec
CONSTANTS
  MaxDepth = 5
  Uses <- BothUses
  Values <- OneValue
  InitialDoc <- NoDocument
  MaxElements = 2
INVARIANT ArrayElementsAreNodes
CHECK_DEADLOCK FALSE
