SPECIFICATION Spec
CONSTANTS
  MaxDepth = 5
  Uses <- BothUses
  Values <- OneValue
  InitialDoc <- NoDocument
  MaxElements = 2
INVARIANTS
  SetChangesOnePath
  EveryOperationTakesEffect
  ArrayOperatorsUndo
  NegationPartitions
  OrderDoesNotMatter
  SafeOperationsMakeNoHole
  NoNullDereference
  ExtractHoldsThePaths
  OverlayFollowsPaths
CHECK_DEADLOCK FALSE
