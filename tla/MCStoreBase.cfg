SPECIFICATION FairSpec
CONSTANTS
  t1 = t1
  Threads = {t1, t2, t3}
  MaxCalls <- Bound
  Calls <- AllCalls
  InitialRoots <- AnyRoots
  NullRoot <- MCNullRoot
  FoldOf <- MCFoldOf
  TransformOf <- MCTransformOf
  FoldDefined <- MCFoldDefined
  TransformDefined <- MCTransformDefined
INVARIANTS
  NoRootRace
  PendingRootIsFresh
PROPERTIES
  Linearizable
  AllCallsReturn
