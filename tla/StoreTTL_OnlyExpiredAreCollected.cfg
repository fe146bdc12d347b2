SPECIFICATION FairSpecTTL
CONSTANTS
  Threads = {t1, sweeper}
  Sweeper = sweeper
  Paths = {p1, p2}
  Ttls <- LifeTimes
  MaxCalls <- Bound
  MaxTtlCalls = 2
  MaxClock = 1
  Calls <- MCCalls
  InitialRoots <- Documents
  RemovalOf <- MCRemovalOf
  NullRoot = null
  FoldOf <- MCFoldOf
  TransformOf <- MCTransformOf
  FoldDefined <- MCDefined
  TransformDefined <- MCDefined
PROPERTY
  OnlyExpiredAreCollected
