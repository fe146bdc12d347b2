SPECIFICATION FairSpecTTL
CONSTANTS
  Threads = {t1, t2, sweeper}
  Sweeper = sweeper
  Paths = {p1}
  Ttls <- LifeTimes
  MaxCalls <- Bound
  MaxTtlCalls = 1
  MaxClock = 1
  Calls <- MCCalls
  InitialRoots <- Documents
  RemovalOf <- MCRemovalOf
  NullRoot = null
  FoldOf <- MCFoldOf
  TransformOf <- MCTransformOf
  FoldDefined <- MCDefined
  TransformDefined <- MCDefined
INVARIANTS
  SweepIsNotOvertaken
  MutexesNest
PROPERTIES
  StopIsHeard
  AllTtlCallsReturn
