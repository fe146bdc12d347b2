SPECIFICATION FairSpec
CONSTANTS
  t1 = t1
  t2 = t2
  t3 = t3
  k1 = k1
  k2 = k2
  k3 = k3
  k4 = k4
  k5 = k5
  Threads = {t1, t2, t3}
  Cells = {k1, k2, k3, k4, k5}
  Programs <- AllPrograms
INVARIANTS
  NeverAborts
  NoFieldRace
  NoLostCallback
  AtMostOnce
  Composed
PROPERTIES
  KeepsContract
  ChainsComplete
