SPECIFICATION Spec
CONSTANTS
  Threads = {t1, t2, t3}
  Blocks = {b1, b2, b3, b4}
  Limit = 1
  Nil = Nil
SYMMETRY Symmetry
CONSTRAINT Intact
INVARIANTS
  OneOwner
  ListIsIntact
  ListIsBounded
