SPECIFICATION Spec
CONSTANTS
  Threads = {t1, t2}
  Blocks = {b1, b2, b3}
  Limit = 1
  Nil = Nil
SYMMETRY Symmetry
INVARIANT HeadHasNoOwner
