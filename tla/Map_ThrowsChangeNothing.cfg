SPECIFICATION Spec
CONSTANTS
  k1 = k1
  k2 = k2
  k3 = k3
  k4 = k4
  Handles = {x, y}
  Keys = {k1, k2, k3, k4}
  ValuesOf <- SomeValues
  Hashings <- SomeHashings
  Bits = 2
  HashBits = 3
  MaxBlocks = 20
  Budgets = {0, 1, 2, 3, 4, 5, 6}
INVARIANT ThrowsChangeNothing
