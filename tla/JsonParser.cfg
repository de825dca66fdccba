SPECIFICATION Spec
CONSTANTS
  None = None
  k1 = k1
  k2 = k2
  Strings = {k1, k2}
  MaxDepth = 4
  MaxNesting = 3
INVARIANTS TypeOK DepthSpent  SameTree Nested
SYMMETRY Keys
CHECK_DEADLOCK FALSE
