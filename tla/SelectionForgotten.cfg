CONSTANTS
  None = None
  Default = Default
  Generations = {g1, g2}
  MaxKeys = 3
  MaxLosses <- MCLosses
SPECIFICATION SelectionSpec
SYMMETRY Names
CHECK_DEADLOCK FALSE
INVARIANTS
  NeverLooksNew
