CONSTANTS
  None = None
  Default = Default
  Generations = {g1, g2}
  MaxKeys = 3
  MaxLosses <- MCLosses
SPECIFICATION SelectionSpec
SYMMETRY Names
INVARIANTS
  SelectedOpens
  HandedOutStays
  KeysRetained
  HandleIsSelected
PROPERTIES
  DataStays
  NeverFreshAgain
CHECK_DEADLOCK FALSE
