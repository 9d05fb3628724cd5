CONSTANTS
  None = None
  Cores = {c1, c2}
  Callers = {x, y}
  Wallets = {w}
  TableSize = 1
  Gap = 2
  MaxOps = 2
  MaxReveal = 2
  MaxChain = 1
SPECIFICATION SyncSpec
SYMMETRY Interchangeable
INVARIANTS
  SyncTypeOK
  IdsDistinct
PROPERTIES
  NeverBackwards
  KeepsPromise
CHECK_DEADLOCK FALSE
