CONSTANTS
  None = None
  Cores = {c1}
  Callers = {x, y}
  Wallets = {v, w}
  TableSize = 1
  Gap = 2
  MaxOps = 2
  MaxReveal = 1
  MaxChain = 0
SPECIFICATION FairSync
INVARIANTS
  OperationsLimited
PROPERTIES
  RunsEnd
CHECK_DEADLOCK FALSE
