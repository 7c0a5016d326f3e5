SPECIFICATION Spec
CONSTANTS
  c1 = c1
  c2 = c2
  h1 = h1
  h2 = h2
  Clients = {c1, c2}
  Handles = {h1, h2}
  HandleOf <- MCHandleOf
  Blocks <- OneBlock
  Size = 3
  ReservedStart = 1
  ReservedEnd = 0
  DatastoreRetries = 2
  MaxFaults = 1
INVARIANTS BlockAccounts HeldIsAllocated ReleasesEverything PoolSettled
SYMMETRY Exchange
CHECK_DEADLOCK FALSE
