SPECIFICATION SysSpec
CONSTANTS
  HandledOps <- MCHandledOps
  Tracked <- MCTracked
  Validated <- MCValidated
  Workers = {k1, k2}
  Namespaces = {"n1", "n2"}
  Quotas = {"q"}
  ByName <- MCByName
  Native = {}
  Fresh = {"q"}
  Hard <- MCHard
  Scopes <- MCScopes
  Members <- MCMembers
  Requests = {"r1", "r2"}
  Attr <- MCAttr
  Retries = 1
  Racy = {}
  Faults = {}
  NewHard <- MCNewHard
  NewMembers <- MCNewMembers
  Events = {"edit", "relabel", "delete"}
INVARIANTS TotalIsSum ExactCharges AdmissionFits
SYMMETRY MCSymmetry
CHECK_DEADLOCK FALSE
