SPECIFICATION Spec
CONSTANTS
  HandledOps <- MCHandledOps
  Tracked <- MCTracked
  Validated <- MCValidated
  Workers = {k1, k2}
  Namespaces = {"n1", "n2"}
  Quotas = {"qa", "qb"}
  ByName <- ApartByName
  Native = {}
  Fresh = {}
  Hard <- ApartHard
  Scopes <- ApartScopes
  Members <- ApartMembers
  Requests = {"r1", "r2", "r3"}
  Attr <- ApartAttr
  Retries = 3
  Racy = {}
  Faults = {}
INVARIANT NoOvercommit
CHECK_DEADLOCK FALSE
