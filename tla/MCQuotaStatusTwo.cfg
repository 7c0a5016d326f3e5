SPECIFICATION Spec
CONSTANTS
  HandledOps <- MCHandledOps
  Tracked <- MCTracked
  Validated <- MCValidated
  Workers = {k1, k2}
  Namespaces = {"n1", "n2"}
  Quotas = {"qa", "qb", "qn"}
  ByName <- TwoByName
  Native = {"qn"}
  Fresh = {}
  Hard <- TwoHard
  Scopes <- TwoScopes
  Members <- TwoMembers
  Requests = {"r1", "r2", "r3"}
  Attr <- TwoAttr
  Retries = 1
  Racy = {"qb"}
  Faults = {"timeout"}
INVARIANTS ExactCharges ChargeOnce
CHECK_DEADLOCK FALSE
