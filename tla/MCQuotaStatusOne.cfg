SPECIFICATION Spec
CONSTANTS
  HandledOps <- MCHandledOps
  Tracked <- MCTracked
  Validated <- MCValidated
  Workers = {k1, k2}
  Namespaces = {"n1", "n2"}
  Quotas = {"q"}
  ByName <- OneByName
  Native = {}
  Fresh = {}
  Hard <- OneHard
  Scopes <- OneScopes
  Members <- OneMembers
  Requests = {"r1", "r2", "r3", "r4"}
  Attr <- OneAttr
  Retries = 2
  Racy = {}
  Faults = {"get", "write", "lost"}
INVARIANTS TypeOK TotalIsSum ExactCharges AdmissionFits ChargeOnce AdmittedCharged NoOvercommit Decided
CHECK_DEADLOCK FALSE
