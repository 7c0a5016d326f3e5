SPECIFICATION SysFairSpec
CONSTANTS
  HandledOps <- MCHandledOps
  Tracked <- MCTracked
  Validated <- MCValidated
  Workers = {k1}
  Namespaces = {"n1", "n2"}
  Quotas = {"q"}
  ByName <- MCByName
  Native = {}
  Fresh = {"q"}
  Hard <- MCHard
  Scopes <- MCScopes
  Members <- MCMembers
  Requests = {"r1", "r2"}
  Attr <- MCAttr
  Retries = 1
  Racy = {}
  Faults = {"write"}
  NewHard <- MCNewHard
  NewMembers <- MCNewMembers
  Events = {"objects", "relabel"}
PROPERTIES StatusConverges AllAnswered
