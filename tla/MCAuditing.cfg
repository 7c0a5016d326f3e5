SPECIFICATION Spec
CONSTANTS
  Requests = {"l", "m", "x"}
  Workloads <- MCWorkloads
  User <- MCUser
  CacheSize = 1
  BatchSize = 2
  SendersNum = 1
INVARIANTS TypeOK OnceInOrder TimelySenders LoneLoginTruthful LoneNeverPanics
CHECK_DEADLOCK FALSE
