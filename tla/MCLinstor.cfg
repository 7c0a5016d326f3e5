SPECIFICATION Spec
CONSTANTS
  Requests = {"a", "b", "c"}
  Kinds <- MCKinds
  Names = {"res"}
  Name <- MCName
  Nodes = {"n1", "n2", "n3"}
  Targets <- MCTargets
  Hosts <- MCHosts
  PVNode = "n1"
INVARIANTS CreatedStays RollsBack CommandOnce ConnectionsSpan
CHECK_DEADLOCK FALSE
