------------------------- MODULE MCQuotaController -------------------------
(* Small worlds for QuotaController, with the requests of MCQuotaStatus.     *)
EXTENDS QuotaController

MCHandledOps == [pods |-> {"create"}]
MCTracked == [pods |-> {"pods", "cpu"}]
MCValidated == [pods |-> {"cpu"}]

Pod(ns, n, c) ==
  [ns |-> ns, kind |-> "pods", op |-> "create",
   usage |-> [pods |-> n, cpu |-> c], previous |-> "none", old |-> Nothing,
   scopes |-> {}, specified |-> {"cpu"}, dryRun |-> FALSE]

MCByName == <<"q">>
MCHard == [q |-> [pods |-> 1]]
MCScopes == [q |-> {}]
MCMembers == [q |-> {"n1", "n2"}]
MCAttr == [r1 |-> Pod("n1", 1, 1), r2 |-> Pod("n2", 1, 2)]
\* The edit drops one limit and sets another.
MCNewHard == [q |-> [cpu |-> 2]]
MCNewMembers == [q |-> {"n1"}]

\* Workers are interchangeable (used where no liveness is checked).
MCSymmetry == Permutations(Workers)
=============================================================================
