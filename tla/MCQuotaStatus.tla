--------------------------- MODULE MCQuotaStatus ---------------------------
(* Small worlds for QuotaStatus: quotas, namespaces and the requests made.   *)
EXTENDS QuotaStatus

MCHandledOps ==
  [pods |-> {"create"}, services |-> {"create", "update"}, secrets |-> {"create"}]
MCTracked ==
  [pods |-> {"pods", "cpu"}, services |-> {"services", "loadbalancers"},
   secrets |-> {"secrets"}]
MCValidated == [pods |-> {"cpu"}, services |-> {}, secrets |-> {}]

Request(ns, kind, usage) ==
  [ns |-> ns, kind |-> kind, op |-> "create", usage |-> usage,
   previous |-> "none", old |-> Nothing, scopes |-> {"NotTerminating"},
   specified |-> {"cpu"}, dryRun |-> FALSE]

\* One quota of three pods over two namespaces; n1 asks for more than there is.
Pods(n) == [i \in {"pods"} |-> n]
OneByName == <<"q">>
OneHard == [q |-> Pods(3)]
OneScopes == [q |-> {"NotTerminating"}]
OneMembers == [q |-> {"n1", "n2"}]
OneAttr ==
  [r1 |-> Request("n1", "pods", Pods(3)),
   r2 |-> Request("n1", "pods", Pods(1)),
   r3 |-> Request("n2", "pods", Pods(1)),
   r4 |-> [Request("n2", "pods", Pods(1)) EXCEPT !.dryRun = TRUE]]

\* Two cluster quotas that count the same services (one of n1's requests turns
\* a service into a load balancer) and a core ResourceQuota of n2.
Service(n, lb) == [services |-> n, loadbalancers |-> lb]
TwoByName == <<"qa", "qb", "qn">>
TwoHard ==
  [qa |-> [services |-> 2], qb |-> [loadbalancers |-> 2], qn |-> [services |-> 1]]
TwoScopes == [qa |-> {}, qb |-> {}, qn |-> {}]
TwoMembers == [qa |-> {"n1", "n2"}, qb |-> {"n1", "n2"}, qn |-> {"n2"}]
TwoAttr ==
  [r1 |-> Request("n1", "services", Service(1, 1)),
   r2 |-> [Request("n1", "services", Service(1, 1))
             EXCEPT !.op = "update", !.previous = "stored", !.old = Service(1, 0)],
   r3 |-> Request("n2", "services", Service(1, 1))]

\* Two quotas, each of which counts one request of n1's batch.
ApartByName == <<"qa", "qb">>
ApartHard == [qa |-> Pods(1), qb |-> [secrets |-> 2]]
ApartScopes == [qa |-> {}, qb |-> {}]
ApartMembers == [qa |-> {"n1"}, qb |-> {"n1", "n2"}]
ApartAttr ==
  [r1 |-> Request("n1", "secrets", [secrets |-> 1]),
   r2 |-> Request("n1", "pods", Pods(2)),
   r3 |-> Request("n2", "secrets", [secrets |-> 1])]
=============================================================================
