---------------------------- MODULE QuotaBatches ----------------------------
(***************************************************************************)
(* What the batching half of the quota evaluator promises to its callers   *)
(* (kube/plugin/pkg/admission/resourcequota/controller.go, Evaluate,       *)
(* addWork, getWork, completeWork): admission requests of one namespace    *)
(* form one FIFO line; a batch is everything that stands in the line when  *)
(* it is taken; a namespace has at most one batch being worked on; every   *)
(* member of a batch is answered once, in order, and then the namespace is *)
(* free for its next batch.                                                *)
(*                                                                         *)
(* QuotaWork, the module of the code's queues and maps, implements this.   *)
(***************************************************************************)
EXTENDS Naturals, Sequences

CONSTANTS Namespaces, Waiters, NsOf

VARIABLES
  submitted,   \* submitted[ns]: every waiter handed in for ns, in order
  pending,     \* pending[ns]: the line of ns, waiters no batch contains yet
  current,     \* current[ns]: members of the running batch still unanswered
  answered     \* answered[ns]: every waiter answered for ns, in order

vars == <<submitted, pending, current, answered>>

Lines == [Namespaces -> Seq(Waiters)]

Init ==
  /\ submitted = [ns \in Namespaces |-> <<>>]
  /\ pending   = [ns \in Namespaces |-> <<>>]
  /\ current   = [ns \in Namespaces |-> <<>>]
  /\ answered  = [ns \in Namespaces |-> <<>>]

\* A request that was never handed in before joins the line of its namespace.
Submit(a) ==
  LET ns == NsOf[a] IN
  /\ \A i \in 1..Len(submitted[ns]) : submitted[ns][i] # a
  /\ submitted' = [submitted EXCEPT ![ns] = Append(@, a)]
  /\ pending'   = [pending EXCEPT ![ns] = Append(@, a)]
  /\ UNCHANGED <<current, answered>>

\* The whole line becomes the batch of a namespace that has none.
Take(ns) ==
  /\ current[ns] = <<>>
  /\ pending[ns] # <<>>
  /\ current' = [current EXCEPT ![ns] = pending[ns]]
  /\ pending' = [pending EXCEPT ![ns] = <<>>]
  /\ UNCHANGED <<submitted, answered>>

\* The first unanswered member of the batch gets its answer.
Answer(ns) ==
  /\ current[ns] # <<>>
  /\ answered' = [answered EXCEPT ![ns] = Append(@, Head(current[ns]))]
  /\ current'  = [current EXCEPT ![ns] = Tail(@)]
  /\ UNCHANGED <<submitted, pending>>

Next ==
  \/ \E a \in Waiters : Submit(a)
  \/ \E ns \in Namespaces : Take(ns) \/ Answer(ns)

Spec == Init /\ [][Next]_vars
=============================================================================
