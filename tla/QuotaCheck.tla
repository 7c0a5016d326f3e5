----------------------------- MODULE QuotaCheck -----------------------------
(***************************************************************************)
(* The decision of the quota evaluator, as functions: CheckRequest and the *)
(* first phase of checkQuotas                                              *)
(* (kube/plugin/pkg/admission/resourcequota/controller.go) with what they  *)
(* ask an evaluator (kube/pkg/quota/v1/generic/evaluator.go and            *)
(* evaluator/core/pods.go).                                                *)
(*                                                                         *)
(* A quota document is a record [name, hard, used, scopes, ...]: its       *)
(* Status.Hard and Status.Used and the scope selectors of its spec.  A     *)
(* request is a record                                                     *)
(*   kind       the evaluator that handles it                              *)
(*   op         "create" or "update"                                       *)
(*   usage      evaluator.Usage of the object                              *)
(*   previous   the old object: "none", "not stored" (it has no resource   *)
(*              version) or "stored"                                       *)
(*   old        Usage of the stored previous object                        *)
(*   scopes     the scope selectors the object matches                     *)
(*   specified  the resources each of its containers specifies             *)
(*   dryRun     whether it is a dry run                                    *)
(* LimitedResources is empty in the configuration the webhook passes, so   *)
(* the code that only serves it decides nothing.                           *)
(***************************************************************************)
EXTENDS ResourceLists, SequencesExt

CONSTANTS
  HandledOps,   \* HandledOps[kind]: operations its evaluator handles
  Tracked,      \* Tracked[kind]: resource names its evaluator measures
  Validated     \* Validated[kind]: names a quota on them makes mandatory

Handles(a) == a.op \in HandledOps[a.kind]

MatchingResources(a, names) == names \cap Tracked[a.kind]

\* Evaluator.Matches: a resource in common, and every scope selected.
Matches(doc, a) ==
  /\ MatchingResources(a, DOMAIN doc.hard) # {}
  /\ doc.scopes \subseteq a.scopes

\* Evaluator.Constraints: what the quota makes mandatory is specified.
Constraints(doc, a) ==
  MatchingResources(a, DOMAIN doc.hard) \cap Validated[a.kind]
    \subseteq a.specified

\* Every constrained resource the evaluator measures has a known usage.
HasUsageStats(doc, a) ==
  MatchingResources(a, DOMAIN doc.hard) \subseteq DOMAIN doc.used

\* What the request adds: all of it, or on an update what it adds to the old.
DeltaUsage(a) ==
  IF a.op = "update" /\ a.previous = "stored"
  THEN SubtractWithNonNegativeResult(a.usage, a.old)
  ELSE a.usage

\* The document's usage if the request succeeded.
NewUsage(doc, a) == Add(doc.used, Mask(DeltaUsage(a), DOMAIN doc.hard))

\* Mutant of Fits: the request alone is compared with the limit.
FitsAlone(doc, a) ==
  LessThanOrEqual(Mask(DeltaUsage(a), DOMAIN doc.hard), doc.hard)

Fits(doc, a) ==
  LET requested == Mask(DeltaUsage(a), DOMAIN doc.hard)
  IN  LessThanOrEqual(Mask(NewUsage(doc, a), DOMAIN requested), doc.hard)

\* checkRequest refuses the request because of the documents docs.
Refuses(docs, a) ==
  LET interesting == {d \in ToSet(docs) : Matches(d, a)} IN
  /\ Handles(a)
  /\ \/ \E d \in interesting : ~Constraints(d, a) \/ ~HasUsageStats(d, a)
     \/ IsNegative(a.usage) # {}
     \/ a.op = "update" /\ a.previous = "none"
     \/ /\ ~IsZero(DeltaUsage(a))
        /\ \E d \in interesting : ~Fits(d, a)

\* The documents as they would be if the request, not refused, succeeded.
CheckRequest(docs, a) ==
  [i \in DOMAIN docs |->
     IF Handles(a) /\ ~IsZero(DeltaUsage(a)) /\ Matches(docs[i], a)
     THEN [docs[i] EXCEPT !.used = NewUsage(docs[i], a)]
     ELSE docs[i]]

\* Mutant of CheckWaiter: the running documents do not get the new usage.
CheckWaiterForgets(st, r, a) ==
  LET new == CheckRequest(st.docs, a)
      changed == {i \in DOMAIN new : ~Equals(st.docs[i].used, new[i].used)}
  IN  IF Refuses(st.docs, a) THEN [st EXCEPT !.result = [@ EXCEPT ![r] = "denied"]]
      ELSE IF a.dryRun \/ changed = {} THEN [st EXCEPT !.result = [@ EXCEPT ![r] = "nil"]]
      ELSE [st EXCEPT !.docs =
              [i \in DOMAIN @ |-> [@[i] EXCEPT !.charging = @ \cup {r}]]]

(***************************************************************************)
(* One iteration of the loop of checkQuotas over the waiters.  st.docs are *)
(* the running documents, st.result the results so far; doc.charging is a  *)
(* history: the requests whose usage is in doc.used and was not before.    *)
(***************************************************************************)
CheckWaiter(st, r, a) ==
  LET new == CheckRequest(st.docs, a)
      changed == {i \in DOMAIN new : ~Equals(st.docs[i].used, new[i].used)}
  IN  IF Refuses(st.docs, a) THEN [st EXCEPT !.result = [@ EXCEPT ![r] = "denied"]]
      ELSE IF a.dryRun THEN [st EXCEPT !.result = [@ EXCEPT ![r] = "nil"]]
      ELSE [docs |-> [i \in DOMAIN new |->
                        IF i \in changed
                        THEN [new[i] EXCEPT !.charging = @ \cup {r}]
                        ELSE new[i]],
            result |-> IF changed = {} THEN [st.result EXCEPT ![r] = "nil"]
                       ELSE st.result]

\* The whole loop: the waiters of a batch in order, each against the documents
\* the waiters before it left.  attr[r] are the attributes of waiter r.
CheckBatch(docs, batch, result, attr) ==
  LET After[i \in 0..Len(batch)] ==
        IF i = 0 THEN [docs |-> docs, result |-> result]
        ELSE CheckWaiter(After[i - 1], batch[i], attr[batch[i]])
  IN  After[Len(batch)]
=============================================================================
