---------------------------- MODULE QuotaStatus ----------------------------
(***************************************************************************)
(* Charging quotas: what an evaluator worker does with a batch of          *)
(* admission requests (checkAttributes and checkQuotas of                  *)
(* kube/plugin/pkg/admission/resourcequota/controller.go) through the      *)
(* accessor (pkg/controller/quota/accessor.go), against the documents in   *)
(* the API server, the informer cache the client reads and the accessor's  *)
(* look-aside cache of its own writes.                                     *)
(*                                                                         *)
(* A document is the sequence of its versions, so that a resourceVersion   *)
(* is an index and the informer cache is an index that lags behind.  The   *)
(* client reads (Get) the informer cache and writes (Status().Update) the  *)
(* API server, which refuses a write unless its resourceVersion is the     *)
(* current one.  client.Get, the lookup of checkCache and its Remove are   *)
(* steps of their own: GetQuotas runs outside the quota locks.             *)
(***************************************************************************)
EXTENDS QuotaCheck, Lists, FiniteSetsExt

CONSTANTS
  Workers,     \* evaluator goroutines
  Namespaces,
  Quotas,      \* the names of the quota documents
  ByName,      \* Quotas as a sequence, in the order of their names
  Native,      \* those that are core ResourceQuotas of one namespace
  Fresh,       \* cluster quotas no reconcile has given a status yet
  Hard,        \* Hard[q]: Spec.Quota.Hard of q when it is created
  Scopes,      \* Scopes[q]: the scope selectors of q
  Members,     \* Members[q]: the namespaces q selects at Init
  Requests,    \* admission requests
  Attr,        \* Attr[r]: attributes of r, with the field ns (see QuotaCheck)
  Retries,     \* remainingRetries of the first checkQuotas (3 in the code)
  Racy,        \* quotas whose mutex was created twice (module QuotaLocks)
  Faults       \* what may fail besides conflicts: "get", "write", "lost" (the
               \* answer to a write that was made), "timeout"

\* Resource names some evaluator measures.
AllTracked == UNION {Tracked[k] : k \in DOMAIN Tracked}

ASSUME StatusAssumption ==
  /\ Native \subseteq Quotas /\ Fresh \subseteq Quotas \ Native
  /\ Racy \subseteq Quotas
  /\ ByName \in Seq(Quotas) /\ IsInjective(ByName) /\ ToSet(ByName) = Quotas
  /\ Retries \in Nat
  /\ Faults \subseteq {"get", "write", "lost", "timeout"}
  /\ IsFiniteSet(Namespaces) /\ Members \in [Quotas -> SUBSET Namespaces]
  /\ \A q \in Quotas : IsResourceList(Hard[q], STRING)
  /\ IsFiniteSet(Requests)
  /\ \A r \in Requests : /\ Attr[r].ns \in Namespaces
                         /\ IsResourceList(Attr[r].usage, AllTracked)
                         /\ IsResourceList(Attr[r].old, AllTracked)

VARIABLES
  hist,      \* hist[q]: the versions of q in the API server
  cache,     \* cache[q]: the version the informer cache has
  lru,       \* lru[q]: the version in updatedResourceQuotas, 0 for none
  members,   \* members[q]: the namespaces whose labels q selects
  w,         \* w[k]: the local state of worker k
  result,    \* result[r]: admissionWaiter.result
  caller     \* caller[r]: "new", "waiting", "timedOut" and then what was answered

storeVars == <<hist, cache, lru, members>>
vars == <<storeVars, w, result, caller>>

DefaultDeny == "default deny"

(***************************************************************************)
(* A version of a document: whether it exists, its Spec.Quota.Hard         *)
(* (limit), Status.Total (hard, used) and the usage in Status.Namespaces   *)
(* (byNs); and, for the record, who wrote it (by), the requests whose      *)
(* usage that write added (charged) and whether the writer never got the   *)
(* answer (lost).                                                          *)
(***************************************************************************)
Created(q) ==
  LET zero == [n \in DOMAIN Hard[q] \cap AllTracked |-> 0] IN
  [alive |-> TRUE, limit |-> Hard[q], by |-> "create", charged |-> {},
   lost |-> FALSE,
   hard |-> IF q \in Fresh THEN Nothing ELSE Hard[q],
   used |-> IF q \in Fresh THEN Nothing ELSE zero,
   byNs |-> IF q \in Fresh \cup Native THEN [ns \in {} |-> Nothing]
            ELSE [ns \in Members[q] |-> zero]]

Current(q) == Len(hist[q])
Live(q, i) == hist[q][i].alive

Idle ==
  [pc |-> "idle", ns |-> "", batch |-> <<>>, retries |-> 0, failed |-> {},
   locks |-> {}, todo |-> {}, docs |-> <<>>, writes |-> <<>>, q |-> "",
   got |-> 0]

Init ==
  /\ hist = [q \in Quotas |-> <<Created(q)>>]
  /\ cache = [q \in Quotas |-> 1]
  /\ lru = [q \in Quotas |-> 0]
  /\ members = Members
  /\ w = [k \in Workers |-> Idle]
  /\ result = [r \in Requests |-> DefaultDeny]
  /\ caller = [r \in Requests |-> "new"]

-----------------------------------------------------------------------------
(* checkAttributes: GetQuotas, locks, checkQuotas.                           *)

\* A namespace no worker is busy with gets a batch (module QuotaBatches):
\* requests of that namespace, in the order in which they came.
Begin(k) ==
  /\ w[k].pc = "idle"
  /\ \E ns \in Namespaces :
       /\ \A l \in Workers : w[l].pc # "idle" => w[l].ns # ns
       /\ \E b \in SetToAllKPermutations(
                     {r \in Requests : caller[r] = "new" /\ Attr[r].ns = ns}) :
            /\ b # <<>>
            /\ w' = [w EXCEPT ![k] = [Idle EXCEPT !.pc = "list", !.ns = ns,
                                        !.batch = b, !.retries = Retries]]
            /\ caller' = [r \in Requests |->
                            IF r \in ToSet(b) THEN "waiting" ELSE caller[r]]
  /\ UNCHANGED <<storeVars, result>>

Batch(k) == ToSet(w[k].batch)

\* Mutant of Settle: nobody's result is replaced.
SettleNobody(k, res) == UNCHANGED result

\* result of the batch's waiters that have the default deny becomes res.
Settle(k, res) ==
  result' = [r \in Requests |-> IF r \in Batch(k) /\ result[r] = DefaultDeny
                                THEN res ELSE result[r]]

\* An error of GetQuotas: at first it is everybody's result, in a retry the
\* result of the waiters that have none.
GetQuotasFails(k) ==
  /\ w' = [w EXCEPT ![k].pc = "answer"]
  /\ IF w[k].locks = {}
     THEN result' = [r \in Requests |->
                       IF r \in Batch(k) THEN "failed" ELSE result[r]]
     ELSE Settle(k, "failed")

\* The cluster quotas in the cache that select ns.
ResourceQuotaNamesFor(ns) ==
  {q \in Quotas \ Native : Live(q, cache[q]) /\ ns \in members[q]}

\* GetQuotas first waits for the names of the quotas.
ListNames(k) ==
  /\ w[k].pc = "list"
  /\ \/ /\ w' = [w EXCEPT ![k].pc = "fetch", ![k].docs = <<>>,
                          ![k].todo = ResourceQuotaNamesFor(w[k].ns)]
        /\ UNCHANGED result
     \/ "get" \in Faults /\ GetQuotasFails(k)
  /\ UNCHANGED <<storeVars, caller>>

\* GetQuotas: client.Get of one name.
Fetch(k) ==
  /\ w[k].pc = "fetch"
  /\ \E q \in w[k].todo :
       IF Live(q, cache[q])
       THEN /\ w' = [w EXCEPT ![k].pc = "cache", ![k].q = q,
                              ![k].got = cache[q]]
            /\ UNCHANGED result
       ELSE GetQuotasFails(k)
  /\ UNCHANGED <<storeVars, caller>>

\* The document of q at version i, as GetQuotas converts it.
Doc(q, i) ==
  [name |-> q, rv |-> i, hard |-> hist[q][i].hard, used |-> hist[q][i].used,
   scopes |-> Scopes[q], charging |-> {}]

\* What worker k does with the version i that checkCache returned: GetQuotas
\* goes on with the next name, UpdateQuotaStatus prepares its write.
Proceed(k, i) ==
  w' = [w EXCEPT ![k] =
          IF w[k].writes = <<>>
          THEN [w[k] EXCEPT !.pc = "fetch", !.got = 0, !.todo = @ \ {w[k].q},
                            !.docs = Append(@, Doc(w[k].q, i))]
          ELSE [w[k] EXCEPT !.pc = "write", !.got = i]]

\* checkCache: the lookup and the comparison ...
CheckCache(k) ==
  LET q == w[k].q IN
  /\ w[k].pc = "cache"
  /\ IF lru[q] # 0 /\ w[k].got >= lru[q]
     THEN w' = [w EXCEPT ![k].pc = "evict"]
     ELSE Proceed(k, IF lru[q] = 0 THEN w[k].got ELSE lru[q])
  /\ UNCHANGED <<storeVars, result, caller>>

\* ... and the removal of what is now in the cache under that name.
Evict(k) ==
  /\ w[k].pc = "evict"
  /\ lru' = [lru EXCEPT ![w[k].q] = 0]
  /\ Proceed(k, w[k].got)
  /\ UNCHANGED <<hist, cache, members, result, caller>>

\* The documents of the core ResourceQuotas of ns.
NamespacedResourceQuotas(ns) ==
  LET names == SetToSeq({q \in Native : ns \in members[q]})
  IN  [i \in DOMAIN names |-> Doc(names[i], 1)]

\* Mutant of Listed: a retry checks all the documents again.
ListedForAll(k) ==
  /\ w[k].pc = "fetch" /\ w[k].todo = {}
  /\ w' = [w EXCEPT ![k].pc = IF w[k].locks # {} THEN "check" ELSE "lock",
                    ![k].docs = @ \o NamespacedResourceQuotas(w[k].ns),
                    ![k].failed = {}]
  /\ UNCHANGED <<storeVars, result, caller>>

\* The end of GetQuotas: the core ResourceQuotas of ns follow.  Without any
\* document the batch is admitted; a retry keeps the documents that failed.
Listed(k) ==
  LET docs == w[k].docs \o NamespacedResourceQuotas(w[k].ns)
      retry == w[k].locks # {}
  IN
  /\ w[k].pc = "fetch" /\ w[k].todo = {}
  /\ \/ /\ docs = <<>> /\ ~retry
        /\ w' = [w EXCEPT ![k].pc = "answer"]
        /\ result' = [r \in Requests |->
                        IF r \in Batch(k) THEN "nil" ELSE result[r]]
     \/ /\ docs # <<>> /\ ~retry
        /\ w' = [w EXCEPT ![k].pc = "lock", ![k].docs = docs]
        /\ UNCHANGED result
     \/ /\ retry
        /\ w' = [w EXCEPT ![k].pc = "check", ![k].failed = {},
                   ![k].docs = Subsequence(docs, {i \in DOMAIN docs :
                                               docs[i].name \in w[k].failed})]
        /\ UNCHANGED result
     \/ "get" \in Faults /\ GetQuotasFails(k)
  /\ UNCHANGED <<storeVars, caller>>

\* lockAquisition: sort by name, lock every document (module QuotaLocks).
Lock(k) ==
  LET names == {d.name : d \in ToSet(w[k].docs)}
      doc(q) == CHOOSE d \in ToSet(w[k].docs) : d.name = q
      sorted == Subsequence(ByName, {i \in DOMAIN ByName : ByName[i] \in names})
  IN
  /\ w[k].pc = "lock"
  /\ \A l \in Workers \ {k} : (names \ Racy) \cap w[l].locks = {}
  /\ w' = [w EXCEPT ![k].pc = "check", ![k].locks = names,
                    ![k].docs = [i \in DOMAIN sorted |-> doc(sorted[i])]]
  /\ UNCHANGED <<storeVars, result, caller>>

\* UpdateQuotaStatus is called for a document whose usage changed, and returns
\* at once for a core ResourceQuota.
NeedsWrite(d) ==
  d.name \notin Native /\ ~Equals(hist[d.name][d.rv].used, d.used)

\* checkQuotas, the loop over the waiters.  A pass in which no usage changed
\* ends the evaluation; otherwise the changed documents are written.
Check(k) ==
  LET st == CheckBatch(w[k].docs, w[k].batch, result, Attr)
      changed == \E d \in ToSet(st.docs) : d.charging # {}
  IN
  /\ w[k].pc = "check"
  /\ result' = st.result
  /\ w' = [w EXCEPT ![k].pc = IF changed THEN "update" ELSE "answer",
                    ![k].docs = st.docs,
                    ![k].writes = Subsequence(st.docs, {i \in DOMAIN st.docs :
                                                    NeedsWrite(st.docs[i])})]
  /\ UNCHANGED <<storeVars, caller>>

-----------------------------------------------------------------------------
(* UpdateQuotaStatus, for the documents that changed, one after the other.   *)

\* Worker k is done with the head of its writes, which failed or did not.
Written(k, ok) ==
  w' = [w EXCEPT ![k].pc = "update", ![k].writes = Tail(@), ![k].got = 0,
                 ![k].failed = IF ok THEN @ ELSE @ \cup {Head(w[k].writes).name}]

\* client.Get; checkCache (above) follows.
UpdateRead(k) ==
  LET q == Head(w[k].writes).name IN
  /\ w[k].pc = "update" /\ w[k].writes # <<>>
  /\ IF Live(q, cache[q])
     THEN w' = [w EXCEPT ![k].pc = "cache", ![k].q = q, ![k].got = cache[q]]
     ELSE Written(k, FALSE)
  /\ UNCHANGED <<storeVars, result, caller>>

\* The share of ns in the status of version v: nothing if it has none.
Share(v, ns) == IF ns \in DOMAIN v.byNs THEN v.byNs[ns] ELSE Nothing

\* The shares with that of ns replaced or added.
InsertShare(byNs, ns, used) ==
  [m \in DOMAIN byNs \cup {ns} |-> IF m = ns THEN used ELSE byNs[m]]

\* Mutant of Updated: the whole usage, not the difference, goes to the share.
UpdatedByUsage(base, doc, ns) ==
  [base EXCEPT !.used = doc.used,
               !.byNs = InsertShare(@, ns, Add(Share(base, ns), doc.used)),
               !.by = "admit", !.charged = doc.charging, !.lost = FALSE]

(***************************************************************************)
(* The version Status().Update would create: the status of the version     *)
(* that was just read, with the usage of the checked document, and the     *)
(* difference of the two added to the share of the worker's namespace.     *)
(***************************************************************************)
Updated(base, doc, ns) ==
  LET usageDiff == Subtract(doc.used, base.used) IN
  [base EXCEPT !.used = doc.used,
               !.byNs = InsertShare(@, ns, Add(Share(base, ns), usageDiff)),
               !.by = "admit", !.charged = doc.charging, !.lost = FALSE]

\* Mutant of Write: the API server is not asked to compare versions.
WriteAnyway(k) ==
  LET doc == Head(w[k].writes)
      q == doc.name
      new == Updated(hist[q][w[k].got], doc, w[k].ns)
  IN
  /\ w[k].pc = "write"
  /\ Live(q, Current(q))
  /\ hist' = [hist EXCEPT ![q] =
                Append(@, [new EXCEPT !.limit = Last(hist[q]).limit])]
  /\ w' = [w EXCEPT ![k].pc = "add"]
  /\ UNCHANGED <<cache, lru, members, result, caller>>

\* Status().Update, with the resourceVersion of the checked document: it is
\* made and answered, made with its answer lost, or not made.
Write(k) ==
  LET doc == Head(w[k].writes)
      q == doc.name
      new == [Updated(hist[q][w[k].got], doc, w[k].ns)
                EXCEPT !.limit = Last(hist[q]).limit]
      Accepted == doc.rv = Current(q) /\ Live(q, doc.rv)
  IN
  /\ w[k].pc = "write"
  /\ \/ /\ Accepted
        /\ hist' = [hist EXCEPT ![q] = Append(@, new)]
        /\ w' = [w EXCEPT ![k].pc = "add"]
     \/ /\ Accepted /\ "lost" \in Faults
        /\ hist' = [hist EXCEPT ![q] = Append(@, [new EXCEPT !.lost = TRUE])]
        /\ Written(k, FALSE)
     \/ /\ ~Accepted \/ "write" \in Faults
        /\ Written(k, FALSE)
        /\ UNCHANGED hist
  /\ UNCHANGED <<cache, lru, members, result, caller>>

\* Mutant of CacheAdd: a write that succeeded is retried.
CacheAddThenFail(k) ==
  LET doc == Head(w[k].writes) IN
  /\ w[k].pc = "add"
  /\ lru' = [lru EXCEPT ![doc.name] = doc.rv + 1]
  /\ Written(k, FALSE)
  /\ UNCHANGED <<hist, cache, members, result, caller>>

\* updatedResourceQuotas.Add of what the API server answered.
CacheAdd(k) ==
  LET doc == Head(w[k].writes) IN
  /\ w[k].pc = "add"
  /\ lru' = [lru EXCEPT ![doc.name] = doc.rv + 1]
  /\ Written(k, TRUE)
  /\ UNCHANGED <<hist, cache, members, result, caller>>

\* Mutant of Decide: running out of retries counts as success.
DecideLate(k) ==
  /\ w[k].pc = "update" /\ w[k].writes = <<>>
  /\ IF w[k].failed = {} \/ w[k].retries = 0
     THEN Settle(k, "nil") /\ w' = [w EXCEPT ![k].pc = "answer"]
     ELSE /\ w' = [w EXCEPT ![k].pc = "list", ![k].retries = @ - 1]
          /\ UNCHANGED result
  /\ UNCHANGED <<storeVars, caller>>

\* Mutant of Decide: the retries that remain are not looked at.
DecideUnguarded(k) ==
  /\ w[k].pc = "update" /\ w[k].writes = <<>>
  /\ IF w[k].failed = {}
     THEN Settle(k, "nil") /\ w' = [w EXCEPT ![k].pc = "answer"]
     ELSE /\ w' = [w EXCEPT ![k].pc = "list", ![k].retries = @ - 1]
          /\ UNCHANGED result
  /\ UNCHANGED <<storeVars, caller>>

\* Mutant of Decide: the retries are not counted.
DecideUncounted(k) ==
  /\ w[k].pc = "update" /\ w[k].writes = <<>>
  /\ IF w[k].failed = {}
     THEN Settle(k, "nil") /\ w' = [w EXCEPT ![k].pc = "answer"]
     ELSE w' = [w EXCEPT ![k].pc = "list"] /\ UNCHANGED result
  /\ UNCHANGED <<storeVars, caller>>

\* The end of checkQuotas: all updates succeeded, or the errors are fatal, or
\* the failed documents are fetched again and checked with all the waiters.
Decide(k) ==
  /\ w[k].pc = "update" /\ w[k].writes = <<>>
  /\ \/ /\ w[k].failed = {}
        /\ Settle(k, "nil")
        /\ w' = [w EXCEPT ![k].pc = "answer"]
     \/ /\ w[k].failed # {} /\ w[k].retries = 0
        /\ Settle(k, "failed")
        /\ w' = [w EXCEPT ![k].pc = "answer"]
     \/ /\ w[k].failed # {} /\ w[k].retries > 0
        /\ w' = [w EXCEPT ![k].pc = "list", ![k].retries = @ - 1]
        /\ UNCHANGED result
  /\ UNCHANGED <<storeVars, caller>>

\* The deferred functions of checkAttributes: locks released, waiters notified.
Answer(k) ==
  /\ w[k].pc = "answer"
  /\ caller' = [r \in Requests |->
                  IF r \in Batch(k) /\ caller[r] = "waiting"
                  THEN IF result[r] = "nil" THEN "admitted" ELSE "refused"
                  ELSE caller[r]]
  /\ w' = [w EXCEPT ![k] = Idle]
  /\ UNCHANGED <<storeVars, result>>

\* Evaluate: ten seconds passed, the request is refused with a timeout.
Timeout(r) ==
  /\ "timeout" \in Faults
  /\ caller[r] = "waiting"
  /\ caller' = [caller EXCEPT ![r] = "timedOut"]
  /\ UNCHANGED <<storeVars, w, result>>

\* The watch of q delivers the next version to the informer cache.
Informer(q) ==
  /\ cache[q] < Current(q)
  /\ cache' = [cache EXCEPT ![q] = @ + 1]
  /\ UNCHANGED <<hist, lru, members, w, result, caller>>

-----------------------------------------------------------------------------
WorkerStep(k) ==
  \/ ListNames(k) \/ Fetch(k) \/ CheckCache(k) \/ Evict(k) \/ Listed(k)
  \/ Check(k) \/ UpdateRead(k) \/ Write(k) \/ CacheAdd(k) \/ Decide(k)
  \/ Answer(k)

Next ==
  \/ \E k \in Workers : Begin(k) \/ Lock(k) \/ WorkerStep(k)
  \/ \E r \in Requests : Timeout(r)
  \/ \E q \in Quotas : Informer(q)

Spec == Init /\ [][Next]_vars

-----------------------------------------------------------------------------
\* What request r adds to q, where q counts it: its namespace is a member and
\* its evaluator and scopes match.
Counts(q, r) ==
  Attr[r].ns \in Members[q] /\ Handles(Attr[r])
    /\ Matches([hard |-> Hard[q], scopes |-> Scopes[q]], Attr[r])

Delta(q, r) ==
  IF Counts(q, r) THEN Mask(DeltaUsage(Attr[r]), DOMAIN Hard[q]) ELSE Nothing

\* The sum of the quantities of n in a function to resource lists.
Total(lists, n) == SumFunction([x \in DOMAIN lists |-> At(lists[x], n)])

Versions(q) == 2..Current(q)

\* What a charge of r in version i of q adds to the resources q limits then.
Added(q, i, r) == Mask(DeltaUsage(Attr[r]), DOMAIN hist[q][i - 1].hard)

Pcs == {"idle", "list", "fetch", "cache", "evict", "lock", "check", "update",
        "write", "add", "answer"}

\* Types; a version the caches hold, or a worker works from, exists.
TypeOK ==
  /\ \A q \in Quotas :
       /\ cache[q] \in 1..Current(q)
       /\ lru[q] \in 0..Current(q)
       /\ members[q] \subseteq Namespaces
       /\ \A i \in 1..Current(q) :
            /\ IsResourceList(hist[q][i].used, AllTracked)
            /\ DOMAIN hist[q][i].byNs \subseteq Namespaces
            /\ hist[q][i].charged \subseteq Requests
  /\ \A k \in Workers :
       /\ w[k].pc \in Pcs
       /\ Batch(k) \subseteq Requests
       /\ w[k].retries \in 0..Retries
       /\ w[k].locks \subseteq Quotas /\ w[k].failed \subseteq Quotas
       /\ \A d \in ToSet(w[k].docs) : d.rv \in 1..Current(d.name)
  /\ \A r \in Requests :
       /\ result[r] \in {DefaultDeny, "nil", "denied", "failed"}
       /\ caller[r] \in {"new", "waiting", "timedOut", "admitted", "refused"}

(***************************************************************************)
(* The total of a document is the sum of its namespaces' shares, in every  *)
(* version, whichever version UpdateQuotaStatus started from: it adds the  *)
(* difference to the version it read, not to the one that was checked.     *)
(***************************************************************************)
TotalIsSum ==
  \A q \in Quotas \ Native : \A i \in 1..Current(q) :
    LET v == hist[q][i] IN
    \A n \in AllTracked :
      At(v.used, n) = Total(v.byNs, n)

(***************************************************************************)
(* A write of the evaluator adds exactly what the requests it is made for  *)
(* add, to the version right before it: no concurrent charge, of another   *)
(* worker or of the controller, is lost or repeated by the read from a     *)
(* cache that lags, by the two caches, or by a retry.                      *)
(***************************************************************************)
ExactCharges ==
  \A q \in Quotas : \A i \in Versions(q) :
    LET v == hist[q][i] IN
    v.by = "admit" =>
      \A n \in AllTracked :
        At(v.used, n) = At(hist[q][i - 1].used, n)
                          + Total([r \in v.charged |-> Added(q, i, r)], n)

(***************************************************************************)
(* No write of the evaluator takes a resource it charges beyond the limit  *)
(* in force, the Status.Total.Hard of the version it replaces.             *)
(***************************************************************************)
AdmissionFits ==
  \A q \in Quotas : \A i \in Versions(q) :
    LET v == hist[q][i] IN
    v.by = "admit" =>
      \A r \in v.charged : \A n \in DOMAIN Added(q, i, r) :
        v.used[n] <= hist[q][i - 1].hard[n]

(***************************************************************************)
(* The retries of checkQuotas check all the waiters of the batch again;    *)
(* still a request is charged to a document a second time only when the    *)
(* answer to the write that charged it was lost.                           *)
(***************************************************************************)
ChargeOnce ==
  \A q \in Quotas : \A i, j \in Versions(q) :
    i < j /\ hist[q][i].charged \cap hist[q][j].charged # {} => hist[q][i].lost

\* The requests that were charged to q.
ChargedTo(q) == UNION {hist[q][i].charged : i \in Versions(q)}

(***************************************************************************)
(* A request is admitted only after it was charged to every cluster quota  *)
(* that counts it.                                                         *)
(***************************************************************************)
AdmittedCharged ==
  \A r \in Requests : \A q \in Quotas \ Native :
    /\ caller[r] = "admitted" /\ ~Attr[r].dryRun
    /\ ~IsZero(Delta(q, r))
    => r \in ChargedTo(q)

(***************************************************************************)
(* What was admitted fits: the usage of all admitted requests together     *)
(* stays within every cluster quota that counts them.                      *)
(***************************************************************************)
NoOvercommit ==
  \A q \in Quotas \ Native : \A n \in DOMAIN Hard[q] :
    LET admitted == {r \in Requests : caller[r] = "admitted" /\ ~Attr[r].dryRun}
    IN  Total([r \in admitted |-> Delta(q, r)], n) <= Hard[q][n]

(***************************************************************************)
(* When the waiters of a batch are notified each has a decision: the       *)
(* default deny, which Evaluate would return as an internal error, is      *)
(* always replaced, on every way out of checkAttributes.                   *)
(***************************************************************************)
Decided ==
  \A k \in Workers : w[k].pc = "answer" =>
    \A r \in Batch(k) : result[r] # DefaultDeny

(***************************************************************************)
(* Every request is answered, or its caller leaves: again and again there  *)
(* is a moment when nobody waits, because the locks, the caches and the    *)
(* counted retries never keep a worker in a batch for ever.                *)
(***************************************************************************)
AllAnswered == []<>(\A r \in Requests : caller[r] # "waiting")
=============================================================================
