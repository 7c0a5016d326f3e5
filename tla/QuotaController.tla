-------------------------- MODULE QuotaController --------------------------
(***************************************************************************)
(* QuotaStatus together with the other writers of quota documents: the     *)
(* resource quota controller, which recalculates a document's status from  *)
(* the objects that exist (Reconcile and syncQuotaForNamespaces of         *)
(* pkg/controller/quota/resourcequota_controller.go), and the users who    *)
(* change its limits, its selection of namespaces, or delete it.  Admitted *)
(* requests become objects, objects are deleted, and the controller counts *)
(* what its own informers have seen of that.                               *)
(*                                                                         *)
(* controller-runtime never runs two reconciles of one document at a time, *)
(* and repeats one: after an error with a delay, after ResyncPeriod, and   *)
(* when the document or an object it counts changes.  A reconcile of a     *)
(* document is therefore always possible when none is running.             *)
(* bindWorkspace only changes owner references and is not modelled.        *)
(***************************************************************************)
EXTENDS QuotaStatus

CONSTANTS
  NewHard,      \* NewHard[q]: what an edit changes Spec.Quota.Hard to
  NewMembers,   \* NewMembers[q]: the namespaces q selects after relabelling
  Events        \* what happens besides: "edit", "relabel", "delete", "objects"

ASSUME ControllerAssumption ==
  /\ Events \subseteq {"edit", "relabel", "delete", "objects"}
  /\ \A q \in Quotas : IsResourceList(NewHard[q], STRING)
  /\ NewMembers \in [Quotas -> SUBSET Namespaces]

VARIABLES
  sync,   \* sync[q]: the local state of the reconcile of q
  obj,    \* obj[r]: the object of request r: "none", "stored" or "deleted"
  seen    \* seen[r]: what the controller's informer knows of obj[r]

objVars == <<obj, seen>>
allVars == <<vars, sync, objVars>>

NoSync == [running |-> FALSE]

SysInit ==
  /\ Init
  /\ sync = [q \in Quotas |-> NoSync]
  /\ obj = [r \in Requests |-> "none"]
  /\ seen = [r \in Requests |-> "none"]

-----------------------------------------------------------------------------
(* The controller.                                                           *)

\* CalculateUsage: the objects of ns the informer has, as far as the quota's
\* scopes select them and its limits name their resources.
CalculateUsage(q, limit, ns) ==
  [n \in DOMAIN limit \cap AllTracked |->
     Total([r \in {r \in Requests : /\ seen[r] = "stored" /\ Attr[r].ns = ns
                                    /\ Scopes[q] \subseteq Attr[r].scopes}
              |-> Attr[r].usage], n)]

\* Reconcile reads the document from the cache and lists its namespaces.
SyncGet(q) ==
  /\ ~sync[q].running
  /\ Live(q, cache[q])
  /\ sync' = [sync EXCEPT ![q] =
                [running |-> TRUE, got |-> cache[q], new |-> hist[q][cache[q]],
                 matching |-> members[q], todo |-> members[q]]]
  /\ UNCHANGED <<vars, objVars>>

\* Mutant of Recalculated: the old share is not subtracted.
RecalculatedOnTop(v, ns, actual) ==
  [v EXCEPT !.used = Add(@, actual), !.byNs = InsertShare(@, ns, actual)]

\* The status with the share of ns replaced by its recalculated usage.
Recalculated(v, ns, actual) ==
  [v EXCEPT !.used = Add(Subtract(@, Share(v, ns)), actual),
            !.byNs = InsertShare(@, ns, actual)]

\* One iteration of the loop over the namespaces.
SyncNamespace(q) ==
  /\ sync[q].running
  /\ \E ns \in sync[q].todo :
       sync' = [sync EXCEPT ![q].todo = @ \ {ns},
                  ![q].new = Recalculated(@, ns,
                               CalculateUsage(q, sync[q].new.limit, ns))]
  /\ UNCHANGED <<vars, objVars>>

\* The shares of the namespaces in matching.
RemoveShares(byNs, matching) == [ns \in DOMAIN byNs \cap matching |-> byNs[ns]]

\* The status without the shares of namespaces that no longer match.  The code
\* subtracts them one after the other.
WithoutOthers(v, matching) ==
  LET removed == RemoveShares(v.byNs, DOMAIN v.byNs \ matching)
      names == UNION {DOMAIN removed[ns] : ns \in DOMAIN removed}
  IN  [v EXCEPT !.used = Subtract(@, [n \in names |-> Total(removed, n)]),
                !.byNs = RemoveShares(@, matching)]

\* Mutant of SyncUpdate: Status.Total.Hard is not brought up to date.
SyncUpdateKeepsHard(q) ==
  LET old == hist[q][sync[q].got]
      new == WithoutOthers(sync[q].new, sync[q].matching)
  IN
  /\ sync[q].running /\ sync[q].todo = {}
  /\ hist' = IF new = old \/ sync[q].got # Current(q) THEN hist
             ELSE [hist EXCEPT ![q] =
                     Append(@, [new EXCEPT !.by = "sync", !.charged = {},
                                           !.lost = FALSE])]
  /\ sync' = [sync EXCEPT ![q] = NoSync]
  /\ UNCHANGED <<cache, lru, members, w, result, caller, objVars>>

\* The rest of syncQuotaForNamespaces: no update when nothing changed, else a
\* status update that the API server refuses unless the version is current.
SyncUpdate(q) ==
  LET old == hist[q][sync[q].got]
      new == [WithoutOthers(sync[q].new, sync[q].matching)
                EXCEPT !.hard = old.limit]
  IN
  /\ sync[q].running /\ sync[q].todo = {}
  /\ hist' = IF new = old \/ sync[q].got # Current(q) THEN hist
             ELSE [hist EXCEPT ![q] =
                     Append(@, [new EXCEPT !.by = "sync", !.charged = {},
                                           !.lost = FALSE])]
  /\ sync' = [sync EXCEPT ![q] = NoSync]
  /\ UNCHANGED <<cache, lru, members, w, result, caller, objVars>>

-----------------------------------------------------------------------------
(* Users and the API server.                                                 *)

\* A version of q that differs from the last one only by v.
NewVersion(q, v) ==
  /\ Last(hist[q]).alive
  /\ hist' = [hist EXCEPT ![q] = Append(@, [v EXCEPT !.charged = {}, !.lost = FALSE])]
  /\ UNCHANGED <<cache, lru, members, w, result, caller, sync, objVars>>

EditQuota(q) ==
  /\ "edit" \in Events /\ Last(hist[q]).limit # NewHard[q]
  /\ NewVersion(q, [Last(hist[q]) EXCEPT !.limit = NewHard[q], !.by = "edit"])

DeleteQuota(q) ==
  /\ "delete" \in Events
  /\ NewVersion(q, [Last(hist[q]) EXCEPT !.alive = FALSE, !.by = "delete"])

Relabel(q) ==
  /\ "relabel" \in Events /\ members[q] # NewMembers[q]
  /\ members' = [members EXCEPT ![q] = NewMembers[q]]
  /\ UNCHANGED <<hist, cache, lru, w, result, caller, sync, objVars>>

\* An admitted object is stored, if nothing after the webhook refuses it.
Store(r) ==
  /\ "objects" \in Events
  /\ caller[r] = "admitted" /\ obj[r] = "none"
  /\ Attr[r].op = "create" /\ ~Attr[r].dryRun
  /\ obj' = [obj EXCEPT ![r] = "stored"]
  /\ UNCHANGED <<vars, sync, seen>>

DeleteObject(r) ==
  /\ obj[r] = "stored"
  /\ obj' = [obj EXCEPT ![r] = "deleted"]
  /\ UNCHANGED <<vars, sync, seen>>

\* The informers of the counted kinds catch up.
Observe(r) ==
  /\ seen[r] # obj[r]
  /\ seen' = [seen EXCEPT ![r] = obj[r]]
  /\ UNCHANGED <<vars, sync, obj>>

-----------------------------------------------------------------------------
SyncStep(q) == SyncGet(q) \/ SyncNamespace(q) \/ SyncUpdate(q)

SysNext ==
  \/ Next /\ UNCHANGED <<sync, objVars>>
  \/ \E q \in Quotas \ Native :
       SyncStep(q) \/ EditQuota(q) \/ DeleteQuota(q) \/ Relabel(q)
  \/ \E r \in Requests : Store(r) \/ DeleteObject(r) \/ Observe(r)

SysSpec == SysInit /\ [][SysNext]_allVars

(***************************************************************************)
(* Workers are goroutines and run; a mutex is handed over in turn (module  *)
(* QuotaLocks).  The controller's goroutine runs and reconciles again      *)
(* after ResyncPeriod at the latest, and watches deliver.  Users owe       *)
(* nothing: requests may or may not come (Begin).                          *)
(***************************************************************************)
SysFairSpec ==
  /\ SysSpec
  /\ \A k \in Workers :
       /\ WF_allVars(WorkerStep(k) /\ UNCHANGED <<sync, objVars>>)
       /\ SF_allVars(Lock(k) /\ UNCHANGED <<sync, objVars>>)
  /\ \A q \in Quotas \ Native :
       /\ WF_allVars(SyncStep(q))
       /\ WF_allVars(Informer(q) /\ UNCHANGED <<sync, objVars>>)
  /\ \A r \in Requests : WF_allVars(Observe(r))

-----------------------------------------------------------------------------
(***************************************************************************)
(* Usage is repaired: whatever was charged for requests that never became  *)
(* objects or charged to the wrong namespace, and whatever a reconcile     *)
(* missed, once users stop the status of a document says and keeps saying  *)
(* its limits, the namespaces it selects and what their objects use.       *)
(***************************************************************************)
StatusConverges ==
  <>[](\A q \in Quotas \ Native :
         LET v == Last(hist[q])
             objects(ns) ==
               {r \in Requests : /\ obj[r] = "stored" /\ Attr[r].ns = ns
                                 /\ Scopes[q] \subseteq Attr[r].scopes}
             use(ns, n) == Total([r \in objects(ns) |-> Attr[r].usage], n)
         IN  v.alive =>
               /\ v.hard = v.limit
               /\ DOMAIN v.byNs = members[q]
               /\ \A n \in DOMAIN v.hard \cap AllTracked :
                    /\ \A ns \in members[q] : At(v.byNs[ns], n) = use(ns, n)
                    /\ At(v.used, n) =
                         MapThenSumSet(LAMBDA ns : use(ns, n), members[q]))
=============================================================================
