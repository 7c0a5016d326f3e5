----------------------------- MODULE QuotaLocks -----------------------------
(***************************************************************************)
(* The locks an evaluator worker takes around checkQuotas:                 *)
(* ResourceQuotaAdmission.lockAquisition                                   *)
(* (pkg/controller/quota/resourcequota_webhook.go) and the                 *)
(* DefaultLockFactory it gets them from (pkg/controller/quota/             *)
(* lockfactory.go).  A worker sorts its quota documents by name, gets the  *)
(* mutex of each by UID and locks it, and releases them all, in the        *)
(* opposite order, after checkQuotas.                                      *)
(*                                                                         *)
(* GetLock looks the UID up under the read lock and, when it is missing,   *)
(* creates a mutex under the write lock without looking again: two actions.*)
(* Documents of one namespace only (core ResourceQuotas) are never shared  *)
(* by two workers, because a namespace has one worker (module QuotaWork);  *)
(* Quotas are the cluster-wide documents, which are.                       *)
(***************************************************************************)
EXTENDS Naturals, Sequences, SequencesExt

CONSTANTS
  Workers,      \* evaluator goroutines
  ByName,       \* the quota documents, a sequence in the order of their names
  Known         \* the documents whose mutex the factory already has at Init

Quotas == ToSet(ByName)

\* A worker misses a document in the factory at most once, so that the worker
\* and the document identify the mutex created then.
Mutexes == Workers \X Quotas

NoMutex == <<>>
NoWorker == "nobody"

ASSUME LocksAssumption ==
  /\ ByName \in Seq(Quotas) /\ IsInjective(ByName) /\ ByName # <<>>
  /\ Known \subseteq Quotas
  /\ NoWorker \notin Workers

VARIABLES
  factory,   \* factory[q]: DefaultLockFactory.locks, NoMutex when q is absent
  holder,    \* holder[m]: the worker that locked mutex m
  pc,        \* pc[k]: where worker k is
  quotas,    \* quotas[k]: the sorted documents worker k still has to lock
  lock,      \* lock[k]: the mutex GetLock returned for Head(quotas[k])
  locks      \* locks[k]: the mutexes worker k locked, in that order

vars == <<factory, holder, pc, quotas, lock, locks>>

Init ==
  /\ factory \in [Quotas -> Mutexes \cup {NoMutex}]
  /\ \A q \in Quotas :
       IF q \in Known THEN \E k \in Workers : factory[q] = <<k, q>>
                      ELSE factory[q] = NoMutex
  /\ holder = [m \in Mutexes |-> NoWorker]
  /\ pc = [k \in Workers |-> "outside"]
  /\ quotas = [k \in Workers |-> <<>>]
  /\ lock = [k \in Workers |-> NoMutex]
  /\ locks = [k \in Workers |-> <<>>]

\* The place of document q in the order of names.
Place(q) == CHOOSE i \in DOMAIN ByName : ByName[i] = q

SortedByName(s) == \A i, j \in DOMAIN s : i < j => Place(s[i]) < Place(s[j])

\* lockAquisition sorts the documents GetQuotas returned, one or more.
Begin(k) ==
  /\ pc[k] = "outside"
  /\ \E s \in SeqOf(Quotas, Len(ByName)) :
       /\ s # <<>> /\ SortedByName(s)
       /\ quotas' = [quotas EXCEPT ![k] = s]
  /\ pc' = [pc EXCEPT ![k] = "lookup"]
  /\ UNCHANGED <<factory, holder, lock, locks>>

\* Mutant of GetExistingLock: what is there is never found.
NeverFound(k) ==
  /\ pc[k] = "lookup"
  /\ pc' = [pc EXCEPT ![k] = "create"]
  /\ UNCHANGED <<factory, holder, quotas, lock, locks>>

\* Mutant of GetExistingLock: a miss is looked up again, for ever.
LookupAgain(k) ==
  /\ pc[k] = "lookup"
  /\ lock' = [lock EXCEPT ![k] = factory[Head(quotas[k])]]
  /\ pc' = [pc EXCEPT ![k] =
              IF factory[Head(quotas[k])] = NoMutex THEN "lookup" ELSE "lock"]
  /\ UNCHANGED <<factory, holder, quotas, locks>>

\* getExistingLock, under the read lock.
GetExistingLock(k) ==
  LET q == Head(quotas[k]) IN
  /\ pc[k] = "lookup"
  /\ IF factory[q] = NoMutex
     THEN pc' = [pc EXCEPT ![k] = "create"] /\ UNCHANGED lock
     ELSE /\ lock' = [lock EXCEPT ![k] = factory[q]]
          /\ pc' = [pc EXCEPT ![k] = "lock"]
  /\ UNCHANGED <<factory, holder, quotas, locks>>

\* The rest of GetLock, under the write lock: whatever is there is replaced.
CreateLock(k) ==
  LET q == Head(quotas[k]) IN
  /\ pc[k] = "create"
  /\ factory' = [factory EXCEPT ![q] = <<k, q>>]
  /\ lock' = [lock EXCEPT ![k] = <<k, q>>]
  /\ pc' = [pc EXCEPT ![k] = "lock"]
  /\ UNCHANGED <<holder, quotas, locks>>

\* lock.Lock() returns; the loop goes on with the next document.
Lock(k) ==
  /\ pc[k] = "lock"
  /\ holder[lock[k]] = NoWorker
  /\ holder' = [holder EXCEPT ![lock[k]] = k]
  /\ locks' = [locks EXCEPT ![k] = Append(@, lock[k])]
  /\ quotas' = [quotas EXCEPT ![k] = Tail(@)]
  /\ pc' = [pc EXCEPT ![k] = IF Len(quotas[k]) > 1 THEN "lookup" ELSE "check"]
  /\ UNCHANGED <<factory, lock>>

\* checkQuotas returns and the deferred release starts.
CheckQuotas(k) ==
  /\ pc[k] = "check"
  /\ pc' = [pc EXCEPT ![k] = "release"]
  /\ UNCHANGED <<factory, holder, quotas, lock, locks>>

\* Mutant of Unlock: the loop ends before the first mutex.
UnlockAllButFirst(k) ==
  /\ pc[k] = "release"
  /\ IF Len(locks[k]) > 1
     THEN /\ holder' = [holder EXCEPT ![Last(locks[k])] = NoWorker]
          /\ locks' = [locks EXCEPT ![k] = Front(@)]
          /\ UNCHANGED pc
     ELSE /\ pc' = [pc EXCEPT ![k] = "outside"]
          /\ UNCHANGED <<holder, locks>>
  /\ UNCHANGED <<factory, quotas, lock>>

\* One Unlock of the cleanup function, from the last mutex to the first.
Unlock(k) ==
  /\ pc[k] = "release"
  /\ holder' = [holder EXCEPT ![Last(locks[k])] = NoWorker]
  /\ locks' = [locks EXCEPT ![k] = Front(@)]
  /\ pc' = [pc EXCEPT ![k] = IF Len(locks[k]) > 1 THEN "release" ELSE "outside"]
  /\ UNCHANGED <<factory, quotas, lock>>

Step(k) == GetExistingLock(k) \/ CreateLock(k) \/ CheckQuotas(k) \/ Unlock(k)

Next == \E k \in Workers : Begin(k) \/ Lock(k) \/ Step(k)

Spec == Init /\ [][Next]_vars

(***************************************************************************)
(* A goroutine that can run does; a mutex is handed over in turn, because  *)
(* sync.Mutex switches to FIFO order once a waiter has starved for 1 ms:   *)
(* Lock is strongly fair.  New batches may or may not come (Begin).        *)
(***************************************************************************)
FairSpec ==
  /\ Spec
  /\ \A k \in Workers : WF_vars(Step(k)) /\ SF_vars(Lock(k))

-----------------------------------------------------------------------------
\* The documents worker k evaluates and writes under its locks.
Holds(k) == IF pc[k] = "check" THEN {m[2] : m \in ToSet(locks[k])} ELSE {}

(***************************************************************************)
(* The purpose of the lock: two workers are never in checkQuotas with the  *)
(* same quota document.                                                    *)
(***************************************************************************)
MutualExclusion ==
  \A k, l \in Workers : k # l => Holds(k) \cap Holds(l) = {}

(***************************************************************************)
(* It holds, always, for the documents whose mutex the factory has from    *)
(* the start, whatever happens to the others.                              *)
(***************************************************************************)
KnownExclusion ==
  \A k, l \in Workers : k # l => Holds(k) \cap Holds(l) \cap Known = {}

(***************************************************************************)
(* The cleanup function unlocks every mutex that lockAquisition locked,    *)
(* and only those: at any time the mutexes held in a worker's name are     *)
(* those of its list, so that outside it holds none.                       *)
(***************************************************************************)
ReleasesAll ==
  \A k \in Workers :
    /\ {m \in Mutexes : holder[m] = k} = ToSet(locks[k])
    /\ pc[k] = "outside" => locks[k] = <<>>

(***************************************************************************)
(* Why the order of names prevents a deadlock: a worker that waits for a   *)
(* mutex somebody holds, who in turn waits for another, waits for a        *)
(* document that comes earlier in that order.  No cycle of waiting workers *)
(* closes, and no worker waits for itself.                                 *)
(***************************************************************************)
OrderedWaiting ==
  \A k, l \in Workers :
    pc[k] = "lock" /\ pc[l] = "lock" /\ holder[lock[k]] = l =>
      Place(lock[k][2]) < Place(lock[l][2])

(***************************************************************************)
(* Locking in the order of names: every worker that starts to lock reaches *)
(* checkQuotas, whatever documents the others lock.                        *)
(***************************************************************************)
EveryoneEnters == \A k \in Workers : pc[k] = "lookup" ~> pc[k] = "check"

(***************************************************************************)
(* Two workers can be in checkQuotas with one document only around the     *)
(* document's first use: once the factory has its mutex and the workers    *)
(* that missed it are through, the exclusion holds for good.               *)
(***************************************************************************)
ExclusiveInTheEnd == <>[]MutualExclusion
=============================================================================
