----------------------------- MODULE QuotaWork -----------------------------
(***************************************************************************)
(* The work queues of the quota evaluator                                  *)
(* (kube/plugin/pkg/admission/resourcequota/controller.go) on top of the   *)
(* client-go work queue.  Webhook goroutines hand admission requests in    *)
(* with addWork and wait; worker goroutines loop in doWork: queue.Get      *)
(* (which does not hold workLock), the rest of getWork under workLock,     *)
(* checkAttributes, one close per waiter, completeWork under workLock.     *)
(*                                                                         *)
(* Every action below is one critical section of the code.  addWork and    *)
(* completeWork call into the work queue while they hold workLock; a Get   *)
(* that slips between that call and the end of the section touches only    *)
(* variables the rest of the section does not, so each section is one      *)
(* atomic step.  What checkAttributes decides is left open here (module    *)
(* QuotaStatus); this module is about who is told, once, and in what order.*)
(***************************************************************************)
EXTENDS Naturals, Sequences, Functions

CONSTANTS
  Namespaces,   \* namespaces requests are made in: the keys of the queue
  Waiters,      \* admission requests (admissionWaiter), each handed in once
  Workers,      \* the goroutines started by run(): numEvaluatorThreads of them
  NsOf          \* NsOf[a]: attributes.GetNamespace() of request a

ASSUME NsOfType == NsOf \in [Waiters -> Namespaces]

VARIABLES
  caller,       \* caller[a]: where the webhook goroutine of a is in Evaluate
  finished,     \* waiters whose finished channel is closed
  queue,        \* workqueue.Type.queue: namespaces in the order of processing
  dirty,        \* workqueue.Type.dirty: namespaces that need processing
  processing,   \* workqueue.Type.processing: namespaces handed to a worker
  work,         \* work[ns]: waiters for the next batch of an idle namespace
  dirtyWork,    \* dirtyWork[ns]: waiters that came while ns was in progress
  inProgress,   \* namespaces between getWork and completeWork
  pc,           \* pc[k]: where worker k is in the loop of doWork
  item,         \* item[k]: the namespace worker k got from the queue
  batch,        \* batch[k]: the waiters worker k still has to notify
  submitted,    \* history: waiters handed in per namespace, in order
  answered      \* history: waiters notified per namespace, in order

queueVars == <<queue, dirty, processing>>
mapVars   == <<work, dirtyWork, inProgress>>
workerVars == <<pc, item, batch>>
vars == <<caller, finished, queueVars, mapVars, workerVars, submitted, answered>>

Empty == [ns \in Namespaces |-> <<>>]

Init ==
  /\ caller = [a \in Waiters |-> "outside"]
  /\ finished = {}
  /\ queue = <<>> /\ dirty = {} /\ processing = {}
  /\ work = Empty /\ dirtyWork = Empty /\ inProgress = {}
  /\ pc = [k \in Workers |-> "get"]
  /\ item \in [Workers -> Namespaces]    \* meaningless until the first Get
  /\ batch = [k \in Workers |-> <<>>]
  /\ submitted = Empty /\ answered = Empty

-----------------------------------------------------------------------------
(* The client-go work queue: a set of keys, each queued at most once and     *)
(* never handed to two workers; a key added while it is processed waits for  *)
(* Done.                                                                     *)

\* Mutant of QueueAdd: a namespace that is queued already is queued again.
QueueAddAgain(ns) ==
  /\ dirty' = dirty \cup {ns}
  /\ queue' = IF ns \in processing THEN queue ELSE Append(queue, ns)
  /\ UNCHANGED processing

\* Mutant of QueueAdd: a namespace that is being processed is queued at once.
QueueAddWhileProcessing(ns) ==
  /\ dirty' = dirty \cup {ns}
  /\ queue' = IF ns \in dirty THEN queue ELSE Append(queue, ns)
  /\ UNCHANGED processing

QueueAdd(ns) ==
  /\ dirty' = dirty \cup {ns}
  /\ queue' = IF ns \in dirty \/ ns \in processing THEN queue
              ELSE Append(queue, ns)
  /\ UNCHANGED processing

QueueGet(ns) ==
  /\ queue # <<>>
  /\ ns = Head(queue)
  /\ queue' = Tail(queue)
  /\ processing' = processing \cup {ns}
  /\ dirty' = dirty \ {ns}

\* Mutant of QueueDone: a namespace that became dirty meanwhile is forgotten.
QueueDoneForgets(ns) ==
  /\ processing' = processing \ {ns}
  /\ UNCHANGED <<queue, dirty>>

QueueDone(ns) ==
  /\ processing' = processing \ {ns}
  /\ queue' = IF ns \in dirty THEN Append(queue, ns) ELSE queue
  /\ UNCHANGED dirty

-----------------------------------------------------------------------------
(* Webhook goroutines.                                                       *)

\* Mutant of AddWork: work is used even while the namespace is in progress.
AddWorkIgnoresProgress(a) ==
  LET ns == NsOf[a] IN
  /\ caller[a] = "outside"
  /\ caller' = [caller EXCEPT ![a] = "waiting"]
  /\ QueueAdd(ns)
  /\ work' = [work EXCEPT ![ns] = Append(@, a)]
  /\ submitted' = [submitted EXCEPT ![ns] = Append(@, a)]
  /\ UNCHANGED <<finished, dirtyWork, inProgress, workerVars, answered>>

\* Evaluate up to its select: a new waiter, handed in by addWork.
AddWork(a) ==
  LET ns == NsOf[a] IN
  /\ caller[a] = "outside"
  /\ caller' = [caller EXCEPT ![a] = "waiting"]
  /\ QueueAdd(ns)
  /\ IF ns \in inProgress
     THEN /\ dirtyWork' = [dirtyWork EXCEPT ![ns] = Append(@, a)]
          /\ UNCHANGED work
     ELSE /\ work' = [work EXCEPT ![ns] = Append(@, a)]
          /\ UNCHANGED dirtyWork
  /\ submitted' = [submitted EXCEPT ![ns] = Append(@, a)]
  /\ UNCHANGED <<finished, inProgress, workerVars, answered>>

\* The select of Evaluate: the answer arrived ...
Return(a) ==
  /\ caller[a] = "waiting"
  /\ a \in finished
  /\ caller' = [caller EXCEPT ![a] = "answered"]
  /\ UNCHANGED <<finished, queueVars, mapVars, workerVars, submitted, answered>>

\* ... or ten seconds passed first: the caller leaves, the waiter stays queued.
Timeout(a) ==
  /\ caller[a] = "waiting"
  /\ caller' = [caller EXCEPT ![a] = "timedOut"]
  /\ UNCHANGED <<finished, queueVars, mapVars, workerVars, submitted, answered>>

-----------------------------------------------------------------------------
(* Worker goroutines.                                                        *)

\* getWork, first half: block in queue.Get until there is a namespace.
Get(k) ==
  /\ pc[k] = "get"
  /\ \E ns \in Namespaces :
       /\ QueueGet(ns)
       /\ item' = [item EXCEPT ![k] = ns]
  /\ pc' = [pc EXCEPT ![k] = "take"]
  /\ UNCHANGED <<caller, finished, mapVars, batch, submitted, answered>>

\* Mutant of Take: the namespace is not marked as in progress.
TakeWithoutMark(k) ==
  LET ns == item[k] IN
  /\ pc[k] = "take"
  /\ batch' = [batch EXCEPT ![k] = work[ns]]
  /\ work' = [work EXCEPT ![ns] = <<>>]
  /\ dirtyWork' = [dirtyWork EXCEPT ![ns] = <<>>]
  /\ pc' = [pc EXCEPT ![k] = IF work[ns] = <<>> THEN "notify" ELSE "check"]
  /\ UNCHANGED <<caller, finished, queueVars, inProgress, item, submitted,
                 answered>>

\* getWork, second half, under workLock.
Take(k) ==
  LET ns == item[k] IN
  /\ pc[k] = "take"
  /\ batch' = [batch EXCEPT ![k] = work[ns]]
  /\ work' = [work EXCEPT ![ns] = <<>>]
  /\ dirtyWork' = [dirtyWork EXCEPT ![ns] = <<>>]
  /\ inProgress' = inProgress \cup {ns}
  /\ pc' = [pc EXCEPT ![k] = IF work[ns] = <<>> THEN "notify" ELSE "check"]
  /\ UNCHANGED <<caller, finished, queueVars, item, submitted, answered>>

\* Mutant of CheckAttributes: the first waiter is notified by the check too.
CheckAttributesNotifies(k) ==
  /\ pc[k] = "check"
  /\ pc' = [pc EXCEPT ![k] = "notify"]
  /\ finished' = finished \cup {Head(batch[k])}
  /\ UNCHANGED <<caller, queueVars, mapVars, item, batch, submitted, answered>>

\* checkAttributes up to its deferred notification: the results are decided.
CheckAttributes(k) ==
  /\ pc[k] = "check"
  /\ pc' = [pc EXCEPT ![k] = "notify"]
  /\ UNCHANGED <<caller, finished, queueVars, mapVars, item, batch, submitted,
                 answered>>

\* One iteration of the deferred loop of checkAttributes: close(finished).
Notify(k) ==
  LET ns == item[k] IN
  /\ pc[k] = "notify"
  /\ batch[k] # <<>>
  /\ finished' = finished \cup {Head(batch[k])}
  /\ answered' = [answered EXCEPT ![ns] = Append(@, Head(batch[k]))]
  /\ batch' = [batch EXCEPT ![k] = Tail(@)]
  /\ UNCHANGED <<caller, queueVars, mapVars, pc, item, submitted>>

\* Mutant of CompleteWork: dirtyWork is cleared but not moved to work.
CompleteWorkDrops(k) ==
  LET ns == item[k] IN
  /\ pc[k] = "notify"
  /\ batch[k] = <<>>
  /\ QueueDone(ns)
  /\ dirtyWork' = [dirtyWork EXCEPT ![ns] = <<>>]
  /\ inProgress' = inProgress \ {ns}
  /\ pc' = [pc EXCEPT ![k] = "get"]
  /\ UNCHANGED <<caller, finished, work, item, batch, submitted, answered>>

\* The deferred completeWork, under workLock; then doWork loops.
CompleteWork(k) ==
  LET ns == item[k] IN
  /\ pc[k] = "notify"
  /\ batch[k] = <<>>
  /\ QueueDone(ns)
  /\ work' = [work EXCEPT ![ns] = dirtyWork[ns]]
  /\ dirtyWork' = [dirtyWork EXCEPT ![ns] = <<>>]
  /\ inProgress' = inProgress \ {ns}
  /\ pc' = [pc EXCEPT ![k] = "get"]
  /\ UNCHANGED <<caller, finished, item, batch, submitted, answered>>

-----------------------------------------------------------------------------
WorkerStep(k) ==
  Get(k) \/ Take(k) \/ CheckAttributes(k) \/ Notify(k) \/ CompleteWork(k)

CallerStep(a) == AddWork(a) \/ Return(a) \/ Timeout(a)

Next ==
  \/ \E a \in Waiters : CallerStep(a)
  \/ \E k \in Workers : WorkerStep(k)

Spec == Init /\ [][Next]_vars

(***************************************************************************)
(* Each worker is a goroutine the scheduler runs, blocked only in Get.     *)
(* That checkAttributes returns is fair because the retries of checkQuotas *)
(* are counted, GetQuotas polls for a bounded time and the quota locks are *)
(* taken in one order (module QuotaLocks).  Callers owe nothing.           *)
(***************************************************************************)
FairSpec == Spec /\ \A k \in Workers : WF_vars(WorkerStep(k))

-----------------------------------------------------------------------------
\* Types; the work queue holds a namespace at most once.
TypeOK ==
  /\ caller \in [Waiters -> {"outside", "waiting", "answered", "timedOut"}]
  /\ finished \in SUBSET Waiters
  /\ queue \in Seq(Namespaces) /\ IsInjective(queue)
  /\ dirty \in SUBSET Namespaces
  /\ processing \in SUBSET Namespaces
  /\ work \in [Namespaces -> Seq(Waiters)]
  /\ dirtyWork \in [Namespaces -> Seq(Waiters)]
  /\ inProgress \in SUBSET Namespaces
  /\ pc \in [Workers -> {"get", "take", "check", "notify"}]
  /\ item \in [Workers -> Namespaces]
  /\ batch \in [Workers -> Seq(Waiters)]
  /\ submitted \in [Namespaces -> Seq(Waiters)]
  /\ answered \in [Namespaces -> Seq(Waiters)]

\* Worker k took ns from the queue and has not completed it.
Owns(k, ns) == pc[k] # "get" /\ item[k] = ns

\* The members of the running batch of ns that are not notified yet.
Current(ns) ==
  IF \E k \in Workers : Owns(k, ns)
  THEN batch[CHOOSE k \in Workers : Owns(k, ns)]
  ELSE <<>>

(***************************************************************************)
(* Everything handed in for a namespace is, in the order it was handed in, *)
(* first the answered waiters, then the rest of the running batch, then    *)
(* work, then dirtyWork: getWork's delete(e.dirtyWork, ns) and             *)
(* completeWork's overwrite of e.work[ns] never drop a waiter, no waiter   *)
(* is in two lists, and nobody overtakes a request of its own namespace.   *)
(***************************************************************************)
InOrder ==
  \A ns \in Namespaces :
    submitted[ns] = answered[ns] \o Current(ns) \o work[ns] \o dirtyWork[ns]

(***************************************************************************)
(* No lost wake-up: waiters in work[ns] are going to be taken, because ns  *)
(* stands in the queue or a worker is between queue.Get and workLock in    *)
(* getWork; and waiters in dirtyWork[ns] will become work of a queued      *)
(* namespace, because ns is in progress and marked dirty, so that          *)
(* completeWork's queue.Done puts it back.                                 *)
(***************************************************************************)
NoLostWakeup ==
  \A ns \in Namespaces :
    /\ work[ns] # <<>> =>
         \/ ns \in Range(queue)
         \/ \E k \in Workers : pc[k] = "take" /\ item[k] = ns
    /\ dirtyWork[ns] # <<>> => ns \in dirty /\ ns \in inProgress

(***************************************************************************)
(* The quota documents of a namespace are evaluated by one worker at a     *)
(* time: no two workers are between queue.Get and completeWork of the same *)
(* namespace.                                                              *)
(***************************************************************************)
OneWorkerPerNamespace ==
  \A k, l \in Workers : \A ns \in Namespaces :
    Owns(k, ns) /\ Owns(l, ns) => k = l

(***************************************************************************)
(* The deferred loop of checkAttributes never closes a channel twice (a    *)
(* panic in Go): every waiter a worker still has to notify is open, and no *)
(* other place of its batch, and no other batch, holds it too.             *)
(***************************************************************************)
CloseOnce ==
  \A k, l \in Workers : \A i \in 1..Len(batch[k]) :
    /\ batch[k][i] \notin finished
    /\ \A j \in 1..Len(batch[l]) : batch[k][i] = batch[l][j] => k = l /\ i = j

(***************************************************************************)
(* Why the above hold, in an inductive form.  The queue holds exactly the  *)
(* dirty namespaces no worker has; processing and inProgress are the       *)
(* namespaces workers own, before and after they took workLock in getWork; *)
(* waiters gather in work[ns] while ns is not in progress and in           *)
(* dirtyWork[ns] while it is, and either way ns is dirty unless a worker   *)
(* is about to take them; a worker has a batch only after it took one.     *)
(***************************************************************************)
QueueInv ==
  /\ Range(queue) = dirty \ processing
  /\ \A ns \in Namespaces :
       ns \in processing <=> \E k \in Workers : Owns(k, ns)

MapInv ==
  \A ns \in Namespaces :
    /\ ns \in inProgress <=>
         \E k \in Workers : Owns(k, ns) /\ pc[k] # "take"
    /\ ns \notin inProgress => dirtyWork[ns] = <<>>
    /\ ns \in inProgress => work[ns] = <<>>
    /\ dirtyWork[ns] # <<>> => ns \in dirty
    /\ work[ns] # <<>> =>
         \/ ns \in dirty
         \/ \E k \in Workers : pc[k] = "take" /\ item[k] = ns

BatchInv == \A k \in Workers : pc[k] \in {"get", "take"} => batch[k] = <<>>

\* A request is handed in once, for its own namespace; the closed channels
\* are those of the notified waiters.
HistoryInv ==
  /\ \A ns \in Namespaces :
       /\ IsInjective(submitted[ns])
       /\ \A a \in Range(submitted[ns]) : NsOf[a] = ns /\ caller[a] # "outside"
  /\ \A a \in Waiters :
       a \in finished <=> \E ns \in Namespaces : a \in Range(answered[ns])

(***************************************************************************)
(* The inductive invariant of Spec: the reachable bookkeeping of the work  *)
(* queue, the two maps and the workers, and the order of the waiters.      *)
(***************************************************************************)
IndInv ==
  /\ TypeOK
  /\ QueueInv
  /\ OneWorkerPerNamespace
  /\ MapInv
  /\ BatchInv
  /\ HistoryInv
  /\ InOrder

(***************************************************************************)
(* Every request that was handed in is answered in the end, whether its    *)
(* caller is still there or gave up after ten seconds.                     *)
(***************************************************************************)
EveryWaiterAnswered ==
  \A a \in Waiters : caller[a] # "outside" ~> a \in finished

-----------------------------------------------------------------------------
(* QuotaWork implements QuotaBatches: the line of a namespace is work        *)
(* followed by dirtyWork, its batch is what the worker that owns it still    *)
(* has to notify.                                                            *)
B == INSTANCE QuotaBatches WITH
       pending <- [ns \in Namespaces |-> work[ns] \o dirtyWork[ns]],
       current <- [ns \in Namespaces |-> Current(ns)]

(***************************************************************************)
(* The queue, the two maps and the in-progress set together behave as one  *)
(* FIFO line and one batch per namespace, in every step.                   *)
(***************************************************************************)
ImplementsBatches == B!Spec
=============================================================================
