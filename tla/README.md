# A TLA+ model of VersaTELServer

VersaTELServer is a KubeSphere derivative with LINSTOR storage management. This
directory holds TLA+ specifications of those parts of it in which several
processes share state, the TLC configurations that check them on small
instances, and TLAPS proofs:

- resource quotas across the namespaces of a workspace (the largest part),
- IP address management and the IP pool controller,
- audit events, from the HTTP filter to the webhook,
- LINSTOR resources and LVM commands over SSH.

`PROJECT.json` lists the components, runs, mutants, hazards, findings and
theorems, and maps every definition to the lines it models.

## Inventory

### Resource quotas

| part | source | state | operations |
|---|---|---|---|
| webhook | `pkg/controller/quota/resourcequota_webhook.go` | the evaluator, created once | `Handle`: decode, `Evaluate`, answer |
| evaluator, batching | `kube/plugin/pkg/admission/resourcequota/controller.go` | work queue of namespaces, `work`, `dirtyWork`, `inProgress` under `workLock` | `Evaluate`/`addWork` (webhook goroutines), `getWork`, `checkAttributes`, `completeWork` (10 worker goroutines) |
| work queue | `vendor/k8s.io/client-go/util/workqueue/queue.go` | `queue`, `dirty`, `processing` | `Add`, `Get`, `Done` |
| evaluator, decision | same file, with `kube/pkg/quota/v1/...` | none | `CheckRequest`, `checkQuotas` with counted retries |
| locks | `pkg/controller/quota/lockfactory.go`, `lockAquisition` | map of mutexes by UID | `GetLock`, lock all by name, release all |
| accessor | `pkg/controller/quota/accessor.go` | LRU of the documents it wrote | `GetQuotas`, `checkCache`, `UpdateQuotaStatus` |
| controller | `pkg/controller/quota/resourcequota_controller.go` | none | `Reconcile`, `syncQuotaForNamespaces` |
| documents | API server, informer caches | versions of `ResourceQuota` | compare-and-swap of the status |

A webhook goroutine hands a request to the evaluator and waits for at most ten
seconds. A worker takes everything that waits in one namespace as a batch, gets
the quota documents that select the namespace (from the informer cache or, when
newer, from the look-aside cache of the accessor's own writes), locks them,
checks the requests of the batch one after the other against running copies,
writes the documents that changed, and retries those whose write conflicted.
Independently the controller recalculates the status of every document from the
objects its informers show.

What is hard: two goroutine pools meeting in three lists and a set; documents
shared by namespaces, so by workers; three views of one document (API server,
informer, look-aside cache); a batch that is written to several documents one
by one; writes that are made although their answer is lost; retries that run
with the results of the first pass; two independent writers of the same status;
usage charged before the object exists.

What makes it correct: no waiter is lost, duplicated, overtaken or notified
twice, and each gets an answer; a document is charged for what is admitted,
once, exactly and within its limit; totals agree with the shares; the status
converges to the truth.

### IP pools

| part | source | state | operations |
|---|---|---|---|
| IPAM client | `pkg/simple/client/network/ippool/ipam/ipam.go` | none of its own | `AutoAssign`, `ReleaseByHandle`, `GetUtilization`, `DeleteBlock` |
| blocks, handles | `staging/.../network/v1alpha1/ipamblock_types.go`, `ipamhandle_types.go` | free ordinals, allocations, attributes; counts per block | `AutoAssign`, `ReleaseByHandle`, `deleteAttributes`, ... on a copy |
| pool controller | `pkg/controller/network/ippool/ippool_controller.go`, `provider.go` | a work queue | `processIPPool`: finalizer, status, disabling, deletion |

Clients (one per CNI call) share only API objects. An assignment first counts
the address in the handle, then takes it from the block; a release does the
reverse. Updates compare versions and are retried in nested loops; deletions
mark the object by an update and then delete it by name, and whoever meets a
mark finishes the deletion.

What is hard: copies that are several calls old, clients that die between two
writes, calls that fail or are carried out without an answer, two objects that
cannot be written together, a controller that reads, counts and deletes
meanwhile and relies on events to be called again.

What makes it correct: every ordinal of a block is accounted for once; an
address belongs to whom it was given; a release gives back everything; the
status and the deletion of a pool follow from what is in use.

### Audit events

| part | source | state | operations |
|---|---|---|---|
| filter | `pkg/apiserver/filters/auditing.go` | none | before and after every request |
| events | `pkg/apiserver/auditing/types.go` | `loginevent`, `loginUserName`, `loginerr`, `islogin` (package variables, no lock), the cache channel | `LogRequestObject`, `LogResponseObject`, `SetLoginUserName`, `SendLogout`, `cacheEvent` |
| backend | `pkg/apiserver/auditing/backend.go` | `senderCh`, a partial batch | `worker`, `getEvents`, `sendEvents`, `send` |

What is hard: an outcome and a name that travel from the handler to a goroutine
through shared variables; an event that is published before it is complete and
whose parts are still shared when a copy of it is queued; a slot acquired by one
goroutine and released by another; three timeouts.

What makes it correct: what enters the cache is sent once and in order; no more
senders than configured; a record tells what happened.

### LINSTOR

| part | source | state | operations |
|---|---|---|---|
| handlers | `pkg/kapis/versatel/v1alpha1/handler.go` | none | create, delete, add and remove replicas, LVM commands |
| resources | `pkg/models/versatel/v1alpha1/linstor/resource.go` | in the remote LINSTOR controller | sequences of calls with a rollback |
| SSH | `pkg/models/versatel/v1alpha1/linstor/versassh.go` | `sshlist.Connects`, shared, no lock | `GetSshList`, `DoSshs`, `SshCmd`, `CreatePV`, ... |

What is hard: a creation made of several calls any of which fails or loses its
answer; check and creation apart; a shared slice that is built, read and reset
by any number of handlers; `log.Fatal` in the middle of a server.

What makes it correct: a failed creation leaves nothing; a resource stays until
it is removed; a disk command is run once, on the node that was named.

## Modules

- `QuotaBatches`: the abstract specification of batching. One FIFO line and at
  most one batch per namespace; `Submit`, `Take`, `Answer`.
- `QuotaWork`: the code's version of it. Each action is one critical section:
  `AddWork` (with `queue.Add`), `Get` and `Take` (the two halves of `getWork`),
  `CheckAttributes`, `Notify` (one `close`), `CompleteWork` (with `queue.Done`);
  `Return` and `Timeout` are the two cases of the caller's select. `submitted`
  and `answered` are history variables. What is decided is left open.
- `QuotaWorkProofs`, `QuotaLocksProofs`, `QuotaStatusProofs`,
  `QuotaControllerProofs` (extends the one before), `IPAMProofs`,
  `AuditingProofs`, `LinstorProofs`: the inductive invariants and proofs about the
  module each is named after. `ListFacts`: the lemmas they share, about
  sequences, ranks and sums.
- `Lists`: the part of a list at given positions, in order (what a loop that
  appends some elements of a slice to another makes); used by `IPAM` and
  `QuotaStatus`.
- `QuotaLocks`: `lockAquisition` over `DefaultLockFactory`. The lookup under the
  read lock and the creation under the write lock are two actions. `Known` says
  which documents already have a mutex.
- `ResourceLists`: resource list arithmetic. A missing name differs from a zero.
- `QuotaCheck`: `CheckRequest` and the first phase of `checkQuotas` as functions
  of the documents and the batch.
- `QuotaStatus`: a worker's whole evaluation of a batch against versioned
  documents, the lagging informer cache and the look-aside cache. `Begin` takes
  a batch (any requests of one namespace, in any order of arrival, which is what
  `QuotaBatches` allows); `ListNames`, `Fetch`, `CheckCache`, `Evict`, `Listed`
  are `GetQuotas`, with the cache's lookup and removal apart; `Lock`; `Check`;
  `UpdateRead`, `CheckCache`, `Evict`, `Write`, `CacheAdd` are
  `UpdateQuotaStatus`; `Decide` is the end of `checkQuotas` with its retry;
  `Answer` the deferred functions. A document is the sequence of its versions;
  `by`, `charged` and `lost` of a version are history. `Racy` names documents
  whose mutex was created twice and so does not exclude. `Faults` says what may
  fail besides conflicts: reads, writes, the answer to a write, and the callers.
- `QuotaController`: extends `QuotaStatus` by the controller (`SyncGet`,
  `SyncNamespace`, `SyncUpdate`), the users' edits, relabelling and deletion,
  and objects that are stored, deleted and observed late.
- `IPAM`: clients that assign and release, the pool controller, deletion of the
  pool and the garbage collector. One action per API call; what a client does
  between two calls is part of the action of the first. Every call of a client
  may go wrong: the client is killed before it (`Crash`), the call fails
  (`CallFails`), or the server carries it out and the answer is lost
  (`BlockAnswerLost`, `HandleAnswerLost`, `AssignmentLost`); `Failed` is what the
  callers make of an error that is neither a conflict nor NotFound, `GivenUp`
  what `assignFromExistingBlock` does on any error of its Update: it decrements
  the handle. `ControllerFails` ends an attempt of the controller at any of its
  calls; after the action of a call it stands for a lost answer. `born` tells
  incarnations of a block of one name apart. `lost` is history: the addresses a
  client was assigned by an Update that went unanswered. A client uses one
  handle, named after its container, which no other client uses.
- `Auditing`: requests of five kinds up to the cache, then the worker, then
  `sendEvents` and `send` of every batch as two processes. Each statement that
  uses a login variable, or an event another request may hold, is an action of
  its own: a token request publishes its event (`LogToken`) and completes it
  through `loginevent` (`TokenUser`, `TokenSource` with the HTTP call of
  `getloginip` before it, `TokenStatus`, `TokenReason`, `TokenReturn`),
  `SendLogout` is five actions, `LogResponseObject` up to seven. Events and
  statuses are objects: `event[r]` is the one request r allocates, `reason[p]`
  what status p says, and the copy `cacheEvent` makes has the user but shares the
  status, so that its reason is looked up whenever the record is looked at. A nil
  dereference is modelled: in the request's own goroutine net/http ends the
  request (`panic`), in that of `LogResponseObject` it ends the process (`crash`).
  `Stop` drops the partial batch, as `getEvents` does. `accepted`, `dropped` and
  `alone` are history.
- `Linstor`: handlers as processes, one action per remote call or access of
  `sshlist.Connects`. A call may be refused, fail, or be carried out although an
  error is returned. `intact`, `alone`, `executed` and `cut` are history.
- `MC...`: constants for TLC. Operators named as mutants are deliberately wrong
  variants of the definition after them: each property is known to fail for one.

Abstractions. *Quotas*: requests are records of what evaluators measure;
evaluators are the tables `HandledOps`, `Tracked`, `Validated`. Per-namespace
`Hard` is left out (nothing reads it). Locks are taken in one step in
`QuotaStatus`; that their order is safe is the subject of `QuotaLocks`. Fewer
than 100 documents are used, so the LRU evicts nothing by itself. Names of core
and cluster quotas differ. Shutdown is left out: the webhook passes `NeverStop`.
`bindWorkspace` changes metadata only. A label change is visible at once, a
document's change late. *IPAM*: addresses are ordinals; one pool; the five
workers of the controller are one, for the queue never gives a key to two; a
controller working on an old copy of the pool is refused by its next update and
queued again. `NewBlock` adds the attribute of the reserved addresses only if
there are some; the code does so also when both ends of the range are set and
none is reserved, which allocates nothing. `enqueueIPAMBlocks` ignores the
tombstone an informer delivers for a deletion it missed (`PutBlock` always queues),
so that `PoolSettled` presupposes that the watch misses none. `GetIPPoolStats`
takes `stats[0]` without looking whether there is one: with other pools of the
same type around, a pool that is gone is a panic there, while with the one pool
of the model it is the error that is modelled. *Auditing*: an event is
its request, its user, whether it has a source address, and its status; a status
is its reason. `ObjectRef.Name` and the contents of `SourceIPs`, which are shared
in the same way, are left out, as are a word-torn read of a string and a
statement that loads `loginevent` and is overtaken before it writes the field. A
token request always has a user (the anonymous one if no other), so the branch
without one is left out. The webhook's answer is not looked at by
the code. Timeouts may happen at any moment the code's constants allow
(`getSenderTimeout` is shorter than `sendTimeout`). *Linstor*: the controller
keeps definitions and replicas; sizes, storage pools and output are left out. Three
panics or near-panics are outside: a request whose replica entry lacks the node or
pool (`resource.go:263-264`), which panics after the definition was made and is not
rolled back; a node without an IPv4 address (`versassh.go:90`); and an error of the
first `Nodes.GetAll` of `node.go`, which the next call overwrites, so that the
handler goes on with an empty list. The hosts are fixed while the model runs. The
list of connections is a value: that two `append`s may write the same backing
array, one entry over the other, is not modelled.

## Runs

| run | bounds | result |
|---|---|---|
| `work` | 4 requests, 2 namespaces, 2 workers | all safety properties, `IndInv`, `ImplementsBatches`, `EveryWaiterAnswered` |
| `locks` | 3 workers, 2 documents, one with a mutex | exclusion where the mutex exists, full release, no deadlock, everyone enters, exclusion in the end |
| `status_one` | 1 quota, 4 requests (one dry run), 2 workers, 2 retries, failing reads and writes, lost answers | charges exact, within limits, repeated only after a lost answer; totals are sums; no overcommitment; everybody gets a decision |
| `status_two` | 2 cluster quotas (one lock that does not exclude), 1 core quota, an update request, 1 retry, timeouts | charges exact and once |
| `status_apart` | 2 quotas, each counting one request of a batch | **violated**: `NoOvercommit` |
| `controller` | 1 quota without a status at first, 2 requests, 2 workers (symmetric), edit, relabelling, deletion | exact charges within the limit in force; totals are sums |
| `controller_live` | 1 worker, 2 requests, objects, relabelling, failing writes | the status converges; every request is answered |
| `ipam` | 2 clients (symmetric with their handles), 1 block of 3 addresses (1 reserved), 2 retries, 1 fault (a client killed, a call of a client or of the controller that fails, an answer that is lost), pool deletion | `BlockAccounts`, `HeldIsAllocated`, `ReleasesEverything`, `PoolSettled` |
| `ipam_lost` | the same without faults | **violated**: `MissingIsUnallocated` |
| `audit` | three workloads of 3 requests (see below), cache of 1, batches of 2, 1 slot | `OnceInOrder`, `TimelySenders`, `LoneLoginTruthful`, `LoneNeverPanics` |
| `audit_senders` | the same | **violated**: `SendersBounded` |
| `linstor` | 3 requests of several kinds for 1 resource on 3 nodes | `CreatedStays`, `RollsBack`, `CommandOnce`, `ConnectionsSpan` |

Why the bounds are enough. *Quotas*: a conflict takes two writers, a stale base
takes one document and a third evaluation, partial failure takes two documents,
a retry with old results takes a batch of two. `Retries` is 3 in the code and 1
or 2 here, which still runs out of retries. In `status_one` n1 asks for more
than the limit, so refusals, conflicts and retries meet. *IPAM*: two clients
conflict on a block and on its deletion; three addresses, one of them reserved,
make the renumbering of attributes matter and let the block be full; each client
releases as often as it fails, so that one fault during an assignment or a
release is followed by complete releases; the proofs allow any number of faults.
`DatastoreRetries` is 10 in the code, 2 here, so that every loop both goes round
and runs out. *Auditing*: every race of the login variables needs two requests,
and a third that meets what they left. `Races` lets a login, a second request of
any kind and an expired token interleave in full, with a worker that only
collects; `Records` follows the record of a login into batches while an expired
token changes it; `Batches` has four events for three batches, which compete for
one slot, and a cache of 1 that is full at once. The front and the back share
nothing but the cache, so that the product of the first and the third would show
nothing new. *Linstor*: three handlers of which two overlap and one comes before
or after; two targets make a partial placement possible, and with three nodes
two builders of the list can lose the one in the middle.

`controller_live` has one worker, no edits of the quota and no callers that leave:
`StatusConverges` is about objects, relabelling and failing writes, and that a
caller which leaves blocks nobody is `EveryWaiterAnswered` of `work`.

Deadlock is checked where the system never stops (`locks`, `controller_live`).
The other models stop when all requests were answered or the document or pool is
gone.

Fairness. Workers are goroutines: weak fairness of their steps. A mutex in Go is
handed to a waiter that starved for a millisecond, so acquiring one is strongly
fair. The controller requeues after `ResyncPeriod` and watches deliver: weak
fairness of reconcile steps, informer and observation. Callers and users owe
nothing; the fault actions are never fair, so a write may fail for ever.

### What the violations show

1. `status_apart`: a request refused because of one document becomes admitted
   when another document of its batch is retried, because a retry gives `nil` to
   whoever changes none of the retried documents.
2. `ipam_lost`: a block that was emptied is marked, then deleted by name.
   `findOrClaimBlock` does not look at the mark: a client that takes an address
   between the two calls holds an address of a block that is then deleted.
   `releaseByHandle` relies on the opposite. `HeldIsAllocated` therefore speaks
   of the block's incarnation.
3. `audit_senders`: a timeout of `sendEvents` gives back the slot of a `send`
   that is still posting, so that more batches are posted than
   `eventSendersNum` allows. `TimelySenders` shows that without a timeout the
   accounts are right and every `send` ends; with one, `send` blocks on `stopCh`
   for ever, and a `sendEvents` whose `send` got no slot takes somebody else's.

### What else does not hold

Found while modelling, and the reason why some properties have a condition:

- `GetLock` does not look again under the write lock: around the first use of a
  document two workers can both be in `checkQuotas` with it
  (`KnownExclusion`, `ExclusiveInTheEnd`; `Racy` in `status_two` shows that the
  comparison of versions still protects the totals).
- A request refused in the first pass can be charged by the retry and is still
  refused, and a charge whose answer is lost is repeated (`ChargeOnce` excepts
  it); the usage stays until the next reconcile.
- `UpdateQuotaStatus` can merge its usage into a status older than the version
  it replaces, reverting other namespaces' shares; totals stay right, and a
  reconcile repairs the shares (`StatusConverges`).
- Two clients that create the same block: the second gets an empty object with
  the error AlreadyExists, and `BlockName` of it dereferences nil (`CreateBlock`).
- If the answer to the Update that assigns an address is lost,
  `assignFromExistingBlock` decrements the handle although the block has the
  address (`ipam.go:248-254`). The handle may be deleted, and `ReleaseByHandle`,
  documented to release "all IP addresses that have been assigned using the
  provided handle" (`ipam.go:259-260`), then returns nil and leaves the address
  allocated for good; the pool, in use from then on, cannot be deleted.
  `ReleasesEverything` excepts these addresses (`lost`) and shows that a lost
  answer of no other call, nor a crash or a failed call anywhere, leaks one.
- Two logins at once, or a login and an expired token, are recorded with each
  other's names and outcomes (`LoneLoginTruthful` is about lone logins), and a
  second login while somebody is logged in is not recorded at all (`islogin`).
- `cacheEvent(*e)` copies the struct and not the status: an expired token that
  comes while the record of a login is still queued turns that record into
  "Logout successfully" (`types.go:154`), so that the login is not recorded and
  the logout twice. `LoneLoginTruthful` says that nothing else changes it.
- Between `types.go:452` and 488 `loginevent` has no `SourceIPs` or no
  `ResponseStatus`; the HTTP call of `getloginip` lies between. A `SendLogout` in
  that window panics. A token request that overlaps another completes and returns
  the other's event, and `LogResponseObject` of an event that is not complete
  dereferences nil at line 592 or 595, in a goroutine nobody recovers: the server
  ends. `LoneNeverPanics` says that without an overlap neither happens, whatever
  the races before left behind.
- When the worker is stopped the events of a partial batch are dropped
  (`backend.go:138-139`); `OnceInOrder` says that these are the only ones.
- Two overlapping creations of one resource, or one whose existence check fails
  with an error, roll back what the other made (`CreatedStays` is about
  creations by themselves).
- Two handlers that build `sshlist.Connects` at once overwrite each other's
  entries, and a node in the middle can be lost for good; a handler that resets
  the list while another one builds it leaves one without the first nodes. Both
  lists are used from then on (`ConnectionsSpan` says what remains: the last node
  always, the first one before a command failed).
- `handleListLvmLVs`, which lists, also runs `pvcreate` on a fixed device of the
  node `ben2` (`DiskNode`).
- `processIPPool` returns a delay to "try again later", which
  `processIPPoolItem` ignores; `PoolSettled` shows that the events of the blocks
  make up for it.

## Proofs

A theorem holds for every value of the constants that satisfies the assumption
named in the component's module; TLC evaluates the assumptions in every run. Each
proof module states an inductive invariant `IndInv`, proves that `Init` implies it
and that every action preserves it (one lemma per part or per action), and
derives the properties from it. Lemmas about sequences and sums are in `ListFacts`.

| module | theorems | assumption |
|---|---|---|
| `QuotaWorkProofs` | `Inductive`, `TypeCorrect`, `Ordered` (`InOrder`), `Exclusive` (`OneWorkerPerNamespace`), `WakesUp` (`NoLostWakeup`), `ClosesOnce` (`CloseOnce`), `Refinement` (`ImplementsBatches`) | `NsOf` maps requests to namespaces |
| `QuotaLocksProofs` | `LocksKnownExclusion`, `LocksReleasesAll`, `LocksOrderedWaiting` | `ByName` lists documents without repetition |
| `AuditingProofs` | `AuditInductive`, `AuditTypes`, `AuditOnceInOrder`, `AuditTimelySenders`, `AuditLoneLoginTruthful`, `AuditLoneNeverPanics` | no user is named "waitforchange"; the mark for a nil event is no request; cache, batches and senders have a capacity |
| `LinstorProofs` | `LinstorCreatedStays`, `LinstorRollsBack`, `LinstorCommandOnce`, `LinstorConnectionsSpan` | the hosts of the configuration are distinct; an LVM creation names a node |
| `QuotaStatusProofs` | `StatusInvariant`, `StatusTypes`, `TotalsAreSums` (`TotalIsSum`), `ChargesAreExact` (`ExactCharges`), `AdmissionsFit` (`AdmissionFits`), `ChargedOnce` (`ChargeOnce`), `EveryoneDecided` (`Decided`); with a hypothesis, see below: `DueInvariant`, `AdmittedAreCharged` (`AdmittedCharged`), `AdmittedFit` (`NoOvercommit`) | `ByName` lists the documents without repetition; requests and namespaces are finite; limits are lists of integers; what a request uses, and used before an update, is a list of integers over resources some evaluator measures |
| `QuotaControllerProofs` | `SystemInvariant`, `SystemTotalsAreSums` (`TotalIsSum`), `SystemChargesAreExact` (`ExactCharges`), `SystemAdmissionsFit` (`AdmissionFits`), `SystemChargedOnce` (`ChargeOnce`) | besides that of `QuotaStatus`: edited limits are lists of integers; relabelling selects namespaces |
| `IPAMProofs` | `IPAMInductive`, `IPAMBlockAccounts`, `IPAMHeldIsAllocated`, `IPAMReleasesEverything`, `IPAMPoolSettled` | each client has its own handle; block names are distinct; the reserved addresses do not fill a block |

**`QuotaWork`.** `InOrder` alone is not inductive: that `getWork` may delete
`dirtyWork[ns]` needs that it is empty when `ns` is not in progress, that
`completeWork` may overwrite `work[ns]` needs that it is empty when `ns` is; both
need that one worker owns a namespace, which needs that `processing` holds exactly
the owned namespaces and the queue exactly the dirty ones nobody owns. `IndInv` is
the conjunction of these (`QueueInv`, `MapInv`, `BatchInv`,
`OneWorkerPerNamespace`), of the types and of the histories (`HistoryInv`: a
request is handed in once), which `ClosesOnce` needs. The refinement maps
`pending` to `work` followed by `dirtyWork` and `current` to the batch of the
worker that owns the namespace.

**`QuotaLocks`.** A mutex is held by exactly the worker that has it in its list,
once (`HeldInv`); whoever is about to lock, or holds, a mutex of a document the
factory knew from the start has the factory's (`FactoryInv`), so that two holders
would hold the same one. What a worker still has to lock is sorted by name and
comes after what it holds (`OrderInv`); `LocksOrderedWaiting` concludes that
along "waits for the holder of" the documents waited for descend, so that no
cycle of waiting workers closes.

**`QuotaStatus`.** A running document is the version it was read from, charged
with the requests it says it is (`charging`), exactly and within its limits
(`DocInv`). `CheckBatch` is a function of the position in the batch; that it keeps
`DocInv` is an induction over that position (`LoopInv`). `Write` then needs only
that the version is still the current one: the API server compares
`resourceVersion` with the version that was checked, so the difference is right
even if `UpdateQuotaStatus` merged it into an older status, and the total stays
the sum because the same difference goes to one share. No lock is used in these
proofs: they hold with `Racy = Quotas`. `ChargeOnce` is about retries: `Open(x)` is
the set of documents a worker can still charge (the ones that failed, or are not
written yet), and every version that charges one of the batch's requests to an
open document is of a lost answer (`OnlyLost`); it also needs that batches are
disjoint, that a request is handed in once (`CallersInv`), and that no document
occurs twice among those of a worker (`Distinct`), which is why the core quotas
are kept apart from the cluster quotas. Totals are sums over finite sets; the lemmas
about them take one element out or put one in (`SumRemove`, `TotalTakes`).

`AdmittedCharged` and `NoOvercommit` are false of some configurations
(`status_apart`: a request one quota refused is admitted by a retry against
another that does not count it). `AdmittedAreCharged` and `AdmittedFit` therefore
have the hypothesis `CountedAlike`: every cluster quota has its status (`Fresh` is
empty), and a request adds something to all the cluster quotas that select its
namespace or to none of them. It is true of every configuration with one cluster
quota that has its status (`status_one`), and of several that limit the same
resources with the same scopes; core quotas
are free. `AdmittedFit` also needs that limits are not negative
(`LimitsNotNegative`): before anything is charged the total is zero. `DueInv` is
the invariant beside `IndInv`: what a request without a decision owes to a
document is either still to be charged by its worker, in a document that is open,
or was charged in some version (`OwedInv`); whoever has the result `nil` or was
admitted has been charged everywhere (`AnswersInv`). That a retry may give `nil` to a
request that changes no retried document needs that it would have changed them
all, hence `CountedAlike`, that `GetQuotas` finds every quota that selects the
namespace (`ListInv`), and that only growing requests are charged, so that two
charges in one write cannot cancel out and leave the document unwritten
(`OwedNeedsWrite`). `NoOvercommit` then follows from the history of a document by
induction over its versions: the requests charged so far add at most the usage,
which is at most the limit (`HistoryFits`); a charge that is repeated after a lost
answer only makes the usage larger than what was charged.

**`QuotaController`.** The invariant is that of `QuotaStatusProofs` with one part
more, about the status a reconcile is working on: its total is the sum of its
shares after every namespace (`SyncInv`), and again when the shares of namespaces
that left are subtracted from the total. The versions written by a reconcile, an edit or
a deletion charge nothing and come after the existing ones, so that what the
invariant says of a worker's documents, made from earlier versions, stays true
(`Grows`); a worker whose version is no longer the
current one is refused. Nothing is assumed of when a reconcile runs or of what its
informers show, which is why convergence is not among the theorems.

**`Auditing`.** `IndInv` is `FrontInv /\ BackInv`. The front says what is known of a
request at each statement (`RequestInv`), whose events others may have in hand and
that a status not yet allocated is in no event (`HeapInv`), that the request whose
event `loginevent` points to has set the event's parts once it is past the
statements that do (`LastInv`), and what the login variables and its own event are
at each place of a request that has been by itself so far (`LoneInv`). `LastInv`
gives `LoneNeverPanics`: a lone expired token finds no token request under way.
`RecordInv` is about the records that are already queued: a lone login's shares the
status its request allocated, which no other event gets (`Apart`), and which
`SendLogout` changes only through `loginevent` and only if the login succeeded
(`Kept`). The back says that the batches, what was dropped, the partial batch and
the cache are, one after the other, what was accepted (`OnceInOrder`), and that
before the first timeout the elements of `senderCh` belong to the batches being sent
(`SenderInv`). The halves meet only in the cache and in `accepted`.

**`Linstor`.** A request that is by itself finds what it made and not what it
rolled back; a resource that was made is protected by the fact that no other
creation is past its existence check (`StoreInv`). Handlers that build the list
overwrite each other, so the invariant speaks of what each of them has in hand:
until a command has failed, the list a builder has read and goes on with starts
with the first host; and when nobody builds, the list ends with the last one
(`ConnectInv`).
`CommandInv` ties the commands run to the handlers past that step.

**`IPAM`.** A client works on a copy that is several calls old. `CopyInv`: if the
copy's version is still that of the stored block, the copy is exactly what its
holder made of the stored block; a copy with another version is refused, so
nothing need be known of it. Stored blocks only evolve in the ways of `Keeps`,
which carries `HeldInv` (the address was given, and to this handle) past the steps
of others. That a release renumbers the attributes without losing one is a lemma
about ranks in a finite set of numbers (`Ranks`, `SubsequenceList`). For
`ReleasesEverything` the invariant counts: the handle's count for a block is at
least the addresses its container has there, but for those in `lost`, plus the one
it is about to take or to give up (`CountInv`), because the handle is incremented
before the block and decremented after it, with a crash, a failed call or a lost
answer possible between. The one decrement that has no release before it is that
of `GivenUp`; an Update that was refused assigned nothing, and one that was carried
out put its address into `lost`. Nobody else writes a
client's handle, so the counts cannot be overwritten. For `PoolSettled`,
`QuietInv` says that as long as no event is queued, what the controller has read
is what is stored.

Only model-checked:

- liveness (`EveryWaiterAnswered`, `EveryoneEnters`, `ExclusiveInTheEnd`,
  `AllAnswered`, `StatusConverges`): it rests on fairness, which is out of the
  prover's reach.

Neither proved nor checked:

- `AdmittedCharged` and `NoOvercommit` of `QuotaController`: no run checks them
  there. A reconcile counts the objects its informers show and so erases the charge
  of a request that was admitted and is not stored yet.

## Not modelled

| part | source | why |
|---|---|---|
| Calico provider, `processNS`, pool validation | `pkg/simple/client/network/ippool/calico`, `ippool_controller.go` | another API behind the same controller; label bookkeeping; checks of one object against listers |
| events about auditing itself | `pkg/apiserver/auditing/types.go` | further calls of `cacheEvent` with fixed texts |
| nodes, storage pools, listings | `pkg/models/versatel` | single remote calls; formatting |
| cache client, tokens, OAuth | `pkg/simple/client/cache`, `pkg/models/auth` | single accesses of a store; the in-memory one is for tests |
| user, login record, workspace, namespace, role, cluster, helm controllers | `pkg/controller/*` | level-triggered reconcilers, mostly of labels and references; candidates for a common module |
| request filters, dispatch, RBAC | `pkg/apiserver` | stateless or pure over listers |
| tenant, DevOps, monitoring, logging | `pkg/models`, `pkg/kapis` | translate calls to other services and keep no state |
| vplx | `vplx/` | scripts, output parsing |
| generated clients, deep copies, OpenAPI, CRD types, vendored code | `pkg/client`, `staging`, `vendor` | no logic of this program (the work queue and the block types excepted); they are most of the repository's lines, which is why the map covers a small share of them |

## Plan

1. Done: batching, locks, charging with lost answers, controller, IPAM with the
   pool controller, audit events, LINSTOR; proofs of all their safety properties,
   of `AdmittedCharged` and `NoOvercommit` where they hold.
2. Later: a bound of what the controller can erase (the requests admitted and not
   yet observed), which would give `NoOvercommit` a form that is true with it; a
   common module of the level-triggered reconcilers.
