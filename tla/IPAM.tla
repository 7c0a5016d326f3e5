-------------------------------- MODULE IPAM --------------------------------
(***************************************************************************)
(* IP address management: AutoAssign and ReleaseByHandle of                *)
(* pkg/simple/client/network/ippool/ipam/ipam.go, run by any number of     *)
(* clients at once, and the pool controller (processIPPool of              *)
(* pkg/controller/network/ippool with the local provider), which reports   *)
(* the use of a pool and removes a pool that is being deleted.             *)
(*                                                                         *)
(* The clients share nothing but two kinds of API objects: the blocks of   *)
(* the pool, each with its free ordinals and the handles that have the     *)
(* others, and for every handle an object that counts its addresses per    *)
(* block.  Every call of the API is a step.  An update carries the         *)
(* resourceVersion of the copy it was made from and is refused unless that *)
(* is current; a deletion goes by name only.                               *)
(***************************************************************************)
EXTENDS Lists, SequencesExt, FiniteSetsExt

CONSTANTS
  Clients,            \* processes that assign and release addresses
  Handles,
  HandleOf,           \* HandleOf[c]: the HandleID of c, its container's own ID
  Blocks,             \* the blocks of the pool, as blockGenerator lists them
  Size,               \* NumAddresses of a block
  ReservedStart,      \* addresses reserved at the start of a block (VLAN pools)
  ReservedEnd,        \* and at its end
  DatastoreRetries,   \* datastoreRetries (10 in the code)
  MaxFaults           \* bound: how often a process is killed, a call of one fails
                      \* or the answer to one is lost

ASSUME IPAMAssumption ==
  /\ HandleOf \in [Clients -> Handles] /\ IsInjective(HandleOf)
  /\ {"reserved", "nobody"} \cap Handles = {}
  /\ Blocks \in Seq(ToSet(Blocks)) /\ IsInjective(Blocks)
  /\ Size \in Nat /\ ReservedStart \in Nat /\ ReservedEnd \in Nat
  /\ ReservedStart + ReservedEnd < Size
  /\ DatastoreRetries \in Nat \ {0} /\ MaxFaults \in Nat

VARIABLES
  blocks,    \* blocks[b]: the IPAMBlock object of b
  handles,   \* handles[h]: the IPAMHandle object of h
  pool,      \* the IPPool object
  client,    \* client[c]: the local state of client c
  ctrl,      \* the local state of the pool controller
  queued,    \* the pool's name is in ippoolQueue
  faults

poolVars == <<pool, ctrl>>
vars == <<blocks, handles, poolVars, client, queued, faults>>

BlockNames == ToSet(Blocks)
Ordinals == 0..(Size - 1)

-----------------------------------------------------------------------------
(* Blocks.  alloc[o] is the index of the attribute (handle) that has o, or   *)
(* 0; free is Unallocated; born tells incarnations of one name apart.        *)

NoBlock ==
  [exists |-> FALSE, rv |-> 0, born |-> 0, deleted |-> FALSE, attrs |-> <<>>,
   alloc |-> [o \in Ordinals |-> 0], free |-> <<>>]

Reserved == {o \in Ordinals : o < ReservedStart \/ o >= Size - ReservedEnd}

\* NewBlock, created where rv was the last version under that name.
NewBlock(rv) ==
  [exists |-> TRUE, rv |-> rv + 1, born |-> rv + 1, deleted |-> FALSE,
   attrs |-> IF Reserved = {} THEN <<>> ELSE <<"reserved">>,
   alloc |-> [o \in Ordinals |-> IF o \in Reserved THEN 1 ELSE 0],
   free |-> Ascending(Ordinals \ Reserved)]

\* The handle that has ordinal o of block v.
Owner(v, o) == IF v.alloc[o] = 0 THEN "nobody" ELSE v.attrs[v.alloc[o]]

\* Empty: no address but the reserved ones is in use.
Empty(v) == \A o \in Ordinals : Owner(v, o) \in {"nobody", "reserved"}

\* findOrAddAttribute
AttributeIndex(attrs, h) ==
  IF h \in ToSet(attrs) THEN Min({i \in DOMAIN attrs : attrs[i] = h})
  ELSE Len(attrs) + 1

\* IPAMBlock.AutoAssign of one address: the first free ordinal.
AssignFirst(v, h) ==
  LET i == AttributeIndex(v.attrs, h) IN
  [v EXCEPT !.free = Tail(@), !.alloc[Head(v.free)] = i,
            !.attrs = IF i > Len(@) THEN Append(@, h) ELSE @]

OrdinalsOf(v, h) == {o \in Ordinals : Owner(v, o) = h}

\* The attributes of v that belong to others than h.
Others(v, h) == {i \in DOMAIN v.attrs : v.attrs[i] # h}

\* Mutant of FreeHandle: every index is lowered by the attributes removed.
FreeHandleShiftsAll(v, h) ==
  LET removed == Len(v.attrs) - Cardinality(Others(v, h)) IN
  [v EXCEPT
     !.attrs = Subsequence(@, Others(v, h)),
     !.alloc = [o \in Ordinals |-> IF o \in OrdinalsOf(v, h) \/ @[o] = 0 THEN 0
                                   ELSE @[o] - removed],
     !.free = @ \o Ascending(OrdinalsOf(v, h))]

\* IPAMBlock.ReleaseByHandle: the handle's attributes are removed, those that
\* stay are renumbered (deleteAttributes), its ordinals are free again.
FreeHandle(v, h) ==
  [v EXCEPT
     !.attrs = Subsequence(@, Others(v, h)),
     !.alloc = [o \in Ordinals |-> IF o \in OrdinalsOf(v, h) \/ @[o] = 0 THEN 0
                                   ELSE Rank(Others(v, h), @[o])],
     !.free = @ \o Ascending(OrdinalsOf(v, h))]

-----------------------------------------------------------------------------
(* The API server.                                                           *)

NoHandle ==
  [exists |-> FALSE, rv |-> 0, deleted |-> FALSE,
   count |-> [b \in BlockNames |-> 0]]

Current(obj, copy) == obj.exists /\ obj.rv = copy.rv

\* A Create of what was not found, or an Update of what was, succeeds.
Accepted(obj, copy) == IF copy.exists THEN Current(obj, copy) ELSE ~obj.exists

\* What Update stores, and what is left of a name after Delete.
Stored(copy) == [copy EXCEPT !.rv = @ + 1]
Gone(none, obj) == [none EXCEPT !.rv = obj.rv]

\* Mutant of PutBlock: the controller does not watch the blocks.
PutBlockUnwatched(b, v) == blocks' = [blocks EXCEPT ![b] = v] /\ UNCHANGED queued

\* Blocks are watched by the pool controller: a change queues the pool.
PutBlock(b, v) == blocks' = [blocks EXCEPT ![b] = v] /\ queued' = TRUE
PutHandle(h, v) == handles' = [handles EXCEPT ![h] = v]

\* ListBlocks, in the order of names.
Listed == Subsequence(Blocks, {n \in DOMAIN Blocks : blocks[Blocks[n]].exists})

-----------------------------------------------------------------------------
(* Clients.  state is what the caller knows; the rest is the stack of the    *)
(* call: tries counts AutoAssign's loop, i autoAssign's or releaseByHandle's *)
(* and k the one over a handle; b and v are a block's name and a copy of it, *)
(* o the ordinal that was assigned in the copy, hdl a copy of the handle;    *)
(* then says what the running helper is for.  lost is a history of the       *)
(* addresses that were assigned by an Update whose answer never came.        *)

Rest ==
  [pc |-> "idle", tries |-> 0, i |-> 0, k |-> 0, b |-> "", v |-> NoBlock,
   o |-> 0, hdl |-> NoHandle, then |-> "", num |-> 0, todo |-> {}]

\* A pool that was just created; allocations is -1 until it has a status.
NewPool ==
  [exists |-> TRUE, rv |-> 1, finalizer |-> FALSE, deleting |-> FALSE,
   disabled |-> FALSE, allocations |-> -1]

\* The controller's worker: the pool as it read it, the utilization it counted
\* and the blocks it has still to delete.
Waiting == [pc |-> "idle", pool |-> NewPool, used |-> 0, todo |-> <<>>]

Init ==
  /\ blocks = [b \in BlockNames |-> NoBlock]
  /\ handles = [h \in Handles |-> NoHandle]
  /\ pool = NewPool
  /\ client = [c \in Clients |->
                 [state |-> "new", addr |-> <<>>, at |-> Rest, lost |-> {}]]
  /\ ctrl = Waiting
  /\ queued = TRUE
  /\ faults = 0

At(c) == client[c].at
Lost(c) == client[c].lost
Goto(c, r) == client' = [client EXCEPT ![c].at = r]
Finish(c, s) ==
  client' = [client EXCEPT ![c].at = Rest, ![c].state = s, ![c].addr = <<>>]

\* AutoAssign goes round its loop, or returns ErrMaxRetry.
Again(c) ==
  IF At(c).tries < DatastoreRetries
  THEN Goto(c, [Rest EXCEPT !.pc = "pool", !.tries = At(c).tries + 1])
  ELSE Finish(c, "failed")

\* AutoAssign reads the pool: one that is gone or disabled is refused.
AutoAssign(c) ==
  /\ \/ client[c].state = "new"
     \/ At(c).pc = "pool"
  /\ IF pool.exists /\ ~pool.disabled
     THEN client' = [client EXCEPT ![c].state = "assigning",
                       ![c].at = [At(c) EXCEPT !.pc = "list",
                                    !.tries = IF @ = 0 THEN 1 ELSE @]]
     ELSE Finish(c, "failed")
  /\ UNCHANGED <<blocks, handles, poolVars, queued, faults>>

\* assignFromExistingBlock up to incrementHandle, on copy v of block b.
Assign(c, b, v, i) ==
  IF v.free = <<>> THEN Again(c)
  ELSE Goto(c, [At(c) EXCEPT !.pc = "handle", !.then = "increment", !.k = 1,
                  !.b = b, !.i = i, !.num = 1, !.o = Head(v.free),
                  !.v = AssignFirst(v, HandleOf[c])])

\* findOrClaimBlock: the first block that has a free address ...
FindBlock(c) ==
  LET fits == {n \in DOMAIN Listed : blocks[Listed[n]].free # <<>>}
      b == Listed[Min(fits)]
  IN
  /\ At(c).pc = "list"
  /\ IF fits = {} THEN Goto(c, [At(c) EXCEPT !.pc = "find"])
     ELSE Assign(c, b, blocks[b], 1)
  /\ UNCHANGED <<blocks, handles, poolVars, queued, faults>>

\* ... or the first one that does not exist (findUnclaimedBlock) ...
FindUnclaimedBlock(c) ==
  LET unclaimed == {n \in DOMAIN Blocks : ~blocks[Blocks[n]].exists} IN
  /\ At(c).pc = "find"
  /\ IF unclaimed = {} THEN Finish(c, "failed")
     ELSE Goto(c, [At(c) EXCEPT !.pc = "create", !.b = Blocks[Min(unclaimed)]])
  /\ UNCHANGED <<blocks, handles, poolVars, queued, faults>>

\* ... which is created.  If another client was faster, Create returns an
\* empty block with AlreadyExists, whose BlockName dereferences nil.
CreateBlock(c) ==
  LET b == At(c).b
      new == NewBlock(blocks[b].rv)
  IN
  /\ At(c).pc = "create"
  /\ IF blocks[b].exists
     THEN Finish(c, "panicked") /\ UNCHANGED <<blocks, queued>>
     ELSE Assign(c, b, new, 1) /\ PutBlock(b, new)
  /\ UNCHANGED <<handles, poolVars, faults>>

-----------------------------------------------------------------------------
(* queryBlock and queryHandle.                                               *)

\* ReleaseByHandle goes on with the blocks todo, in any order (a Go map).
Release(c, todo) ==
  IF todo = {} THEN Finish(c, "released")
  ELSE \E b \in todo :
         client' = [client EXCEPT ![c].state = "releasing", ![c].addr = <<>>,
                      ![c].at = [Rest EXCEPT !.pc = "query", !.then = "release",
                                             !.todo = todo, !.b = b, !.i = 1]]

\* releaseByHandle is done with its block.
NextBlock(c) == Release(c, At(c).todo \ {At(c).b})

\* queryBlock returns NotFound.
BlockMissing(c) ==
  IF At(c).then = "release" THEN NextBlock(c) ELSE Again(c)

\* What the caller of queryBlock does with the block.
BlockFound(c, v) ==
  LET freed == FreeHandle(v, HandleOf[c])
      num == Cardinality(OrdinalsOf(v, HandleOf[c]))
  IN
  CASE At(c).then = "reassign" ->
         IF At(c).i < DatastoreRetries THEN Assign(c, At(c).b, v, At(c).i + 1)
         ELSE Again(c)
    [] OTHER ->
         IF num = 0 THEN NextBlock(c)
         ELSE Goto(c, [At(c) EXCEPT !.pc = "free", !.num = num,
                         !.v = [freed EXCEPT !.deleted = Empty(freed)]])

QueryBlock(c) ==
  LET v == blocks[At(c).b] IN
  /\ At(c).pc = "query"
  /\ CASE ~v.exists -> BlockMissing(c)
       [] v.exists /\ v.deleted -> Goto(c, [At(c) EXCEPT !.pc = "reap"])
       [] OTHER -> BlockFound(c, v)
  /\ UNCHANGED <<blocks, handles, poolVars, queued, faults>>

\* A block that is marked deleted is deleted, by its name, and not found.  (If
\* it is gone already the error is NotFound as well.)
ReapBlock(c) ==
  LET b == At(c).b IN
  /\ At(c).pc = "reap"
  /\ IF blocks[b].exists THEN PutBlock(b, Gone(NoBlock, blocks[b]))
     ELSE UNCHANGED <<blocks, queued>>
  /\ BlockMissing(c)
  /\ UNCHANGED <<handles, poolVars, faults>>

\* decrementHandle is done, well or not, and its caller goes on.
Decremented(c) ==
  CASE At(c).then = "release" -> NextBlock(c)
    [] At(c).then = "reassign" ->
         Goto(c, [At(c) EXCEPT !.pc = "query", !.k = 0, !.hdl = NoHandle])
    [] OTHER -> Again(c)

\* queryHandle returns NotFound: incrementHandle creates the handle,
\* ReleaseByHandle has nothing to do.
HandleMissing(c) ==
  CASE At(c).then = "increment" ->
         Goto(c, [At(c) EXCEPT !.pc = "count", !.hdl = NoHandle])
    [] At(c).then = "start" -> Finish(c, "released")
    [] OTHER -> Decremented(c)

\* queryHandle finds it.
HandleFound(c, hdl) ==
  CASE At(c).then = "increment" ->
         Goto(c, [At(c) EXCEPT !.pc = "count", !.hdl = hdl])
    [] OTHER ->
         IF hdl.count[At(c).b] < At(c).num THEN Decremented(c)
         ELSE Goto(c, [At(c) EXCEPT !.pc = "uncount", !.hdl = hdl])

QueryHandle(c) ==
  LET hdl == handles[HandleOf[c]] IN
  /\ At(c).pc = "handle"
  /\ CASE ~hdl.exists -> HandleMissing(c)
       [] hdl.exists /\ hdl.deleted -> Goto(c, [At(c) EXCEPT !.pc = "reapHandle"])
       [] OTHER -> HandleFound(c, hdl)
  /\ UNCHANGED <<blocks, handles, poolVars, queued, faults>>

ReapHandle(c) ==
  LET h == HandleOf[c] IN
  /\ At(c).pc = "reapHandle"
  /\ IF handles[h].exists THEN PutHandle(h, Gone(NoHandle, handles[h]))
     ELSE UNCHANGED handles
  /\ HandleMissing(c)
  /\ UNCHANGED <<blocks, poolVars, queued, faults>>

-----------------------------------------------------------------------------
(* The writes of assignFromExistingBlock.                                    *)

\* The loop over a handle goes round, or its caller gets ErrMaxRetry.
HandleConflict(c, exhausted) ==
  IF At(c).k < DatastoreRetries
  THEN Goto(c, [At(c) EXCEPT !.pc = "handle", !.k = @ + 1, !.hdl = NoHandle])
  ELSE exhausted

\* The handle with one more address in the block, as Create or Update stores it.
More(c) ==
  LET more == [At(c).hdl EXCEPT !.count[At(c).b] = @ + 1] IN
  IF more.exists THEN Stored(more)
  ELSE [more EXCEPT !.exists = TRUE, !.rv = handles[HandleOf[c]].rv + 1]

\* incrementHandle creates the handle, or updates the one it found.
IncrementHandle(c) ==
  LET hdl == At(c).hdl
      h == HandleOf[c]
  IN
  /\ At(c).pc = "count"
  /\ CASE Accepted(handles[h], hdl) ->
            /\ PutHandle(h, More(c))
            /\ Goto(c, [At(c) EXCEPT !.pc = "block", !.hdl = NoHandle])
       [] hdl.exists /\ ~handles[h].exists -> Again(c) /\ UNCHANGED handles
       [] OTHER -> HandleConflict(c, Again(c)) /\ UNCHANGED handles
  /\ UNCHANGED <<blocks, poolVars, queued, faults>>

\* Mutant of UpdateBlock: the update is not conditional.
UpdateBlockAnyway(c) ==
  LET b == At(c).b IN
  /\ At(c).pc = "block"
  /\ IF blocks[b].exists
     THEN /\ PutBlock(b, [At(c).v EXCEPT !.rv = blocks[b].rv + 1])
          /\ client' = [client EXCEPT ![c].at = Rest, ![c].state = "held",
                          ![c].addr = <<b, At(c).v.born, At(c).o>>]
     ELSE /\ Goto(c, [At(c) EXCEPT !.pc = "handle", !.k = 1, !.then = "failed"])
          /\ UNCHANGED <<blocks, queued>>
  /\ UNCHANGED <<handles, poolVars, faults>>

\* Update of the block: the address is assigned.  Otherwise the handle is
\* decremented, and a conflict is tried again with a new copy.
UpdateBlock(c) ==
  LET b == At(c).b IN
  /\ At(c).pc = "block"
  /\ IF Current(blocks[b], At(c).v)
     THEN /\ PutBlock(b, Stored(At(c).v))
          /\ client' = [client EXCEPT ![c].at = Rest, ![c].state = "held",
                          ![c].addr = <<b, At(c).v.born, At(c).o>>]
     ELSE /\ Goto(c, [At(c) EXCEPT !.pc = "handle", !.k = 1, !.v = NoBlock, !.o = 0,
                        !.then = IF blocks[b].exists THEN "reassign"
                                 ELSE "failed"])
          /\ UNCHANGED <<blocks, queued>>
  /\ UNCHANGED <<handles, poolVars, faults>>

\* The handle without the addresses, as Update stores it: marked when it is empty.
Less(c) ==
  LET less == [At(c).hdl EXCEPT !.count[At(c).b] = @ - At(c).num] IN
  Stored([less EXCEPT !.deleted = \A b \in BlockNames : less.count[b] = 0])

\* decrementHandle updates the handle; one that is marked is deleted next.
DecrementHandle(c) ==
  LET h == HandleOf[c] IN
  /\ At(c).pc = "uncount"
  /\ CASE Current(handles[h], At(c).hdl) ->
            /\ PutHandle(h, Less(c))
            /\ IF Less(c).deleted THEN Goto(c, [At(c) EXCEPT !.pc = "drop"])
               ELSE Decremented(c)
       [] ~handles[h].exists -> Decremented(c) /\ UNCHANGED handles
       [] OTHER -> HandleConflict(c, Decremented(c)) /\ UNCHANGED handles
  /\ UNCHANGED <<blocks, poolVars, queued, faults>>

\* deleteHandle deletes by name; NotFound is no error.
DropHandle(c) ==
  LET h == HandleOf[c] IN
  /\ At(c).pc = "drop"
  /\ PutHandle(h, Gone(NoHandle, handles[h]))
  /\ Decremented(c)
  /\ UNCHANGED <<blocks, poolVars, queued, faults>>

-----------------------------------------------------------------------------
(* ReleaseByHandle.                                                          *)

\* The container is gone: its addresses are given back, whatever became of the
\* assignment or of an earlier release.
ReleaseByHandle(c) ==
  LET hdl == handles[HandleOf[c]] IN
  /\ client[c].state \in {"held", "failed", "crashed", "panicked", "not released"}
  /\ CASE ~hdl.exists -> Finish(c, "released")
       [] hdl.exists /\ hdl.deleted ->
            client' = [client EXCEPT ![c].state = "releasing",
                         ![c].at = [Rest EXCEPT !.pc = "reapHandle",
                                                !.then = "start"]]
       [] OTHER -> Release(c, {b \in BlockNames : hdl.count[b] > 0})
  /\ UNCHANGED <<blocks, handles, poolVars, queued, faults>>

\* Mutant of FreeAddresses: a conflict counts as success.
FreeAddressesOnce(c) ==
  LET b == At(c).b IN
  /\ At(c).pc = "free"
  /\ IF Current(blocks[b], At(c).v)
     THEN /\ PutBlock(b, Stored(At(c).v))
          /\ Goto(c, [At(c) EXCEPT !.k = 1, !.v = NoBlock,
                        !.pc = IF At(c).v.deleted THEN "drop block" ELSE "handle"])
     ELSE /\ Goto(c, [At(c) EXCEPT !.pc = "handle", !.k = 1, !.v = NoBlock])
          /\ UNCHANGED <<blocks, queued>>
  /\ UNCHANGED <<handles, poolVars, faults>>

\* Update of the block without the handle's addresses; an empty block is marked
\* deleted by the same update.  A conflict is tried again; a block that is gone
\* is an error, unless it was to be deleted.
FreeAddresses(c) ==
  LET b == At(c).b
      v == At(c).v
  IN
  /\ At(c).pc = "free"
  /\ IF Current(blocks[b], v)
     THEN /\ PutBlock(b, Stored(v))
          /\ Goto(c, [At(c) EXCEPT !.k = 1, !.v = NoBlock,
                        !.pc = IF v.deleted THEN "drop block" ELSE "handle"])
     ELSE /\ CASE blocks[b].exists /\ At(c).i < DatastoreRetries ->
                    Goto(c, [At(c) EXCEPT !.pc = "query", !.i = @ + 1, !.num = 0,
                                          !.v = NoBlock])
               [] ~blocks[b].exists /\ v.deleted ->
                    Goto(c, [At(c) EXCEPT !.pc = "handle", !.k = 1, !.v = NoBlock])
               [] OTHER -> Finish(c, "not released")
          /\ UNCHANGED <<blocks, queued>>
  /\ UNCHANGED <<handles, poolVars, faults>>

\* DeleteBlock deletes by name; NotFound is no error.
DropBlock(c) ==
  LET b == At(c).b IN
  /\ At(c).pc = "drop block"
  /\ IF blocks[b].exists THEN PutBlock(b, Gone(NoBlock, blocks[b]))
     ELSE UNCHANGED <<blocks, queued>>
  /\ Goto(c, [At(c) EXCEPT !.pc = "handle"])
  /\ UNCHANGED <<handles, poolVars, faults>>

-----------------------------------------------------------------------------
(* What can go wrong with a client: it is killed, a call of it fails, or the *)
(* server carries a call out and the answer is lost, which is the same error *)
(* to the client.                                                            *)

Fault == faults < MaxFaults /\ faults' = faults + 1

\* A client is killed between two calls.
Crash(c) ==
  /\ At(c).pc # "idle"
  /\ Fault
  /\ Finish(c, "crashed")
  /\ UNCHANGED <<blocks, handles, poolVars, queued>>

\* assignFromExistingBlock after any other error of its Update: the handle is
\* decremented, and AutoAssign goes round.
GivenUp(c) ==
  [At(c) EXCEPT !.pc = "handle", !.k = 1, !.v = NoBlock, !.o = 0, !.then = "failed"]

\* What the caller makes of an error that is neither a conflict nor NotFound.
Failed(c) ==
  LET pc == At(c).pc
      assigning == \/ pc \in {"list", "find", "create", "count"}
                   \/ pc \in {"handle", "reapHandle"} /\ At(c).then = "increment"
                   \/ pc \in {"query", "reap"} /\ At(c).then = "reassign"
      releasing == \/ pc \in {"idle", "query", "reap", "free", "drop block"}
                   \/ At(c).then = "start"
  IN
  CASE pc = "pool" \/ client[c].state = "new" -> Finish(c, "failed")
    [] pc = "block" -> Goto(c, GivenUp(c))
    [] assigning -> Again(c)
    [] releasing /\ ~assigning /\ client[c].state # "new" ->
         Finish(c, "not released")
    [] OTHER -> Decremented(c)

\* A call fails and changes nothing.
CallFails(c) ==
  /\ client[c].state # "released"
  /\ Fault
  /\ Failed(c)
  /\ UNCHANGED <<blocks, handles, poolVars, queued>>

\* Create, Update or Delete of a block is carried out, and its answer is lost.
BlockAnswerLost(c) ==
  LET b == At(c).b
      v == At(c).v
      pc == At(c).pc
  IN
  /\ \/ /\ pc = "create" /\ ~blocks[b].exists
        /\ PutBlock(b, NewBlock(blocks[b].rv))
     \/ /\ pc = "free" /\ Current(blocks[b], v)
        /\ PutBlock(b, Stored(v))
     \/ /\ pc \in {"reap", "drop block"} /\ blocks[b].exists
        /\ PutBlock(b, Gone(NoBlock, blocks[b]))
  /\ Fault
  /\ Failed(c)
  /\ UNCHANGED <<handles, poolVars>>

\* The same of a handle.
HandleAnswerLost(c) ==
  LET h == HandleOf[c]
      pc == At(c).pc
  IN
  /\ \/ /\ pc = "count" /\ Accepted(handles[h], At(c).hdl)
        /\ PutHandle(h, More(c))
     \/ /\ pc = "uncount" /\ Current(handles[h], At(c).hdl)
        /\ PutHandle(h, Less(c))
     \/ /\ pc \in {"reapHandle", "drop"} /\ handles[h].exists
        /\ PutHandle(h, Gone(NoHandle, handles[h]))
  /\ Fault
  /\ Failed(c)
  /\ UNCHANGED <<blocks, poolVars, queued>>

\* The Update that assigns an address is carried out, and its answer is lost: the
\* block has the address, but assignFromExistingBlock decrements the handle.
AssignmentLost(c) ==
  LET b == At(c).b
      v == At(c).v
  IN
  /\ At(c).pc = "block" /\ Current(blocks[b], v)
  /\ PutBlock(b, Stored(v))
  /\ Fault
  /\ client' = [client EXCEPT ![c].at = GivenUp(c),
                               ![c].lost = @ \cup {<<b, v.born, At(c).o>>}]
  /\ UNCHANGED <<handles, poolVars>>

-----------------------------------------------------------------------------
(* The pool: its users, and processIPPool.                                   *)

\* A change of the pool queues it (enqueueIPPools).
StorePool(v) == pool' = Stored(v) /\ queued' = TRUE

\* Deletion is requested; the webhook (ValidateDelete) looks at the status.  A
\* pool without the finalizer is gone at once.
DeletePool ==
  /\ pool.exists /\ ~pool.deleting /\ pool.allocations <= 0
  /\ StorePool([pool EXCEPT !.deleting = TRUE, !.exists = pool.finalizer])
  /\ UNCHANGED <<blocks, handles, client, ctrl, faults>>

Step(pc) == ctrl' = [ctrl EXCEPT !.pc = pc]

\* processIPPoolItem: success forgets the key (a delay is ignored then), an
\* error puts it back into the queue.
Done == ctrl' = Waiting
Retry == ctrl' = Waiting /\ queued' = TRUE

\* The worker takes the pool and reads it.  (The informer may be behind: its
\* copy would be refused by the updates below and the pool queued again.)
ProcessPool ==
  /\ ctrl.pc = "idle" /\ queued
  /\ queued' = FALSE
  /\ ctrl' = IF ~pool.exists THEN ctrl
             ELSE [Waiting EXCEPT
                     !.pool = pool,
                     !.pc = CASE pool.deleting -> "disable"
                              [] ~pool.deleting /\ ~pool.finalizer -> "protect"
                              [] OTHER -> "stats"]
  /\ UNCHANGED <<blocks, handles, pool, client, faults>>

\* An Update of the pool from the copy that was read.  The copy keeps its
\* resourceVersion, so that a second update in one attempt is refused.
UpdatePool(new, then) ==
  IF Current(pool, ctrl.pool) THEN StorePool(new) /\ then
  ELSE Retry /\ UNCHANGED pool

AddFinalizer ==
  /\ ctrl.pc = "protect"
  /\ UpdatePool([ctrl.pool EXCEPT !.finalizer = TRUE], Step("stats"))
  /\ UNCHANGED <<blocks, handles, client, faults>>

\* GetUtilization: the addresses of the pool's blocks that are in use.
Allocated(bs) ==
  LET used(b) == Size - Len(bs[b].free) - Cardinality(OrdinalsOf(bs[b], "reserved"))
  IN  MapThenSumSet(used, {b \in BlockNames : bs[b].exists})

\* updateIPPoolStatus counts the addresses (an error if the pool is gone) ...
GetIPPoolStats ==
  /\ ctrl.pc = "stats"
  /\ IF pool.exists
     THEN ctrl' = [ctrl EXCEPT !.pc = "status", !.used = Allocated(blocks)] /\ UNCHANGED queued
     ELSE Retry
  /\ UNCHANGED <<blocks, handles, pool, client, faults>>

\* ... and writes a status that changed.
UpdateStatus ==
  /\ ctrl.pc = "status"
  /\ IF ctrl.pool.allocations = ctrl.used THEN Done /\ UNCHANGED <<pool, queued>>
     ELSE UpdatePool([ctrl.pool EXCEPT !.allocations = ctrl.used], Done)
  /\ UNCHANGED <<blocks, handles, client, faults>>

\* A pool that is to be deleted is disabled first.
DisablePool ==
  /\ ctrl.pc = "disable"
  /\ IF ctrl.pool.disabled THEN Step("list") /\ UNCHANGED <<pool, queued>>
     ELSE UpdatePool([ctrl.pool EXCEPT !.disabled = TRUE], Step("list"))
  /\ UNCHANGED <<blocks, handles, client, faults>>

\* DeleteIPPool lists the blocks ...
ListPoolBlocks ==
  /\ ctrl.pc = "list"
  /\ ctrl' = [ctrl EXCEPT !.pc = "walk",
                !.todo = [n \in DOMAIN Listed |->
                            [b |-> Listed[n], v |-> blocks[Listed[n]]]]]
  /\ UNCHANGED <<blocks, handles, pool, client, queued, faults>>

\* ... and marks the empty ones.  A block in use ends the attempt: the status
\* is updated, and nothing puts the pool back into the queue.
MarkPoolBlock ==
  LET b == Head(ctrl.todo).b
      v == Head(ctrl.todo).v
  IN
  /\ ctrl.pc = "walk" /\ ctrl.todo # <<>>
  /\ CASE ~Empty(v) -> Step("stats") /\ UNCHANGED <<blocks, queued>>
       [] Empty(v) /\ v.deleted -> Step("drop") /\ UNCHANGED <<blocks, queued>>
       [] Empty(v) /\ ~v.deleted /\ Current(blocks[b], v) ->
            PutBlock(b, Stored([v EXCEPT !.deleted = TRUE])) /\ Step("drop")
       [] OTHER -> Retry /\ UNCHANGED blocks
  /\ UNCHANGED <<handles, pool, client, faults>>

\* DeleteBlock's second call; here NotFound is an error.
DropPoolBlock ==
  LET b == Head(ctrl.todo).b IN
  /\ ctrl.pc = "drop"
  /\ IF blocks[b].exists
     THEN /\ PutBlock(b, Gone(NoBlock, blocks[b]))
          /\ ctrl' = [ctrl EXCEPT !.pc = "walk", !.todo = Tail(@)]
     ELSE Retry /\ UNCHANGED blocks
  /\ UNCHANGED <<handles, pool, client, faults>>

\* removeFinalizer: the pool is gone.
RemoveFinalizer ==
  /\ ctrl.pc = "walk" /\ ctrl.todo = <<>>
  /\ UpdatePool([ctrl.pool EXCEPT !.exists = FALSE], Done)
  /\ UNCHANGED <<blocks, handles, client, faults>>

\* A call of the controller fails, its answer is lost (after the step that is the
\* call) or it is restarted: the pool is queued again.
ControllerFails ==
  /\ ctrl.pc # "idle"
  /\ Fault
  /\ Retry
  /\ UNCHANGED <<blocks, handles, pool, client>>

\* The garbage collector deletes the blocks a pool that is gone owns.
CollectBlock(b) ==
  /\ ~pool.exists /\ blocks[b].exists
  /\ PutBlock(b, Gone(NoBlock, blocks[b]))
  /\ UNCHANGED <<handles, poolVars, client, faults>>

-----------------------------------------------------------------------------
\* The calls of a client that is in AutoAssign or ReleaseByHandle.
ClientStep(c) ==
  \/ FindBlock(c) \/ FindUnclaimedBlock(c) \/ CreateBlock(c)
  \/ QueryBlock(c) \/ ReapBlock(c) \/ QueryHandle(c) \/ ReapHandle(c)
  \/ IncrementHandle(c) \/ UpdateBlock(c) \/ DecrementHandle(c) \/ DropHandle(c)
  \/ FreeAddresses(c) \/ DropBlock(c)

ControllerStep ==
  \/ ProcessPool \/ AddFinalizer \/ GetIPPoolStats \/ UpdateStatus
  \/ DisablePool \/ ListPoolBlocks \/ MarkPoolBlock \/ DropPoolBlock
  \/ RemoveFinalizer \/ ControllerFails

ClientFault(c) ==
  \/ Crash(c) \/ CallFails(c)
  \/ BlockAnswerLost(c) \/ HandleAnswerLost(c) \/ AssignmentLost(c)

Next ==
  \/ \E c \in Clients :
       AutoAssign(c) \/ ReleaseByHandle(c) \/ ClientStep(c) \/ ClientFault(c)
  \/ DeletePool \/ ControllerStep
  \/ \E b \in BlockNames : CollectBlock(b)

Spec == Init /\ [][Next]_vars
-----------------------------------------------------------------------------
\* Block v accounts for its ordinals.
Accounts(v) ==
  /\ IsInjective(v.free)
  /\ \A o \in Ordinals : /\ v.alloc[o] \in 0..Len(v.attrs)
                         /\ o \in ToSet(v.free) <=> v.alloc[o] = 0

(***************************************************************************)
(* Every stored block accounts for each of its ordinals exactly once: it   *)
(* is free, once, or an existing attribute has it.  The renumbering of     *)
(* deleteAttributes, conflicts, clients that die and answers that are lost *)
(* leave no ordinal that is lost or doubly free, or whose attribute is not *)
(* there.                                                                  *)
(***************************************************************************)
BlockAccounts == \A b \in BlockNames : blocks[b].exists => Accounts(blocks[b])

(***************************************************************************)
(* An address AutoAssign returned stays with its handle, and with no other *)
(* handle, as long as the block it was taken from is there: whatever the   *)
(* other clients assign and release, and whatever copies they made before. *)
(***************************************************************************)
HeldIsAllocated ==
  \A c \in Clients : client[c].state = "held" =>
    LET v == blocks[client[c].addr[1]] IN
    v.exists /\ v.born = client[c].addr[2] =>
      Owner(v, client[c].addr[3]) = HandleOf[c]

\* The addresses of client c in block b, but for those it was never told of.
Known(b, v, h, lost) == {o \in OrdinalsOf(v, h) : <<b, v.born, o>> \notin lost}

(***************************************************************************)
(* When ReleaseByHandle returns without an error no block has an address   *)
(* of the handle any more but one whose assignment was carried out while   *)
(* its answer was lost; even if the assignment, or an earlier release, was *)
(* cut off half way, or some call in it failed or went unanswered.  The    *)
(* handle's count, which is written before the block and reduced after it, *)
(* may say too much, and too little only by the lost assignments: for      *)
(* those assignFromExistingBlock decrements the handle all the same.       *)
(***************************************************************************)
ReleasesEverything ==
  \A c \in Clients : client[c].state = "released" =>
    \A b \in BlockNames : Known(b, blocks[b], HandleOf[c], Lost(c)) = {}

(***************************************************************************)
(* When the controller has nothing to do the pool is settled: its status   *)
(* counts the addresses in use, which is what ValidateDelete relies on,    *)
(* and a pool that is to be deleted still exists only because some address *)
(* is in use.  An attempt that finds the pool in use is not repeated by    *)
(* itself (processIPPoolItem ignores the delay); the events of the blocks  *)
(* bring the pool back.                                                    *)
(***************************************************************************)
PoolSettled ==
  ctrl.pc = "idle" /\ ~queued /\ pool.exists =>
    /\ pool.allocations = Allocated(blocks)
    /\ pool.deleting => \E b \in BlockNames : blocks[b].exists /\ ~Empty(blocks[b])

(***************************************************************************)
(* As long as the pool is there, a block that does not exist has none of   *)
(* its addresses in use.  releaseByHandle relies on it: "Block doesn't     *)
(* exist, so all addresses are already unallocated".                       *)
(***************************************************************************)
MissingIsUnallocated ==
  \A c \in Clients :
    client[c].state = "held" /\ pool.exists =>
      LET v == blocks[client[c].addr[1]] IN
      v.exists /\ v.born = client[c].addr[2]
=============================================================================
