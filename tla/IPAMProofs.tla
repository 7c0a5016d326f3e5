----------------------------- MODULE IPAMProofs -----------------------------
(***************************************************************************)
(* Proofs about IPAM, for any number of clients, blocks and addresses.     *)
(*                                                                         *)
(* The argument in one sentence: a copy of a block whose version is still  *)
(* current is exactly what its holder made of the stored block, so that a  *)
(* conditional update does to the stored block what AutoAssign or          *)
(* ReleaseByHandle does to a block, and nothing to the others' addresses.  *)
(***************************************************************************)
EXTENDS IPAM, ListFacts

-----------------------------------------------------------------------------
(* Types.                                                                    *)

BlockState ==
  [exists : BOOLEAN, rv : Nat, born : Nat, deleted : BOOLEAN,
   attrs : Seq(Handles \cup {"reserved"}), alloc : [Ordinals -> Nat],
   free : Seq(Ordinals)]

HandleState ==
  [exists : BOOLEAN, rv : Nat, deleted : BOOLEAN, count : [BlockNames -> Nat]]

\* allocations is whatever GetUtilization computed.
IsPool(p) ==
  /\ p = [exists |-> p.exists, rv |-> p.rv, finalizer |-> p.finalizer,
          deleting |-> p.deleting, disabled |-> p.disabled,
          allocations |-> p.allocations]
  /\ {p.exists, p.finalizer, p.deleting, p.disabled} \subseteq BOOLEAN
  /\ p.rv \in Nat

Places ==
  {"idle", "pool", "list", "find", "create", "query", "reap", "handle",
   "reapHandle", "count", "block", "uncount", "drop", "free", "drop block"}

Purposes == {"", "increment", "reassign", "failed", "release", "start"}

CallState ==
  [pc : Places, tries : Nat, i : Nat, k : Nat, b : BlockNames \cup {""},
   v : BlockState, o : Nat, hdl : HandleState, then : Purposes, num : Nat,
   todo : SUBSET BlockNames]

Outcomes == {"new", "held", "failed", "crashed", "panicked", "not released",
             "released"}

ClientState ==
  [state : Outcomes \cup {"assigning", "releasing"},
   addr : {<<>>} \cup (BlockNames \X Nat \X Ordinals), at : CallState,
   lost : SUBSET (BlockNames \X Nat \X Ordinals)]

ControllerPlaces ==
  {"idle", "protect", "stats", "status", "disable", "list", "walk", "drop"}

-----------------------------------------------------------------------------
(* Blocks and copies of blocks.                                              *)

\* A block, stored or copied: it accounts for its ordinals if it exists, and
\* nothing is allocated in one that does not.
Sound(v) ==
  /\ v \in BlockState /\ v.born <= v.rv
  /\ v.exists => Accounts(v)
  /\ ~v.exists => \A o \in Ordinals : v.alloc[o] = 0

BlocksInv ==
  /\ blocks \in [BlockNames -> BlockState]
  /\ \A b \in BlockNames : Sound(blocks[b])

\* What releaseByHandle makes of a block before it updates it.
Freed(v, h) == [FreeHandle(v, h) EXCEPT !.deleted = Empty(FreeHandle(v, h))]

\* v is a copy of block b of bs that is not newer than it.
CopyOf(bs, b, v) ==
  b \in BlockNames /\ Sound(v) /\ v.exists /\ v.rv <= bs[b].rv

\* A client that has assigned an address in its copy of a block.
Assigning(r) ==
  \/ r.pc \in {"handle", "reapHandle"} /\ r.then = "increment"
  \/ r.pc \in {"count", "block"}

\* As long as its version is current, a copy is what was made of the stored block.
CopyInv(bs, h, r) ==
  /\ Assigning(r) =>
       /\ CopyOf(bs, r.b, r.v)
       /\ Current(bs[r.b], r.v) =>
            /\ bs[r.b].free # <<>> /\ r.o = Head(bs[r.b].free)
            /\ r.v = AssignFirst(bs[r.b], h)
  /\ r.pc = "free" =>
       /\ CopyOf(bs, r.b, r.v)
       /\ Current(bs[r.b], r.v) => r.v = Freed(bs[r.b], h)

-----------------------------------------------------------------------------
(* Handles and clients: a client's call r, its handle h, stored as hd.       *)

\* What the running helper is for, at each place.
PurposeInv(r) ==
  /\ r.pc \in {"idle", "pool", "list", "find", "create"} => r.then = ""
  /\ r.pc \in {"query", "reap"} => r.then \in {"release", "reassign"}
  /\ r.pc \in {"count", "block"} => r.then = "increment"
  /\ r.pc \in {"free", "drop block"} => r.then = "release"
  /\ r.pc = "handle" => r.then \in {"increment", "reassign", "failed", "release"}
  /\ r.pc = "reapHandle" =>
       r.then \in {"increment", "reassign", "failed", "release", "start"}
  /\ r.pc \in {"uncount", "drop"} => r.then \in {"reassign", "failed", "release"}
  /\ r.then \notin {"", "start"} \/ r.pc = "create" => r.b \in BlockNames
  /\ r.then \in {"increment", "reassign", "failed"} => r.num = 1

\* Nobody else writes a client's handle: its copy is the stored one.
HandleCopyInv(hd, r) ==
  /\ r.pc = "count" =>
       IF r.hdl.exists THEN r.hdl = hd /\ ~hd.deleted
       ELSE r.hdl = NoHandle /\ ~hd.exists
  /\ r.pc = "uncount" =>
       r.hdl = hd /\ hd.exists /\ ~hd.deleted /\ r.num <= hd.count[r.b]
  /\ r.pc \in {"reapHandle", "drop"} => \A b \in BlockNames : hd.count[b] = 0

\* The handle was incremented for an address the block does not have yet.
Pending(r) ==
  \/ r.pc = "block"
  \/ /\ r.then \in {"reassign", "failed"}
     /\ r.pc \in {"handle", "reapHandle", "uncount"}

\* The handle counts every address of the client but the lost ones, l, and the
\* pending one.
Covered(bs, hd, h, l) ==
  \A b \in BlockNames : Cardinality(Known(b, bs[b], h, l)) <= hd.count[b]
CountInv(bs, hd, h, r, l) ==
  /\ Covered(bs, hd, h, l)
  /\ Pending(r) => Cardinality(Known(r.b, bs[r.b], h, l)) + 1 <= hd.count[r.b]

\* A release has emptied the blocks that are not in todo, and r.b once it is
\* past its update.
ReleaseInv(bs, h, r, l) ==
  r.then = "release" =>
    /\ r.b \in r.todo
    /\ \A b \in BlockNames : b \notin r.todo => Known(b, bs[b], h, l) = {}
    /\ r.pc \in {"handle", "reapHandle", "uncount", "drop", "drop block"} =>
         Known(r.b, bs[r.b], h, l) = {}

CallInv(bs, hd, h, r, l) ==
  /\ r \in CallState
  /\ PurposeInv(r) /\ CopyInv(bs, h, r) /\ HandleCopyInv(hd, r)
  /\ CountInv(bs, hd, h, r, l) /\ ReleaseInv(bs, h, r, l)

\* The address of a client that holds one.
HeldInv(bs, h, x) ==
  x.state = "held" =>
    /\ x.addr \in BlockNames \X Nat \X Ordinals
    /\ x.addr[2] <= bs[x.addr[1]].rv
    /\ bs[x.addr[1]].exists /\ bs[x.addr[1]].born = x.addr[2] =>
         x.addr[3] \in OrdinalsOf(bs[x.addr[1]], h)

ReleasedInv(bs, h, x) ==
  x.state = "released" => \A b \in BlockNames : Known(b, bs[b], h, x.lost) = {}

ClientInv(bs, hd, h, x) ==
  /\ x \in ClientState
  /\ x.state \in Outcomes => x.at = Rest
  /\ CallInv(bs, hd, h, x.at, x.lost)
  /\ HeldInv(bs, h, x) /\ ReleasedInv(bs, h, x)

\* A handle that is marked or gone counts nothing.
HandleInv(hd) ==
  /\ hd \in HandleState
  /\ ~hd.exists \/ hd.deleted => \A b \in BlockNames : hd.count[b] = 0

HandlesInv ==
  /\ handles \in [Handles -> HandleState]
  /\ \A h \in Handles : HandleInv(handles[h])

ClientsInv ==
  /\ client \in [Clients -> ClientState]
  /\ \A c \in Clients :
       ClientInv(blocks, handles[HandleOf[c]], HandleOf[c], client[c])

-----------------------------------------------------------------------------
(* The pool controller.                                                      *)

ListedBlock == [b : BlockNames, v : BlockState]

ListedInv(bs, e) ==
  /\ CopyOf(bs, e.b, e.v)
  /\ Current(bs[e.b], e.v) => e.v = bs[e.b]

\* Some address of the pool is in use.
InUse(bs) == \E b \in BlockNames : bs[b].exists /\ ~Empty(bs[b])

\* The worker, k, and the blocks it has listed.
WorkerInv(bs, k) ==
  /\ k = [pc |-> k.pc, pool |-> k.pool, used |-> k.used, todo |-> k.todo]
  /\ k.pc \in ControllerPlaces /\ IsPool(k.pool) /\ k.todo \in Seq(ListedBlock)
  /\ \A n \in 1..Len(k.todo) : ListedInv(bs, k.todo[n])
  /\ k.pc = "drop" => k.todo # <<>>

ControllerInv == IsPool(pool) /\ queued \in BOOLEAN /\ WorkerInv(blocks, ctrl)

\* As long as nothing has changed since the controller took the pool, what it
\* read is what is stored.
QuietInv ==
  ~queued =>
    /\ ctrl.pc # "idle" => ctrl.pool = pool /\ pool.exists
    /\ ctrl.pc = "idle" /\ pool.exists => pool.allocations = Allocated(blocks)
    /\ ctrl.pc = "status" => ctrl.used = Allocated(blocks)
    /\ ctrl.pc \in {"idle", "stats", "status"} /\ pool.exists /\ pool.deleting =>
         InUse(blocks)
    /\ ctrl.pc \in {"walk", "drop"} =>
         \A n \in 1..Len(ctrl.todo) :
           /\ ctrl.todo[n].v = blocks[ctrl.todo[n].b]
           /\ blocks[ctrl.todo[n].b].exists

IndInv ==
  /\ BlocksInv /\ HandlesInv /\ ClientsInv
  /\ ControllerInv /\ QuietInv

-----------------------------------------------------------------------------
(* What becomes of a block.                                                  *)

\* Who has an ordinal, in terms of the allocation.
LEMMA OrdinalsOfHandle ==
  ASSUME NEW h \in Handles, NEW v
  PROVE  /\ h # "nobody" /\ h # "reserved"
         /\ OrdinalsOf(v, h) =
              {o \in Ordinals : v.alloc[o] # 0 /\ v.attrs[v.alloc[o]] = h}
<1>1. h # "nobody" /\ h # "reserved"
  BY IPAMAssumption
<1>2. \A o \in Ordinals :
        Owner(v, o) = h <=> v.alloc[o] # 0 /\ v.attrs[v.alloc[o]] = h
  BY <1>1 DEF Owner
<1> QED BY <1>1, <1>2 DEF OrdinalsOf

LEMMA FiniteOrdinals ==
  /\ Ordinals \subseteq Nat /\ IsFiniteSet(Ordinals)
  /\ \A v, h : /\ OrdinalsOf(v, h) \subseteq Ordinals /\ IsFiniteSet(OrdinalsOf(v, h))
               /\ Cardinality(OrdinalsOf(v, h)) \in Nat
<1>1. Ordinals \subseteq Nat /\ IsFiniteSet(Ordinals)
  <2>1. 0 \in Int /\ Size - 1 \in Int
    BY IPAMAssumption
  <2> QED BY <2>1, FS_Interval DEF Ordinals
<1>2. \A v, h : OrdinalsOf(v, h) \in SUBSET Ordinals
  BY DEF OrdinalsOf
<1>3. \A v, h : IsFiniteSet(OrdinalsOf(v, h))
  BY <1>1, <1>2, FS_Subset
<1>4. \A v, h : Cardinality(OrdinalsOf(v, h)) \in Nat
  BY <1>3, FS_CardinalityType
<1> QED BY <1>1, <1>2, <1>3, <1>4

\* A new block: the reserved ordinals are the attribute's, the others free.
LEMMA NewBlockFacts ==
  ASSUME NEW n \in Nat, NEW w, w = NewBlock(n)
  PROVE  /\ Sound(w) /\ w.exists /\ w.rv = n + 1 /\ w.born = n + 1 /\ ~w.deleted
         /\ \A h \in Handles : OrdinalsOf(w, h) = {}
<1> DEFINE F == Ordinals \ Reserved  H == Handles \cup {"reserved"}
<1>1. F \in SUBSET Nat /\ IsFiniteSet(F) /\ F \subseteq Ordinals
  BY FiniteOrdinals, FS_Difference
<1>2. /\ Ascending(F) \in Seq(F) /\ IsInjective(Ascending(F))
      /\ ToSet(Ascending(F)) = F
  <2> HIDE DEF F
  <2> QED BY <1>1, AscendingList
<1>3. Ascending(F) \in Seq(Ordinals)
  <2> HIDE DEF F
  <2>1. \A S, T : S \subseteq T => \A s \in Seq(S) : s \in Seq(T)
    OBVIOUS
  <2> QED BY <1>1, <1>2, <2>1
<1>4. /\ w.exists = TRUE /\ w.rv = n + 1 /\ w.born = n + 1 /\ w.deleted = FALSE
      /\ w.attrs = IF Reserved = {} THEN <<>> ELSE <<"reserved">>
      /\ w.alloc = [o \in Ordinals |-> IF o \in Reserved THEN 1 ELSE 0]
      /\ w.free = Ascending(F)
  BY DEF NewBlock
<1>5. w.attrs \in Seq(H)
  <2>1. <<>> \in Seq(H) /\ <<"reserved">> \in Seq(H)
    OBVIOUS
  <2> QED BY <1>4, <2>1
<1>6. w \in BlockState
  BY <1>3, <1>4, <1>5 DEF BlockState, NewBlock
<1>7. \A o \in Ordinals : w.alloc[o] = IF o \in Reserved THEN 1 ELSE 0
  BY <1>4
<1>8. Reserved # {} => Len(w.attrs) = 1 /\ w.attrs[1] = "reserved"
  BY <1>4
<1>9. Len(w.attrs) \in Nat
  BY <1>5, LenProperties
<1>10. Accounts(w)
  <2>1. \A o \in Ordinals : w.alloc[o] \in 0..Len(w.attrs)
    BY <1>7, <1>8, <1>9
  <2>2. \A o \in Ordinals : o \in ToSet(w.free) <=> w.alloc[o] = 0
    <3>1. ToSet(w.free) = Ordinals \ Reserved
      BY <1>2, <1>4
    <3> QED BY <1>7, <3>1
  <2> QED BY <1>2, <1>4, <2>1, <2>2 DEF Accounts
<1>11. \A h \in Handles : OrdinalsOf(w, h) = {}
  BY <1>7, <1>8, OrdinalsOfHandle
<1> QED BY <1>4, <1>6, <1>10, <1>11 DEF Sound

\* findOrAddAttribute finds an attribute of the handle, or the next index.
LEMMA AttributeIndexFacts ==
  ASSUME NEW H, NEW s \in Seq(H), NEW h \in H, NEW i, i = AttributeIndex(s, h),
         NEW t, t = IF i > Len(s) THEN Append(s, h) ELSE s
  PROVE  /\ t \in Seq(H) /\ Len(t) \in Nat /\ Len(s) <= Len(t)
         /\ i \in 1..Len(t) /\ t[i] = h
         /\ \A j \in 1..Len(s) : t[j] = s[j]
<1> DEFINE M == {j \in DOMAIN s : s[j] = h}
<1>1. Len(s) \in Nat /\ DOMAIN s = 1..Len(s)
  BY LenProperties
<1>2. CASE h \in ToSet(s)
  <2>1. M \subseteq Nat /\ M # {}
    BY <1>1, <1>2 DEF ToSet
  <2>2. \E x \in M : \A y \in M : x <= y
    <3> HIDE DEF M
    <3> QED BY <2>1, LeastElement
  <2>3. i = Min(M) /\ Min(M) \in M
    BY <1>2, <2>2 DEF AttributeIndex, Min
  <2>4. i \in 1..Len(s) /\ s[i] = h
    BY <1>1, <2>3
  <2>5. ~(i > Len(s))
    BY <1>1, <2>4
  <2> QED BY <1>1, <2>4, <2>5
<1>3. CASE h \notin ToSet(s)
  <2>1. i = Len(s) + 1
    BY <1>3 DEF AttributeIndex
  <2>2. i > Len(s)
    BY <1>1, <2>1
  <2>3. /\ t \in Seq(H) /\ Len(t) = Len(s) + 1 /\ t[Len(s) + 1] = h
        /\ \A j \in 1..Len(s) : t[j] = s[j]
    BY <1>1, <2>2, AppendProperties
  <2> QED BY <1>1, <2>1, <2>3
<1> QED BY <1>2, <1>3

\* AutoAssign gives the first free ordinal to the handle and changes nobody else's.
LEMMA AssignFacts ==
  ASSUME NEW v, Sound(v), v.exists, v.free # <<>>, NEW h \in Handles,
         NEW w, w = AssignFirst(v, h)
  PROVE  /\ Sound(w) /\ w.exists /\ w.rv = v.rv /\ w.born = v.born
         /\ Head(v.free) \in Ordinals /\ Head(v.free) \notin OrdinalsOf(v, h)
         /\ OrdinalsOf(w, h) = OrdinalsOf(v, h) \cup {Head(v.free)}
         /\ \A g \in Handles : g # h => OrdinalsOf(w, g) = OrdinalsOf(v, g)
<1> DEFINE H == Handles \cup {"reserved"}
           i == AttributeIndex(v.attrs, h)
           t == IF i > Len(v.attrs) THEN Append(v.attrs, h) ELSE v.attrs
           o1 == Head(v.free)
<1>1. /\ v \in BlockState /\ v.born <= v.rv /\ v.attrs \in Seq(H)
      /\ v.free \in Seq(Ordinals) /\ v.alloc \in [Ordinals -> Nat] /\ h \in H
      /\ IsInjective(v.free)
      /\ \A o \in Ordinals : v.alloc[o] \in 0..Len(v.attrs)
      /\ \A o \in Ordinals : o \in ToSet(v.free) <=> v.alloc[o] = 0
  BY DEF Sound, Accounts, BlockState
<1>2. /\ t \in Seq(H) /\ Len(t) \in Nat /\ Len(v.attrs) \in Nat
      /\ Len(v.attrs) <= Len(t) /\ i \in 1..Len(t) /\ t[i] = h
      /\ \A j \in 1..Len(v.attrs) : t[j] = v.attrs[j]
  <2>1. PICK s : s = v.attrs
    OBVIOUS
  <2>2. i = AttributeIndex(s, h) /\ t = IF i > Len(s) THEN Append(s, h) ELSE s
    BY <2>1
  <2>3. s \in Seq(H) /\ h \in H /\ Len(s) \in Nat
    BY <1>1, <2>1, LenProperties
  <2> HIDE DEF i, t, H
  <2>4. /\ t \in Seq(H) /\ Len(t) \in Nat /\ Len(s) <= Len(t)
        /\ i \in 1..Len(t) /\ t[i] = h
        /\ \A j \in 1..Len(s) : t[j] = s[j]
    BY <2>2, <2>3, AttributeIndexFacts
  <2> QED BY <2>1, <2>3, <2>4
<1>3. /\ Tail(v.free) \in Seq(Ordinals) /\ o1 \in ToSet(v.free) /\ o1 \in Ordinals
      /\ ToSet(Tail(v.free)) = ToSet(v.free) \ {o1} /\ IsInjective(Tail(v.free))
  BY <1>1, TailMembers
<1>4. w = [v EXCEPT !.free = Tail(@), !.alloc[o1] = i, !.attrs = t]
  BY DEF AssignFirst
<1> HIDE DEF i, t, o1, H
<1>5. /\ w.exists = v.exists /\ w.rv = v.rv /\ w.born = v.born
      /\ w.deleted = v.deleted /\ w.free = Tail(v.free) /\ w.attrs = t
      /\ w.alloc = [v.alloc EXCEPT ![o1] = i]
  BY <1>1, <1>4 DEF BlockState
<1>6. i \in Nat /\ i # 0
  BY <1>2
<1>7. w.alloc \in [Ordinals -> Nat]
      /\ \A o \in Ordinals : w.alloc[o] = IF o = o1 THEN i ELSE v.alloc[o]
  BY <1>1, <1>3, <1>5, <1>6
<1>8. w \in BlockState
  <2>1. w.attrs \in Seq(Handles \cup {"reserved"})
    BY <1>2, <1>5 DEF H
  <2>2. w = [exists |-> w.exists, rv |-> w.rv, born |-> w.born,
             deleted |-> w.deleted, attrs |-> w.attrs, alloc |-> w.alloc,
             free |-> w.free]
    BY <1>1, <1>4 DEF BlockState
  <2>3. /\ w.exists \in BOOLEAN /\ w.rv \in Nat /\ w.born \in Nat
        /\ w.deleted \in BOOLEAN /\ w.free \in Seq(Ordinals)
    BY <1>1, <1>3, <1>5 DEF BlockState
  <2> QED BY <1>7, <2>1, <2>2, <2>3 DEF BlockState
<1>9. Accounts(w)
  <2>1. IsInjective(w.free)
    BY <1>3, <1>5
  <2>2. \A o \in Ordinals : w.alloc[o] \in 0..Len(w.attrs)
    <3> TAKE o \in Ordinals
    <3>1. v.alloc[o] \in 0..Len(v.attrs) /\ Len(w.attrs) = Len(t)
      BY <1>1, <1>5
    <3> QED BY <1>2, <1>7, <3>1
  <2>3. \A o \in Ordinals : o \in ToSet(w.free) <=> w.alloc[o] = 0
    BY <1>1, <1>3, <1>5, <1>6, <1>7
  <2> QED BY <2>1, <2>2, <2>3 DEF Accounts
<1>10. \A o \in Ordinals : o # o1 /\ v.alloc[o] # 0 =>
         v.alloc[o] \in 1..Len(v.attrs) /\ w.attrs[w.alloc[o]] = v.attrs[v.alloc[o]]
  <2> TAKE o \in Ordinals
  <2>1. HAVE o # o1 /\ v.alloc[o] # 0
  <2>2. v.alloc[o] \in 1..Len(v.attrs)
    BY <1>1, <1>2, <2>1
  <2> QED BY <1>2, <1>5, <1>7, <2>1, <2>2
<1>11. w.alloc[o1] # 0 /\ w.attrs[w.alloc[o1]] = h /\ v.alloc[o1] = 0
  BY <1>1, <1>2, <1>3, <1>5, <1>6, <1>7
<1>12. \A o \in Ordinals : o # o1 => (w.alloc[o] = 0 <=> v.alloc[o] = 0)
  BY <1>7
<1>13. o1 \notin OrdinalsOf(v, h) /\ OrdinalsOf(w, h) = OrdinalsOf(v, h) \cup {o1}
  BY <1>3, <1>10, <1>11, <1>12, OrdinalsOfHandle
<1>14. ASSUME NEW g \in Handles, g # h PROVE OrdinalsOf(w, g) = OrdinalsOf(v, g)
  <2>1. /\ OrdinalsOf(v, g) =
             {o \in Ordinals : v.alloc[o] # 0 /\ v.attrs[v.alloc[o]] = g}
        /\ OrdinalsOf(w, g) =
             {o \in Ordinals : w.alloc[o] # 0 /\ w.attrs[w.alloc[o]] = g}
    BY OrdinalsOfHandle
  <2> QED BY <1>10, <1>11, <1>12, <1>14, <2>1
<1> QED BY <1>1, <1>3, <1>5, <1>8, <1>9, <1>13, <1>14 DEF Sound, o1

\* ReleaseByHandle takes away what the handle has and renumbers the rest, so
\* that every other ordinal stays with its owner.
LEMMA FreeFacts ==
  ASSUME NEW v, Sound(v), v.exists, NEW h \in Handles, NEW w, w = Freed(v, h)
  PROVE  /\ Sound(w) /\ w.exists /\ w.rv = v.rv /\ w.born = v.born
         /\ OrdinalsOf(w, h) = {}
         /\ \A g \in Handles : g # h => OrdinalsOf(w, g) = OrdinalsOf(v, g)
<1> DEFINE H == Handles \cup {"reserved"}
           K == Others(v, h)
           O == OrdinalsOf(v, h)
           t == Subsequence(v.attrs, K)
           d == Empty(FreeHandle(v, h))
<1>1. /\ v \in BlockState /\ v.born <= v.rv /\ v.attrs \in Seq(H)
      /\ v.free \in Seq(Ordinals) /\ v.alloc \in [Ordinals -> Nat]
      /\ IsInjective(v.free)
      /\ \A o \in Ordinals : v.alloc[o] \in 0..Len(v.attrs)
      /\ \A o \in Ordinals : o \in ToSet(v.free) <=> v.alloc[o] = 0
  BY DEF Sound, Accounts, BlockState
<1>2. Len(v.attrs) \in Nat /\ DOMAIN v.attrs = 1..Len(v.attrs)
  BY <1>1, LenProperties
<1>3. K \in SUBSET (1..Len(v.attrs)) /\ \A j \in 1..Len(v.attrs) : j \in K <=> v.attrs[j] # h
  BY <1>2 DEF Others
<1>4. O = {o \in Ordinals : v.alloc[o] # 0 /\ v.attrs[v.alloc[o]] = h}
  BY OrdinalsOfHandle
<1> HIDE DEF H, K, O, d
<1>5. /\ t \in Seq(H) /\ Len(t) = Cardinality(K) /\ Cardinality(K) \in Nat
      /\ \A j \in K : Rank(K, j) \in 1..Len(t) /\ t[Rank(K, j)] = v.attrs[j]
      /\ \A n \in 1..Len(t) : \E j \in K : t[n] = v.attrs[j]
  BY <1>1, <1>3, SubsequenceList
<1> HIDE DEF t
<1>6. /\ Ascending(O) \in Seq(O) /\ ToSet(Ascending(O)) = O
      /\ IsInjective(Ascending(O)) /\ O \subseteq Ordinals
  <2>1. O \in SUBSET Nat /\ IsFiniteSet(O) /\ O \subseteq Ordinals
    BY FiniteOrdinals DEF O
  <2> QED BY <2>1, AscendingList
<1>7. Ascending(O) \in Seq(Ordinals)
  <2>1. \A S, T : S \subseteq T => \A s \in Seq(S) : s \in Seq(T)
    OBVIOUS
  <2> QED BY <1>6, <2>1
<1>8. /\ w.exists = v.exists /\ w.rv = v.rv /\ w.born = v.born /\ w.deleted = d
      /\ w.attrs = t /\ w.free = v.free \o Ascending(O)
      /\ w.alloc = [o \in Ordinals |-> IF o \in O \/ v.alloc[o] = 0 THEN 0
                                       ELSE Rank(K, v.alloc[o])]
  BY <1>1 DEF Freed, FreeHandle, BlockState, d, t, O, K
<1>9. /\ v.free \o Ascending(O) \in Seq(Ordinals)
      /\ ToSet(v.free \o Ascending(O)) = ToSet(v.free) \cup O
      /\ IsInjective(v.free \o Ascending(O))
  <2>1. ToSet(v.free) \cap O = {}
    BY <1>1, <1>4
  <2> QED BY <1>1, <1>6, <1>7, <2>1, ConcatMembers
<1>10. d \in BOOLEAN
  BY DEF d, Empty
<1>11. ASSUME NEW o \in Ordinals, o \notin O, v.alloc[o] # 0
       PROVE  /\ v.alloc[o] \in K /\ w.alloc[o] = Rank(K, v.alloc[o])
              /\ w.alloc[o] \in 1..Len(t) /\ t[w.alloc[o]] = v.attrs[v.alloc[o]]
  <2>1. v.alloc[o] \in 1..Len(v.attrs)
    BY <1>1, <1>2, <1>11
  <2>2. v.alloc[o] \in K
    BY <1>3, <1>4, <1>11, <2>1
  <2>3. w.alloc[o] = Rank(K, v.alloc[o])
    BY <1>8, <1>11
  <2> QED BY <1>5, <2>2, <2>3
<1>12. ASSUME NEW o \in Ordinals, o \in O \/ v.alloc[o] = 0 PROVE w.alloc[o] = 0
  BY <1>8, <1>12
<1>13. \A o \in Ordinals : w.alloc[o] \in 0..Len(w.attrs)
  <2> TAKE o \in Ordinals
  <2>1. CASE o \in O \/ v.alloc[o] = 0
    BY <1>5, <1>8, <1>12, <2>1
  <2>2. CASE ~(o \in O \/ v.alloc[o] = 0)
    BY <1>5, <1>8, <1>11, <2>2
  <2> QED BY <2>1, <2>2
<1>14. w.alloc \in [Ordinals -> Nat]
  <2>1. w.alloc = [o \in Ordinals |-> w.alloc[o]]
    BY <1>8
  <2>2. \A o \in Ordinals : w.alloc[o] \in Nat
    BY <1>5, <1>8, <1>13
  <2> QED BY <2>1, <2>2
<1>15. w \in BlockState
  <2>1. w.attrs \in Seq(Handles \cup {"reserved"})
    BY <1>5, <1>8 DEF H
  <2>2. w = [exists |-> w.exists, rv |-> w.rv, born |-> w.born,
             deleted |-> w.deleted, attrs |-> w.attrs, alloc |-> w.alloc,
             free |-> w.free]
    BY <1>1 DEF BlockState, Freed, FreeHandle
  <2>3. /\ w.exists \in BOOLEAN /\ w.rv \in Nat /\ w.born \in Nat
        /\ w.deleted \in BOOLEAN /\ w.free \in Seq(Ordinals)
    BY <1>1, <1>8, <1>9, <1>10 DEF BlockState
  <2> QED BY <1>14, <2>1, <2>2, <2>3 DEF BlockState
<1>16. Accounts(w)
  <2>1. IsInjective(w.free)
    BY <1>8, <1>9
  <2>2. ASSUME NEW o \in Ordinals PROVE o \in ToSet(w.free) <=> w.alloc[o] = 0
    <3>1. o \in ToSet(w.free) <=> v.alloc[o] = 0 \/ o \in O
      BY <1>1, <1>8, <1>9
    <3>2. CASE o \in O \/ v.alloc[o] = 0
      BY <1>12, <3>1, <3>2
    <3>3. CASE ~(o \in O \/ v.alloc[o] = 0)
      <4>1. w.alloc[o] \in 1..Len(t)
        BY <1>11, <3>3
      <4> QED BY <1>5, <3>1, <3>3, <4>1
    <3> QED BY <3>2, <3>3
  <2> QED BY <1>13, <2>1, <2>2 DEF Accounts
<1>17. OrdinalsOf(w, h) = {}
  <2> SUFFICES ASSUME NEW o \in Ordinals, w.alloc[o] # 0, w.attrs[w.alloc[o]] = h
               PROVE  FALSE
    BY OrdinalsOfHandle
  <2>1. o \notin O /\ v.alloc[o] # 0
    BY <1>12
  <2>2. v.alloc[o] \in K /\ v.attrs[v.alloc[o]] = h
    BY <1>8, <1>11, <2>1
  <2> QED BY <1>3, <2>2
<1>18. ASSUME NEW g \in Handles, g # h PROVE OrdinalsOf(w, g) = OrdinalsOf(v, g)
  <2>1. ASSUME NEW o \in Ordinals
        PROVE  w.alloc[o] # 0 /\ w.attrs[w.alloc[o]] = g
                 <=> v.alloc[o] # 0 /\ v.attrs[v.alloc[o]] = g
    <3>1. CASE o \in O \/ v.alloc[o] = 0
      BY <1>4, <1>12, <1>18, <3>1
    <3>2. CASE ~(o \in O \/ v.alloc[o] = 0)
      <4>1. w.alloc[o] \in 1..Len(t) /\ t[w.alloc[o]] = v.attrs[v.alloc[o]]
        BY <1>11, <3>2
      <4>2. w.alloc[o] # 0
        BY <1>5, <4>1
      <4> QED BY <1>8, <3>2, <4>1, <4>2
    <3> QED BY <3>1, <3>2
  <2>2. /\ OrdinalsOf(v, g) =
             {o \in Ordinals : v.alloc[o] # 0 /\ v.attrs[v.alloc[o]] = g}
        /\ OrdinalsOf(w, g) =
             {o \in Ordinals : w.alloc[o] # 0 /\ w.attrs[w.alloc[o]] = g}
    BY OrdinalsOfHandle
  <2> QED BY <2>1, <2>2
<1> QED BY <1>1, <1>8, <1>15, <1>16, <1>17, <1>18 DEF Sound

-----------------------------------------------------------------------------
(* What may happen to a stored block.                                        *)

\* Block x is followed by y: unless it stays as it is its version grows or it
\* is gone, so that no copy of x is current any more.
Evolves(x, y) ==
  /\ Sound(y) /\ x.rv <= y.rv
  /\ y = x \/ x.rv < y.rv \/ ~y.exists

\* y gives handle h nothing new, and the same as x if it is the same block.
Keeps(x, y, h) ==
  /\ OrdinalsOf(y, h) \subseteq OrdinalsOf(x, h)
  /\ y.exists => \/ x.rv < y.born /\ OrdinalsOf(y, h) = {}
                 \/ x.exists /\ y.born = x.born /\ OrdinalsOf(y, h) = OrdinalsOf(x, h)

LEMMA Stays ==
  ASSUME NEW x, Sound(x)
  PROVE  Evolves(x, x) /\ \A h : Keeps(x, x, h)
BY DEF Evolves, Keeps, Sound, BlockState

LEMMA Created ==
  ASSUME NEW x, Sound(x), ~x.exists, NEW y, y = NewBlock(x.rv)
  PROVE  Evolves(x, y) /\ \A h \in Handles : Keeps(x, y, h)
<1>1. x.rv \in Nat
  BY DEF Sound, BlockState
<1>2. /\ Sound(y) /\ y.rv = x.rv + 1 /\ y.born = x.rv + 1
      /\ \A h \in Handles : OrdinalsOf(y, h) = {}
  BY <1>1, NewBlockFacts
<1> QED BY <1>1, <1>2 DEF Evolves, Keeps

LEMMA Deleted ==
  ASSUME NEW x, Sound(x), NEW y, y = Gone(NoBlock, x)
  PROVE  /\ Evolves(x, y) /\ ~y.exists
         /\ \A h \in Handles : Keeps(x, y, h) /\ OrdinalsOf(y, h) = {}
<1>1. x.rv \in Nat
  BY DEF Sound, BlockState
<1>2. /\ y.exists = FALSE /\ y.rv = x.rv /\ y.born = 0
      /\ y.alloc = [o \in Ordinals |-> 0]
  BY DEF Gone, NoBlock
<1>3. y \in BlockState
  <2>1. <<>> \in Seq(Handles \cup {"reserved"}) /\ <<>> \in Seq(Ordinals)
    OBVIOUS
  <2> QED BY <1>1, <2>1 DEF Gone, NoBlock, BlockState
<1>4. Sound(y)
  BY <1>1, <1>2, <1>3 DEF Sound
<1>5. \A h \in Handles : OrdinalsOf(y, h) = {}
  BY <1>2, OrdinalsOfHandle
<1> QED BY <1>1, <1>2, <1>4, <1>5 DEF Evolves, Keeps

\* Storing a copy changes its version only.
LEMMA StoredFacts ==
  ASSUME NEW v, Sound(v), NEW y, y = Stored(v)
  PROVE  /\ Sound(y) /\ y.exists = v.exists /\ y.born = v.born /\ y.rv = v.rv + 1
         /\ \A h : OrdinalsOf(y, h) = OrdinalsOf(v, h)
<1>1. v \in BlockState /\ v.rv \in Nat /\ v.born \in Nat /\ v.born <= v.rv
  BY DEF Sound, BlockState
<1>2. /\ y.exists = v.exists /\ y.born = v.born /\ y.rv = v.rv + 1
      /\ y.attrs = v.attrs /\ y.alloc = v.alloc /\ y.free = v.free
  BY <1>1 DEF Stored, BlockState
<1>3. y \in BlockState
  <2>1. y = [exists |-> v.exists, rv |-> v.rv + 1, born |-> v.born,
             deleted |-> v.deleted, attrs |-> v.attrs, alloc |-> v.alloc,
             free |-> v.free]
    BY <1>1 DEF Stored, BlockState
  <2>2. v.rv + 1 \in Nat
    BY <1>1
  <2> QED BY <1>1, <2>1, <2>2 DEF BlockState
<1>4. Sound(y)
  BY <1>1, <1>2, <1>3 DEF Sound, Accounts
<1>5. \A h : OrdinalsOf(y, h) = OrdinalsOf(v, h)
  BY <1>2 DEF OrdinalsOf, Owner
<1> QED BY <1>2, <1>4, <1>5

LEMMA MarkFacts ==
  ASSUME NEW x, Sound(x), NEW w, w = [x EXCEPT !.deleted = TRUE]
  PROVE  /\ Sound(w) /\ w.exists = x.exists /\ w.born = x.born /\ w.rv = x.rv
         /\ \A h : OrdinalsOf(w, h) = OrdinalsOf(x, h)
<1>1. /\ w \in BlockState /\ w.exists = x.exists /\ w.born = x.born /\ w.rv = x.rv
      /\ w.attrs = x.attrs /\ w.alloc = x.alloc /\ w.free = x.free
  BY DEF Sound, BlockState
<1> QED BY <1>1 DEF Sound, Accounts, OrdinalsOf, Owner

LEMMA Marked ==
  ASSUME NEW x, Sound(x), x.exists, NEW w, Sound(w), w.exists = x.exists,
         w.born = x.born, w.rv = x.rv, \A h : OrdinalsOf(w, h) = OrdinalsOf(x, h),
         NEW y, y = Stored(w)
  PROVE  Evolves(x, y) /\ \A h : Keeps(x, y, h)
<1>1. x.rv \in Nat
  BY DEF Sound, BlockState
<1>2. /\ Sound(y) /\ y.exists = w.exists /\ y.born = w.born /\ y.rv = w.rv + 1
      /\ \A h : OrdinalsOf(y, h) = OrdinalsOf(w, h)
  BY StoredFacts
<1> QED BY <1>1, <1>2 DEF Evolves, Keeps

LEMMA Assigned ==
  ASSUME NEW x, Sound(x), x.exists, x.free # <<>>, NEW h \in Handles,
         NEW v, v = AssignFirst(x, h), NEW y, y = Stored(v)
  PROVE  /\ Evolves(x, y) /\ y.exists /\ y.born = x.born /\ x.born \in Nat
         /\ v.born = x.born /\ Head(x.free) \in Ordinals
         /\ OrdinalsOf(y, h) = OrdinalsOf(x, h) \cup {Head(x.free)}
         /\ \A g \in Handles : g # h => Keeps(x, y, g)
<1>1. x.rv \in Nat /\ x.born \in Nat
  BY DEF Sound, BlockState
<1>2. /\ Sound(v) /\ v.exists /\ v.rv = x.rv /\ v.born = x.born
      /\ Head(x.free) \in Ordinals
      /\ OrdinalsOf(v, h) = OrdinalsOf(x, h) \cup {Head(x.free)}
      /\ \A g \in Handles : g # h => OrdinalsOf(v, g) = OrdinalsOf(x, g)
  BY AssignFacts
<1>3. y = Stored(v)
  OBVIOUS
<1>4. /\ Sound(y) /\ y.exists = v.exists /\ y.born = v.born /\ y.rv = v.rv + 1
      /\ \A g : OrdinalsOf(y, g) = OrdinalsOf(v, g)
  BY ONLY <1>2, <1>3, StoredFacts
<1> QED BY <1>1, <1>2, <1>4 DEF Evolves, Keeps

LEMMA Released ==
  ASSUME NEW x, Sound(x), x.exists, NEW h \in Handles, NEW y, y = Stored(Freed(x, h))
  PROVE  /\ Evolves(x, y) /\ OrdinalsOf(y, h) = {}
         /\ \A g \in Handles : g # h => Keeps(x, y, g)
<1> DEFINE w == Freed(x, h)
<1>1. x.rv \in Nat
  BY DEF Sound, BlockState
<1>2. /\ Sound(w) /\ w.exists /\ w.rv = x.rv /\ w.born = x.born
      /\ OrdinalsOf(w, h) = {}
      /\ \A g \in Handles : g # h => OrdinalsOf(w, g) = OrdinalsOf(x, g)
  <2> HIDE DEF w
  <2> QED BY FreeFacts DEF w
<1> HIDE DEF w
<1>3. /\ Sound(y) /\ y.exists = w.exists /\ y.born = w.born /\ y.rv = w.rv + 1
      /\ \A g : OrdinalsOf(y, g) = OrdinalsOf(w, g)
  BY <1>2, StoredFacts DEF w
<1> QED BY <1>1, <1>2, <1>3 DEF Evolves, Keeps, w

-----------------------------------------------------------------------------
(* Clients that do not take part in a step.                                  *)

Follows(bs, bt) == \A b \in BlockNames : Evolves(bs[b], bt[b])
Spares(bs, bt, h) == \A b \in BlockNames : Keeps(bs[b], bt[b], h)

\* A block that does not exist has no addresses.
LEMMA MissingIsFree ==
  ASSUME NEW v, Sound(v), ~v.exists, NEW h \in Handles
  PROVE  OrdinalsOf(v, h) = {}
BY OrdinalsOfHandle DEF Sound

\* The addresses a client knows of are among those of its handle.
LEMMA KnownFacts ==
  ASSUME NEW b, NEW v, NEW h, NEW l
  PROVE  /\ Known(b, v, h, l) \subseteq OrdinalsOf(v, h)
         /\ IsFiniteSet(Known(b, v, h, l)) /\ Cardinality(Known(b, v, h, l)) \in Nat
         /\ OrdinalsOf(v, h) = {} => Known(b, v, h, l) = {}
         /\ Known(b, v, h, l) = {} <=> Cardinality(Known(b, v, h, l)) = 0
<1>1. Known(b, v, h, l) \in SUBSET OrdinalsOf(v, h)
  BY DEF Known
<1>2. IsFiniteSet(Known(b, v, h, l))
  BY <1>1, FiniteOrdinals, FS_Subset
<1>3. /\ Cardinality(Known(b, v, h, l)) \in Nat
      /\ Known(b, v, h, l) = {} <=> Cardinality(Known(b, v, h, l)) = 0
  BY <1>2, FS_CardinalityType, FS_EmptySet
<1> QED BY <1>1, <1>2, <1>3

\* They do not become more in a block that gives the handle nothing new.
LEMMA KnownKept ==
  ASSUME NEW x, NEW y, Sound(y), NEW h \in Handles, Keeps(x, y, h), NEW b, NEW l
  PROVE  /\ Known(b, y, h, l) \subseteq Known(b, x, h, l)
         /\ Cardinality(Known(b, y, h, l)) <= Cardinality(Known(b, x, h, l))
<1>1. Known(b, y, h, l) \in SUBSET Known(b, x, h, l)
  <2>1. CASE OrdinalsOf(y, h) = {}
    BY <2>1, KnownFacts
  <2>2. CASE OrdinalsOf(y, h) # {}
    <3>1. y.exists
      BY <2>2, MissingIsFree
    <3>2. y.born = x.born /\ OrdinalsOf(y, h) = OrdinalsOf(x, h)
      BY <2>2, <3>1 DEF Keeps
    <3> QED BY <3>2 DEF Known
  <2> QED BY <2>1, <2>2
<1> QED BY <1>1, KnownFacts, FS_Subset

\* One address more is at most one more that is known.
LEMMA OneMoreKnown ==
  ASSUME NEW x, NEW y, y.born = x.born, NEW h, NEW o,
         OrdinalsOf(y, h) = OrdinalsOf(x, h) \cup {o}, NEW b, NEW l
  PROVE  /\ Cardinality(Known(b, y, h, l)) <= Cardinality(Known(b, x, h, l)) + 1
         /\ Cardinality(Known(b, y, h, l)) \in Nat
         /\ Cardinality(Known(b, x, h, l)) \in Nat
<1>1. PICK S : S = Known(b, x, h, l) \cup {o}
  OBVIOUS
<1>2. IsFiniteSet(Known(b, x, h, l)) /\ Cardinality(Known(b, x, h, l)) \in Nat
  BY KnownFacts
<1>3. /\ IsFiniteSet(S) /\ Cardinality(S) \in Nat
      /\ Cardinality(S) <= Cardinality(Known(b, x, h, l)) + 1
  <2>1. /\ IsFiniteSet(S)
        /\ Cardinality(S) = IF o \in Known(b, x, h, l)
                            THEN Cardinality(Known(b, x, h, l))
                            ELSE Cardinality(Known(b, x, h, l)) + 1
    BY <1>1, <1>2, FS_AddElement
  <2> QED BY <1>2, <2>1
<1>4. Known(b, y, h, l) \in SUBSET S
  BY <1>1 DEF Known
<1>5. /\ Cardinality(Known(b, y, h, l)) \in Nat
      /\ Cardinality(Known(b, y, h, l)) <= Cardinality(S)
  BY <1>3, <1>4, KnownFacts, FS_Subset
<1> QED BY <1>2, <1>3, <1>5

\* A write of one block.
LEMMA BlockWritten ==
  ASSUME BlocksInv, NEW b \in BlockNames, NEW w, Evolves(blocks[b], w),
         blocks' = [blocks EXCEPT ![b] = w]
  PROVE  /\ BlocksInv' /\ Follows(blocks, blocks') /\ blocks'[b] = w
         /\ \A h : Keeps(blocks[b], w, h) => Spares(blocks, blocks', h)
<1>1. w \in BlockState /\ Sound(w)
  BY DEF Evolves, Sound
<1>2. \A x \in BlockNames : blocks'[x] = IF x = b THEN w ELSE blocks[x]
  BY DEF BlocksInv
<1>3. BlocksInv'
  BY <1>1, <1>2 DEF BlocksInv
<1>4. \A x \in BlockNames :
        Evolves(blocks[x], blocks[x]) /\ \A h : Keeps(blocks[x], blocks[x], h)
  BY Stays DEF BlocksInv
<1> QED BY <1>2, <1>3, <1>4 DEF Follows, Spares

LEMMA NoBlockWritten ==
  ASSUME BlocksInv, blocks' = blocks
  PROVE  BlocksInv' /\ Follows(blocks, blocks') /\ \A h : Spares(blocks, blocks', h)
<1>1. \A x \in BlockNames :
        Evolves(blocks[x], blocks[x]) /\ \A h : Keeps(blocks[x], blocks[x], h)
  BY Stays DEF BlocksInv
<1> QED BY <1>1 DEF Follows, Spares, BlocksInv

\* A copy that is current after a step was current before it, and its block is
\* still the same.
LEMMA CopyKept ==
  ASSUME NEW x, x \in BlockState, NEW y, Evolves(x, y), NEW v, Sound(v), v.rv <= x.rv
  PROVE  v.rv <= y.rv /\ (Current(y, v) => Current(x, v) /\ y = x)
<1>1. v.rv \in Nat /\ x.rv \in Nat /\ y.rv \in Nat /\ x.rv <= y.rv
  BY DEF Evolves, Sound, BlockState
<1> QED BY <1>1 DEF Evolves, Current

LEMMA CallKept ==
  ASSUME NEW l, NEW bs \in [BlockNames -> BlockState], NEW bt, Follows(bs, bt),
         NEW h \in Handles, Spares(bs, bt, h), NEW hd \in HandleState,
         NEW r, CallInv(bs, hd, h, r, l)
  PROVE  CallInv(bt, hd, h, r, l)
<1>1. /\ r \in CallState /\ PurposeInv(r) /\ CopyInv(bs, h, r)
      /\ HandleCopyInv(hd, r) /\ CountInv(bs, hd, h, r, l) /\ ReleaseInv(bs, h, r, l)
  BY DEF CallInv
<1>2. ASSUME NEW b, NEW v, CopyOf(bs, b, v)
      PROVE  /\ CopyOf(bt, b, v)
             /\ Current(bt[b], v) => Current(bs[b], v) /\ bt[b] = bs[b]
  <2>1. b \in BlockNames /\ Sound(v) /\ v.exists /\ v.rv <= bs[b].rv
    BY <1>2 DEF CopyOf
  <2>2. bs[b] \in BlockState /\ Evolves(bs[b], bt[b])
    BY <2>1 DEF Follows
  <2> QED BY <2>1, <2>2, CopyKept DEF CopyOf
<1>3. CopyInv(bt, h, r)
  <2>1. ASSUME Assigning(r)
        PROVE  /\ CopyOf(bt, r.b, r.v)
               /\ Current(bt[r.b], r.v) =>
                    /\ bt[r.b].free # <<>> /\ r.o = Head(bt[r.b].free)
                    /\ r.v = AssignFirst(bt[r.b], h)
    <3>1. /\ CopyOf(bs, r.b, r.v)
          /\ Current(bs[r.b], r.v) =>
               /\ bs[r.b].free # <<>> /\ r.o = Head(bs[r.b].free)
                    /\ r.v = AssignFirst(bs[r.b], h)
      BY <1>1, <2>1 DEF CopyInv
    <3>2. /\ CopyOf(bt, r.b, r.v)
          /\ Current(bt[r.b], r.v) => Current(bs[r.b], r.v) /\ bt[r.b] = bs[r.b]
      BY <1>2, <3>1
    <3> QED BY <3>1, <3>2
  <2>2. ASSUME r.pc = "free"
        PROVE  /\ CopyOf(bt, r.b, r.v)
               /\ Current(bt[r.b], r.v) => r.v = Freed(bt[r.b], h)
    <3>1. /\ CopyOf(bs, r.b, r.v)
          /\ Current(bs[r.b], r.v) => r.v = Freed(bs[r.b], h)
      BY <1>1, <2>2 DEF CopyInv
    <3>2. /\ CopyOf(bt, r.b, r.v)
          /\ Current(bt[r.b], r.v) => Current(bs[r.b], r.v) /\ bt[r.b] = bs[r.b]
      BY <1>2, <3>1
    <3> QED BY <3>1, <3>2
  <2> QED BY <2>1, <2>2 DEF CopyInv
<1>4. \A b \in BlockNames :
        /\ Known(b, bt[b], h, l) \subseteq Known(b, bs[b], h, l)
        /\ Cardinality(Known(b, bt[b], h, l)) <= Cardinality(Known(b, bs[b], h, l))
        /\ Cardinality(Known(b, bt[b], h, l)) \in Nat
        /\ Cardinality(Known(b, bs[b], h, l)) \in Nat
  <2> TAKE b \in BlockNames
  <2>1. Sound(bt[b]) /\ Keeps(bs[b], bt[b], h)
    BY DEF Spares, Follows, Evolves
  <2> QED BY <2>1, KnownFacts, KnownKept
<1>5. \A b \in BlockNames : hd.count[b] \in Nat
  BY DEF HandleState
<1>6. Covered(bt, hd, h, l)
  BY <1>1, <1>4, <1>5 DEF CountInv, Covered
<1>7. Pending(r) => r.b \in BlockNames
  BY <1>1 DEF Pending, PurposeInv
<1>8. CountInv(bt, hd, h, r, l)
  BY <1>1, <1>4, <1>5, <1>6, <1>7 DEF CountInv
<1>9. r.then = "release" => r.b \in BlockNames
  BY <1>1 DEF PurposeInv
<1>10. ReleaseInv(bt, h, r, l)
  BY <1>1, <1>4, <1>9 DEF ReleaseInv
<1> QED BY <1>1, <1>3, <1>8, <1>10 DEF CallInv

\* The invariant of a client that does nothing, and whose handle nobody writes.
LEMMA ClientKept ==
  ASSUME NEW bs \in [BlockNames -> BlockState], NEW bt, Follows(bs, bt),
         NEW h \in Handles, Spares(bs, bt, h), NEW hd \in HandleState,
         NEW x, ClientInv(bs, hd, h, x)
  PROVE  ClientInv(bt, hd, h, x)
<1>1. /\ x \in ClientState /\ (x.state \in Outcomes => x.at = Rest)
      /\ CallInv(bs, hd, h, x.at, x.lost) /\ HeldInv(bs, h, x) /\ ReleasedInv(bs, h, x)
  BY DEF ClientInv
<1>2. CallInv(bt, hd, h, x.at, x.lost)
  BY <1>1, CallKept
<1>3. ASSUME x.state = "held"
      PROVE  /\ x.addr \in BlockNames \X Nat \X Ordinals
             /\ x.addr[2] <= bt[x.addr[1]].rv
             /\ bt[x.addr[1]].exists /\ bt[x.addr[1]].born = x.addr[2] =>
                  x.addr[3] \in OrdinalsOf(bt[x.addr[1]], h)
  <2>1. PICK b \in BlockNames, n \in Nat, o \in Ordinals : x.addr = <<b, n, o>>
    BY <1>1, <1>3 DEF HeldInv
  <2>2. n <= bs[b].rv /\ (bs[b].exists /\ bs[b].born = n => o \in OrdinalsOf(bs[b], h))
    BY <1>1, <1>3, <2>1 DEF HeldInv
  <2>3. Evolves(bs[b], bt[b]) /\ Keeps(bs[b], bt[b], h)
    BY DEF Follows, Spares
  <2>4. /\ bs[b].rv \in Nat /\ bt[b].rv \in Nat /\ bs[b].rv <= bt[b].rv
        /\ bt[b].born \in Nat
    BY <2>3 DEF Evolves, Sound, BlockState
  <2>5. n <= bt[b].rv
    BY <2>2, <2>4
  <2>6. ~(bs[b].rv < n)
    BY <2>2, <2>4
  <2>7. bt[b].exists /\ bt[b].born = n => o \in OrdinalsOf(bt[b], h)
    BY <2>2, <2>3, <2>6 DEF Keeps
  <2> QED BY <2>1, <2>5, <2>7
<1>4. HeldInv(bt, h, x)
  BY <1>3 DEF HeldInv
<1>5. ReleasedInv(bt, h, x)
  <2>1. ASSUME NEW b \in BlockNames
        PROVE  Known(b, bt[b], h, x.lost) \subseteq Known(b, bs[b], h, x.lost)
    <3>1. Sound(bt[b]) /\ Keeps(bs[b], bt[b], h)
      BY DEF Spares, Follows, Evolves
    <3> QED BY <3>1, KnownKept
  <2> QED BY <1>1, <2>1 DEF ReleasedInv
<1> QED BY <1>1, <1>2, <1>4, <1>5 DEF ClientInv

-----------------------------------------------------------------------------
(* The client that takes a step, and how its helpers leave it.               *)

\* Client c goes to a state that fits the blocks and its handle after the step.
ClientMoves(c) ==
  \E x : /\ client' = [client EXCEPT ![c] = x]
         /\ ClientInv(blocks', handles'[HandleOf[c]], HandleOf[c], x)

\* The addresses of h are counted, after the step.
CoveredNext(c) == Covered(blocks', handles'[HandleOf[c]], HandleOf[c], Lost(c))

LEMMA ClientStepped ==
  ASSUME BlocksInv, HandlesInv, ClientsInv, NEW c \in Clients, ClientMoves(c),
         Follows(blocks, blocks'),
         \A g \in Handles : g # HandleOf[c] =>
           Spares(blocks, blocks', g) /\ handles'[g] = handles[g]
  PROVE  ClientsInv'
<1>1. PICK x : /\ client' = [client EXCEPT ![c] = x]
               /\ ClientInv(blocks', handles'[HandleOf[c]], HandleOf[c], x)
  BY DEF ClientMoves
<1>2. x \in ClientState
  BY <1>1 DEF ClientInv
<1>3. client' \in [Clients -> ClientState]
  BY <1>1, <1>2 DEF ClientsInv
<1>4. ASSUME NEW d \in Clients
      PROVE  ClientInv(blocks', handles'[HandleOf[d]], HandleOf[d], client'[d])
  <2>1. CASE d = c
    BY <1>1, <2>1 DEF ClientsInv
  <2>2. CASE d # c
    <3>1. client'[d] = client[d]
      BY <1>1, <2>2 DEF ClientsInv
    <3>2. HandleOf[d] \in Handles /\ HandleOf[c] \in Handles /\ HandleOf[d] # HandleOf[c]
      BY <2>2, IPAMAssumption DEF IsInjective
    <3>3. Spares(blocks, blocks', HandleOf[d]) /\ handles'[HandleOf[d]] = handles[HandleOf[d]]
      BY <3>2
    <3>4. /\ blocks \in [BlockNames -> BlockState] /\ handles[HandleOf[d]] \in HandleState
          /\ ClientInv(blocks, handles[HandleOf[d]], HandleOf[d], client[d])
      BY <3>2 DEF BlocksInv, HandlesInv, ClientsInv
    <3>5. ClientInv(blocks', handles[HandleOf[d]], HandleOf[d], client[d])
      BY <3>2, <3>3, <3>4, ClientKept
    <3> QED BY <3>1, <3>3, <3>5
  <2> QED BY <2>1, <2>2
<1> QED BY <1>3, <1>4 DEF ClientsInv

LEMMA NoClientStepped ==
  ASSUME BlocksInv, HandlesInv, ClientsInv, UNCHANGED <<client, handles>>,
         Follows(blocks, blocks'), \A g \in Handles : Spares(blocks, blocks', g)
  PROVE  ClientsInv'
<1>1. ASSUME NEW d \in Clients
      PROVE  ClientInv(blocks', handles[HandleOf[d]], HandleOf[d], client[d])
  <2>1. HandleOf[d] \in Handles
    BY IPAMAssumption
  <2>2. /\ blocks \in [BlockNames -> BlockState] /\ handles[HandleOf[d]] \in HandleState
        /\ ClientInv(blocks, handles[HandleOf[d]], HandleOf[d], client[d])
    BY <2>1 DEF BlocksInv, HandlesInv, ClientsInv
  <2> QED BY <2>1, <2>2, ClientKept
<1> QED BY <1>1 DEF ClientsInv

LEMMA RestType ==
  /\ Rest \in CallState /\ NoBlock \in BlockState /\ NoHandle \in HandleState
  /\ Rest.pc = "idle" /\ Rest.then = "" /\ Rest.todo = {}
<1>1. NoBlock \in BlockState
  <2>1. <<>> \in Seq(Handles \cup {"reserved"}) /\ <<>> \in Seq(Ordinals)
    OBVIOUS
  <2> QED BY <2>1 DEF NoBlock, BlockState
<1>2. NoHandle \in HandleState
  BY DEF NoHandle, HandleState
<1> QED BY <1>1, <1>2 DEF Rest, CallState, Places, Purposes

\* What is known of a client that is in a call.
LEMMA Busy ==
  ASSUME ClientsInv, NEW c \in Clients
  PROVE  /\ HandleOf[c] \in Handles /\ client[c] \in ClientState
         /\ At(c) = client[c].at /\ At(c) \in CallState
         /\ CallInv(blocks, handles[HandleOf[c]], HandleOf[c], At(c), Lost(c))
         /\ At(c).pc # "idle" => client[c].state \notin Outcomes
BY RestType, IPAMAssumption DEF ClientsInv, ClientInv, CallInv, At, Lost

\* A call that has nothing on its mind.
LEMMA FreshCall ==
  ASSUME NEW bs, NEW hd, NEW h, NEW l, Covered(bs, hd, h, l),
         NEW r \in CallState, r.then = "", r.pc \in {"idle", "pool", "list", "find"}
  PROVE  CallInv(bs, hd, h, r, l)
<1>1. PurposeInv(r)
  BY DEF PurposeInv
<1>2. CopyInv(bs, h, r)
  BY DEF CopyInv, Assigning
<1>3. HandleCopyInv(hd, r) /\ CountInv(bs, hd, h, r, l)
  BY DEF HandleCopyInv, CountInv, Pending
<1>4. ReleaseInv(bs, h, r, l)
  BY DEF ReleaseInv
<1> QED BY <1>1, <1>2, <1>3, <1>4 DEF CallInv

LEMMA GotoMoves ==
  ASSUME ClientsInv, NEW c \in Clients, client[c].state \notin Outcomes,
         NEW q, Goto(c, q), CallInv(blocks', handles'[HandleOf[c]], HandleOf[c], q, Lost(c))
  PROVE  ClientMoves(c)
<1> DEFINE x == [client[c] EXCEPT !.at = q]
<1>1. client[c] \in ClientState /\ q \in CallState
  BY Busy DEF CallInv
<1>2. client' = [client EXCEPT ![c] = x]
  BY DEF Goto
<1>3. /\ x \in ClientState /\ x.at = q /\ x.state = client[c].state
      /\ x.lost = Lost(c)
  BY <1>1 DEF ClientState, Lost
<1>4. x.state \notin Outcomes /\ x.state # "held" /\ x.state # "released"
  BY <1>3 DEF Outcomes
<1> HIDE DEF x
<1>5. ClientInv(blocks', handles'[HandleOf[c]], HandleOf[c], x)
  BY <1>3, <1>4 DEF ClientInv, HeldInv, ReleasedInv
<1> QED BY <1>2, <1>5 DEF ClientMoves

LEMMA FinishMoves ==
  ASSUME ClientsInv, NEW c \in Clients, CoveredNext(c),
         NEW s \in Outcomes, s # "held", Finish(c, s),
         s = "released" =>
           \A b \in BlockNames : Known(b, blocks'[b], HandleOf[c], Lost(c)) = {}
  PROVE  ClientMoves(c)
<1> DEFINE x == [client[c] EXCEPT !.at = Rest, !.state = s, !.addr = <<>>]
<1>1. client[c] \in ClientState
  BY Busy
<1>2. client' = [client EXCEPT ![c] = x]
  BY DEF Finish
<1>3. x \in ClientState /\ x.at = Rest /\ x.state = s /\ x.lost = Lost(c)
  BY <1>1, RestType DEF ClientState, Lost
<1> HIDE DEF x
<1>4. CallInv(blocks', handles'[HandleOf[c]], HandleOf[c], Rest, Lost(c))
  BY RestType, FreshCall DEF CoveredNext
<1>5. ClientInv(blocks', handles'[HandleOf[c]], HandleOf[c], x)
  BY <1>3, <1>4 DEF ClientInv, HeldInv, ReleasedInv
<1> QED BY <1>2, <1>5 DEF ClientMoves

LEMMA AgainMoves ==
  ASSUME ClientsInv, NEW c \in Clients, client[c].state \notin Outcomes,
         CoveredNext(c), Again(c)
  PROVE  ClientMoves(c)
<1>1. PICK q : q = [Rest EXCEPT !.pc = "pool", !.tries = At(c).tries + 1]
  OBVIOUS
<1>2. At(c).tries \in Nat
  BY Busy DEF CallState
<1>3. q \in CallState /\ q.pc = "pool" /\ q.then = ""
  <2>1. PICK n \in Nat : n = At(c).tries + 1
    BY <1>2
  <2>2. q = [Rest EXCEPT !.pc = "pool", !.tries = n]
    BY <1>1, <2>1
  <2> QED BY <2>2, RestType DEF CallState, Places
<1>4. CallInv(blocks', handles'[HandleOf[c]], HandleOf[c], q, Lost(c))
  BY <1>3, FreshCall DEF CoveredNext
<1>5. CASE Goto(c, q)
  BY <1>4, <1>5, GotoMoves
<1>6. CASE Finish(c, "failed")
  BY <1>6, FinishMoves DEF Outcomes
<1> QED BY <1>1, <1>5, <1>6 DEF Again

LEMMA ReleaseMoves ==
  ASSUME ClientsInv, NEW c \in Clients, CoveredNext(c),
         NEW todo \in SUBSET BlockNames, Release(c, todo),
         \A b \in BlockNames : b \notin todo => Known(b, blocks'[b], HandleOf[c], Lost(c)) = {}
  PROVE  ClientMoves(c)
<1>1. CASE todo = {}
  <2>1. Finish(c, "released")
    BY <1>1 DEF Release
  <2> QED BY <1>1, <2>1, FinishMoves DEF Outcomes
<1>2. CASE todo # {}
  <2>1. PICK b \in todo :
          client' = [client EXCEPT ![c].state = "releasing", ![c].addr = <<>>,
                       ![c].at = [Rest EXCEPT !.pc = "query", !.then = "release",
                                              !.todo = todo, !.b = b, !.i = 1]]
    BY <1>2 DEF Release
  <2>2. PICK q : q = [Rest EXCEPT !.pc = "query", !.then = "release",
                                  !.todo = todo, !.b = b, !.i = 1]
    OBVIOUS
  <2>3. /\ q \in CallState /\ q.pc = "query" /\ q.then = "release"
        /\ q.todo = todo /\ q.b = b
    BY <2>2, RestType DEF CallState, Places, Purposes
  <2>4. CallInv(blocks', handles'[HandleOf[c]], HandleOf[c], q, Lost(c))
    <3>1. PurposeInv(q)
      BY <2>3 DEF PurposeInv
    <3>2. CopyInv(blocks', HandleOf[c], q)
      BY <2>3 DEF CopyInv, Assigning
    <3>3. HandleCopyInv(handles'[HandleOf[c]], q)
      BY <2>3 DEF HandleCopyInv
    <3>4. CountInv(blocks', handles'[HandleOf[c]], HandleOf[c], q, Lost(c))
      BY <2>3 DEF CountInv, Pending, CoveredNext
    <3>5. ReleaseInv(blocks', HandleOf[c], q, Lost(c))
      BY <2>3 DEF ReleaseInv
    <3> QED BY <2>3, <3>1, <3>2, <3>3, <3>4, <3>5 DEF CallInv
  <2> DEFINE x == [client[c] EXCEPT !.state = "releasing", !.addr = <<>>, !.at = q]
  <2>5. client' = [client EXCEPT ![c] = x]
    BY <2>1, <2>2
  <2>6. client[c] \in ClientState
    BY Busy
  <2>7. x \in ClientState /\ x.at = q /\ x.state = "releasing" /\ x.lost = Lost(c)
    BY <2>3, <2>6 DEF ClientState, Lost
  <2> HIDE DEF x
  <2>8. ClientInv(blocks', handles'[HandleOf[c]], HandleOf[c], x)
    BY <2>4, <2>7 DEF ClientInv, HeldInv, ReleasedInv, Outcomes
  <2> QED BY <2>5, <2>8 DEF ClientMoves
<1> QED BY <1>1, <1>2


\* A client that reads, or whose write fits its handle, keeps its count.
LEMMA Unwritten ==
  ASSUME ClientsInv, NEW c \in Clients, blocks' = blocks, handles' = handles
  PROVE  CoveredNext(c)
BY Busy DEF CoveredNext, CallInv, CountInv

\* The copy of a block is taken and the address assigned in it.
LEMMA AssignMoves ==
  ASSUME ClientsInv, NEW c \in Clients, client[c].state \notin Outcomes,
         CoveredNext(c), NEW b \in BlockNames, NEW v, v = blocks'[b], Sound(v),
         v.exists, NEW i \in Nat, Assign(c, b, v, i)
  PROVE  ClientMoves(c)
<1>1. CASE v.free = <<>>
  BY <1>1, AgainMoves DEF Assign
<1>2. CASE v.free # <<>>
  <2> DEFINE h == HandleOf[c]
  <2>1. PICK r : r = At(c)
    OBVIOUS
  <2>2. PICK w : w = AssignFirst(v, h)
    OBVIOUS
  <2>3. PICK q : q = [r EXCEPT !.pc = "handle", !.then = "increment", !.k = 1,
                        !.b = b, !.i = i, !.num = 1, !.o = Head(v.free), !.v = w]
    OBVIOUS
  <2>4. r \in CallState /\ h \in Handles
    BY <2>1, Busy
  <2>5. /\ Sound(w) /\ w.exists /\ w.rv = v.rv /\ w \in BlockState
        /\ Head(v.free) \in Nat
    <3>1. Sound(w) /\ w.exists /\ w.rv = v.rv /\ Head(v.free) \in Ordinals
      BY <1>2, <2>2, <2>4, AssignFacts
    <3> QED BY <3>1, FiniteOrdinals DEF Sound
  <2>6. /\ q \in CallState /\ q.pc = "handle" /\ q.then = "increment"
        /\ q.b = b /\ q.num = 1 /\ q.v = w /\ q.o = Head(v.free)
    <3>1. PICK o \in Nat : o = Head(v.free)
      BY <2>5
    <3>2. q = [r EXCEPT !.pc = "handle", !.then = "increment", !.k = 1,
                        !.b = b, !.i = i, !.num = 1, !.o = o, !.v = w]
      BY <2>3, <3>1
    <3> QED BY <2>4, <2>5, <3>1, <3>2 DEF CallState, Places, Purposes
  <2>7. PurposeInv(q)
    BY <2>6 DEF PurposeInv
  <2>8. CopyInv(blocks', h, q)
    <3>1. v.rv \in Nat
      BY DEF Sound, BlockState
    <3>2. CopyOf(blocks', b, w)
      BY <2>5, <3>1 DEF CopyOf
    <3> QED BY <1>2, <2>2, <2>6, <3>2 DEF CopyInv
  <2>9. HandleCopyInv(handles'[h], q)
    BY <2>6 DEF HandleCopyInv
  <2>10. CountInv(blocks', handles'[h], h, q, Lost(c))
    BY <2>6 DEF CountInv, Pending, CoveredNext
  <2>11. ReleaseInv(blocks', h, q, Lost(c))
    BY <2>6 DEF ReleaseInv
  <2>12. CallInv(blocks', handles'[h], h, q, Lost(c))
    BY <2>6, <2>7, <2>8, <2>9, <2>10, <2>11 DEF CallInv
  <2>13. Goto(c, q)
    BY <1>2, <2>1, <2>2, <2>3 DEF Assign
  <2> QED BY <2>12, <2>13, GotoMoves
<1> QED BY <1>1, <1>2

LEMMA NextBlockMoves ==
  ASSUME ClientsInv, NEW c \in Clients, CoveredNext(c), At(c).then = "release",
         ReleaseInv(blocks', HandleOf[c], At(c), Lost(c)),
         Known(At(c).b, blocks'[At(c).b], HandleOf[c], Lost(c)) = {}, NextBlock(c)
  PROVE  ClientMoves(c)
<1>1. PICK todo : todo = At(c).todo \ {At(c).b}
  OBVIOUS
<1>2. todo \in SUBSET BlockNames
  BY <1>1, Busy DEF CallState
<1>3. \A b \in BlockNames : b \notin todo => Known(b, blocks'[b], HandleOf[c], Lost(c)) = {}
  BY <1>1 DEF ReleaseInv
<1>4. Release(c, todo)
  BY <1>1 DEF NextBlock
<1> QED BY <1>2, <1>3, <1>4, ReleaseMoves

LEMMA BlockMissingMoves ==
  ASSUME ClientsInv, NEW c \in Clients, client[c].state \notin Outcomes,
         CoveredNext(c), ReleaseInv(blocks', HandleOf[c], At(c), Lost(c)),
         At(c).then = "release" => Known(At(c).b, blocks'[At(c).b], HandleOf[c], Lost(c)) = {},
         BlockMissing(c)
  PROVE  ClientMoves(c)
BY NextBlockMoves, AgainMoves DEF BlockMissing

LEMMA DecrementedMoves ==
  ASSUME ClientsInv, NEW c \in Clients, client[c].state \notin Outcomes,
         CoveredNext(c), ReleaseInv(blocks', HandleOf[c], At(c), Lost(c)),
         At(c).then = "release" => Known(At(c).b, blocks'[At(c).b], HandleOf[c], Lost(c)) = {},
         Decremented(c)
  PROVE  ClientMoves(c)
<1>1. CASE At(c).then = "release"
  BY <1>1, NextBlockMoves DEF Decremented
<1>2. CASE At(c).then = "reassign"
  <2> DEFINE h == HandleOf[c]
  <2>1. PICK r : r = At(c)
    OBVIOUS
  <2>2. PICK q : q = [r EXCEPT !.pc = "query", !.k = 0, !.hdl = NoHandle]
    OBVIOUS
  <2>3. r \in CallState /\ r.then = "reassign" /\ PurposeInv(r)
    BY <1>2, <2>1, Busy DEF CallInv
  <2>4. /\ q \in CallState /\ q.pc = "query" /\ q.then = "reassign"
        /\ q.b = r.b /\ q.num = r.num
    BY <2>2, <2>3, RestType DEF CallState, Places
  <2>5. PurposeInv(q)
    BY <2>3, <2>4 DEF PurposeInv
  <2>6. CopyInv(blocks', h, q)
    BY <2>4 DEF CopyInv, Assigning
  <2>7. HandleCopyInv(handles'[h], q)
    BY <2>4 DEF HandleCopyInv
  <2>8. CountInv(blocks', handles'[h], h, q, Lost(c))
    BY <2>4 DEF CountInv, Pending, CoveredNext
  <2>9. ReleaseInv(blocks', h, q, Lost(c))
    BY <2>4 DEF ReleaseInv
  <2>10. CallInv(blocks', handles'[h], h, q, Lost(c))
    BY <2>4, <2>5, <2>6, <2>7, <2>8, <2>9 DEF CallInv
  <2>11. Goto(c, q)
    BY <1>2, <2>1, <2>2 DEF Decremented
  <2> QED BY <2>10, <2>11, GotoMoves
<1>3. CASE At(c).then \notin {"release", "reassign"}
  BY <1>3, AgainMoves DEF Decremented
<1> QED BY <1>1, <1>2, <1>3

\* A block for which the handle counts nothing has none of its addresses.
LEMMA NothingCounted ==
  ASSUME NEW bs, NEW hd, NEW h, NEW l, Covered(bs, hd, h, l), NEW b \in BlockNames,
         hd.count[b] = 0
  PROVE  Known(b, bs[b], h, l) = {}
<1>1. Cardinality(Known(b, bs[b], h, l)) <= 0
  BY DEF Covered
<1> QED BY <1>1, KnownFacts

\* The handle is not there: it counts nothing, so that nothing is allocated.
LEMMA HandleMissingMoves ==
  ASSUME ClientsInv, NEW c \in Clients, client[c].state \notin Outcomes,
         CoveredNext(c), blocks' = blocks,
         ~handles'[HandleOf[c]].exists, NEW hd, hd = handles'[HandleOf[c]],
         \A b \in BlockNames : hd.count[b] = 0,
         At(c).pc \in {"handle", "reapHandle"}, HandleMissing(c)
  PROVE  ClientMoves(c)
<1> DEFINE h == HandleOf[c]
<1>1. PICK r : r = At(c)
  OBVIOUS
<1>2. /\ r \in CallState /\ PurposeInv(r) /\ CopyInv(blocks', h, r)
      /\ ReleaseInv(blocks', h, r, Lost(c))
  BY <1>1, Busy DEF CallInv
<1>3. r.pc \in {"handle", "reapHandle"}
  BY <1>1
<1>4. CASE r.then = "increment"
  <2>1. PICK q : q = [r EXCEPT !.pc = "count", !.hdl = NoHandle]
    OBVIOUS
  <2>2. /\ q \in CallState /\ q.pc = "count" /\ q.then = "increment"
        /\ q.b = r.b /\ q.num = r.num /\ q.v = r.v /\ q.o = r.o /\ q.hdl = NoHandle
    BY <1>2, <1>4, <2>1, RestType DEF CallState, Places
  <2>3. PurposeInv(q)
    BY <1>2, <1>4, <2>2 DEF PurposeInv
  <2>4. CopyInv(blocks', h, q)
    <3>1. Assigning(r)
      BY <1>3, <1>4 DEF Assigning
    <3> QED BY <1>2, <2>2, <3>1 DEF CopyInv
  <2>5. HandleCopyInv(hd, q)
    BY <2>2 DEF HandleCopyInv, NoHandle
  <2>6. CountInv(blocks', hd, h, q, Lost(c))
    BY <2>2 DEF CountInv, Pending, CoveredNext
  <2>7. ReleaseInv(blocks', h, q, Lost(c))
    BY <2>2 DEF ReleaseInv
  <2>8. CallInv(blocks', handles'[h], h, q, Lost(c))
    BY <2>2, <2>3, <2>4, <2>5, <2>6, <2>7 DEF CallInv
  <2>9. Goto(c, q)
    BY <1>1, <1>4, <2>1 DEF HandleMissing
  <2> QED BY <2>8, <2>9, GotoMoves
<1>5. CASE r.then = "start"
  <2>1. \A b \in BlockNames : Known(b, blocks'[b], h, Lost(c)) = {}
    BY NothingCounted DEF CoveredNext
  <2>2. Finish(c, "released")
    BY <1>1, <1>5 DEF HandleMissing
  <2> QED BY <2>1, <2>2, FinishMoves DEF Outcomes
<1>6. CASE r.then \notin {"increment", "start"}
  <2>1. Decremented(c)
    BY <1>1, <1>6 DEF HandleMissing
  <2>2. r.then = "release" => Known(r.b, blocks'[r.b], h, Lost(c)) = {}
    BY <1>2, <1>3 DEF ReleaseInv
  <2> QED BY <1>1, <1>2, <2>1, <2>2, DecrementedMoves
<1> QED BY <1>4, <1>5, <1>6

\* The handle is there and counts the addresses.
LEMMA HandleFoundMoves ==
  ASSUME ClientsInv, NEW c \in Clients, client[c].state \notin Outcomes,
         blocks' = blocks, handles' = handles, At(c).pc = "handle",
         NEW hd \in HandleState, hd = handles[HandleOf[c]], hd.exists, ~hd.deleted,
         HandleFound(c, hd)
  PROVE  ClientMoves(c)
<1> DEFINE h == HandleOf[c]
<1>1. PICK r : r = At(c)
  OBVIOUS
<1>2. /\ r \in CallState /\ PurposeInv(r) /\ CopyInv(blocks', h, r)
      /\ CountInv(blocks', hd, h, r, Lost(c)) /\ ReleaseInv(blocks', h, r, Lost(c))
      /\ r.pc = "handle"
  BY <1>1, Busy DEF CallInv
<1>3. CoveredNext(c)
  BY Unwritten
<1>4. CASE r.then = "increment"
  <2>1. PICK q : q = [r EXCEPT !.pc = "count", !.hdl = hd]
    OBVIOUS
  <2>2. /\ q \in CallState /\ q.pc = "count" /\ q.then = "increment"
        /\ q.b = r.b /\ q.num = r.num /\ q.v = r.v /\ q.o = r.o /\ q.hdl = hd
    BY <1>2, <1>4, <2>1 DEF CallState, Places
  <2>3. PurposeInv(q)
    BY <1>2, <1>4, <2>2 DEF PurposeInv
  <2>4. CopyInv(blocks', h, q)
    <3>1. Assigning(r)
      BY <1>2, <1>4 DEF Assigning
    <3> QED BY <1>2, <2>2, <3>1 DEF CopyInv
  <2>5. HandleCopyInv(hd, q)
    BY <2>2 DEF HandleCopyInv
  <2>6. CountInv(blocks', hd, h, q, Lost(c))
    BY <1>3, <2>2 DEF CountInv, Pending, CoveredNext
  <2>7. ReleaseInv(blocks', h, q, Lost(c))
    BY <2>2 DEF ReleaseInv
  <2>8. CallInv(blocks', handles'[h], h, q, Lost(c))
    BY <2>2, <2>3, <2>4, <2>5, <2>6, <2>7 DEF CallInv
  <2>9. Goto(c, q)
    BY <1>1, <1>4, <2>1 DEF HandleFound
  <2> QED BY <2>8, <2>9, GotoMoves
<1>5. CASE r.then # "increment" /\ hd.count[r.b] < r.num
  <2>1. Decremented(c)
    BY <1>1, <1>5 DEF HandleFound
  <2>2. r.then = "release" => Known(r.b, blocks'[r.b], h, Lost(c)) = {}
    BY <1>2 DEF ReleaseInv
  <2> QED BY <1>1, <1>2, <1>3, <2>1, <2>2, DecrementedMoves
<1>6. CASE r.then # "increment" /\ ~(hd.count[r.b] < r.num)
  <2>0. r.then \in {"reassign", "failed", "release"} /\ r.b \in BlockNames
    BY <1>2, <1>6 DEF PurposeInv
  <2>a. r.num <= hd.count[r.b]
    <3>1. r.num \in Nat /\ hd.count[r.b] \in Nat
      BY <1>2, <2>0 DEF CallState, HandleState
    <3> QED BY <1>6, <3>1
  <2>1. PICK q : q = [r EXCEPT !.pc = "uncount", !.hdl = hd]
    OBVIOUS
  <2>2. /\ q \in CallState /\ q.pc = "uncount" /\ q.then = r.then
        /\ q.b = r.b /\ q.num = r.num /\ q.todo = r.todo /\ q.hdl = hd
    BY <1>2, <2>1 DEF CallState, Places
  <2>3. PurposeInv(q)
    BY <1>2, <2>0, <2>2 DEF PurposeInv
  <2>4. CopyInv(blocks', h, q)
    BY <2>2 DEF CopyInv, Assigning
  <2>5. HandleCopyInv(hd, q)
    BY <2>2, <2>a DEF HandleCopyInv
  <2>6. CountInv(blocks', hd, h, q, Lost(c))
    BY <1>2, <2>2 DEF CountInv, Pending
  <2>7. ReleaseInv(blocks', h, q, Lost(c))
    BY <1>2, <2>2 DEF ReleaseInv
  <2>8. CallInv(blocks', handles'[h], h, q, Lost(c))
    BY <2>2, <2>3, <2>4, <2>5, <2>6, <2>7 DEF CallInv
  <2>9. Goto(c, q)
    BY <1>1, <1>6, <2>1 DEF HandleFound
  <2> QED BY <2>8, <2>9, GotoMoves
<1> QED BY <1>4, <1>5, <1>6

-----------------------------------------------------------------------------
(* The steps of a client: one that only reads, one that writes a block, and  *)
(* one that writes its handle.                                               *)

ClientParts == BlocksInv /\ HandlesInv /\ ClientsInv

\* What a step leaves to the controller's part of the invariant.
Kept == BlocksInv' /\ HandlesInv' /\ ClientsInv' /\ Follows(blocks, blocks')

LEMMA ReadStep ==
  ASSUME ClientParts, NEW c \in Clients, UNCHANGED <<blocks, handles>>, ClientMoves(c)
  PROVE  Kept
<1>1. BlocksInv' /\ Follows(blocks, blocks') /\ \A h : Spares(blocks, blocks', h)
  BY NoBlockWritten DEF ClientParts
<1>2. HandlesInv'
  BY DEF ClientParts, HandlesInv
<1>3. ClientsInv'
  BY <1>1, ClientStepped DEF ClientParts
<1> QED BY <1>1, <1>2, <1>3 DEF Kept

LEMMA BlockStep ==
  ASSUME ClientParts, NEW c \in Clients, UNCHANGED handles, NEW b \in BlockNames,
         NEW w, Evolves(blocks[b], w), blocks' = [blocks EXCEPT ![b] = w],
         \A g \in Handles : g # HandleOf[c] => Keeps(blocks[b], w, g),
         ClientMoves(c)
  PROVE  Kept
<1>1. /\ BlocksInv' /\ Follows(blocks, blocks')
      /\ \A h : Keeps(blocks[b], w, h) => Spares(blocks, blocks', h)
  BY BlockWritten DEF ClientParts
<1>2. HandlesInv'
  BY DEF ClientParts, HandlesInv
<1>3. ClientsInv'
  BY <1>1, ClientStepped DEF ClientParts
<1> QED BY <1>1, <1>2, <1>3 DEF Kept

LEMMA HandleStep ==
  ASSUME ClientParts, NEW c \in Clients, UNCHANGED blocks, NEW w, HandleInv(w),
         PutHandle(HandleOf[c], w), ClientMoves(c)
  PROVE  Kept
<1>1. BlocksInv' /\ Follows(blocks, blocks') /\ \A h : Spares(blocks, blocks', h)
  BY NoBlockWritten DEF ClientParts
<1>2. w \in HandleState /\ HandleOf[c] \in Handles /\ handles \in [Handles -> HandleState]
  BY IPAMAssumption DEF HandleInv, ClientParts, HandlesInv
<1>3. \A g \in Handles : handles'[g] = IF g = HandleOf[c] THEN w ELSE handles[g]
  BY <1>2 DEF PutHandle
<1>4. HandlesInv'
  BY <1>2, <1>3 DEF PutHandle, ClientParts, HandlesInv
<1>5. ClientsInv'
  BY <1>1, <1>3, ClientStepped DEF ClientParts
<1> QED BY <1>1, <1>4, <1>5 DEF Kept

LEMMA AutoAssignKept ==
  ASSUME ClientParts, NEW c \in Clients, AutoAssign(c)
  PROVE  Kept
<1>1. UNCHANGED <<blocks, handles>> /\ CoveredNext(c)
  BY Unwritten DEF AutoAssign, ClientParts
<1>2. CASE Finish(c, "failed")
  BY <1>1, <1>2, FinishMoves, ReadStep DEF ClientParts, Outcomes
<1>3. CASE pool.exists /\ ~pool.disabled
  <2>1. PICK r : r = At(c)
    OBVIOUS
  <2>2. r \in CallState /\ r = client[c].at /\ client[c] \in ClientState /\ PurposeInv(r)
    BY <2>1, Busy DEF ClientParts, CallInv
  <2>3. r.then = ""
    <3>1. CASE client[c].state = "new"
      <4>1. client[c].at = Rest
        BY <3>1 DEF ClientParts, ClientsInv, ClientInv, Outcomes
      <4> QED BY <2>2, <4>1, RestType
    <3>2. CASE r.pc = "pool"
      BY <2>2, <3>2 DEF PurposeInv
    <3> QED BY <2>1, <3>1, <3>2 DEF AutoAssign
  <2>4. PICK t \in Nat : t = IF r.tries = 0 THEN 1 ELSE r.tries
    BY <2>2 DEF CallState
  <2>5. PICK q : q = [r EXCEPT !.pc = "list", !.tries = t]
    OBVIOUS
  <2>6. q \in CallState /\ q.pc = "list" /\ q.then = ""
    BY <2>2, <2>3, <2>5 DEF CallState, Places
  <2>7. CallInv(blocks', handles'[HandleOf[c]], HandleOf[c], q, Lost(c))
    BY <1>1, <2>6, FreshCall DEF CoveredNext
  <2> DEFINE x == [client[c] EXCEPT !.state = "assigning", !.at = q]
  <2>8. client' = [client EXCEPT ![c] = x]
    <3>1. q = [r EXCEPT !.pc = "list", !.tries = IF r.tries = 0 THEN 1 ELSE r.tries]
      BY <2>4, <2>5
    <3>2. client' = [client EXCEPT ![c].state = "assigning", ![c].at = q]
      BY <1>3, <2>1, <3>1 DEF AutoAssign
    <3> QED BY <3>2
  <2>9. x \in ClientState /\ x.at = q /\ x.state = "assigning" /\ x.lost = Lost(c)
    BY <2>2, <2>6 DEF ClientState, Lost
  <2> HIDE DEF x
  <2>10. ClientInv(blocks', handles'[HandleOf[c]], HandleOf[c], x)
    BY <2>7, <2>9 DEF ClientInv, HeldInv, ReleasedInv, Outcomes
  <2>11. ClientMoves(c)
    BY <2>8, <2>10 DEF ClientMoves
  <2> QED BY <1>1, <2>11, ReadStep
<1> QED BY <1>2, <1>3 DEF AutoAssign

\* The list of blocks names blocks that exist, each once in the order of Blocks.
LEMMA ListedFacts ==
  /\ Listed \in Seq(BlockNames) /\ Len(Listed) \in Nat
  /\ \A n \in 1..Len(Listed) : Listed[n] \in BlockNames /\ blocks[Listed[n]].exists
  /\ \A b \in BlockNames : blocks[b].exists => \E n \in 1..Len(Listed) : Listed[n] = b
<1> DEFINE S == {n \in DOMAIN Blocks : blocks[Blocks[n]].exists}
<1>1. Blocks \in Seq(BlockNames) /\ DOMAIN Blocks = 1..Len(Blocks) /\ Len(Blocks) \in Nat
  BY IPAMAssumption, LenProperties DEF BlockNames
<1>2. S \in SUBSET (1..Len(Blocks)) /\ \A n \in S : blocks[Blocks[n]].exists
  BY <1>1
<1>3. \A b \in BlockNames : blocks[b].exists => \E n \in S : Blocks[n] = b
  BY DEF BlockNames, ToSet
<1>4. Listed = Subsequence(Blocks, S)
  BY DEF Listed
<1> HIDE DEF S
<1>5. /\ Subsequence(Blocks, S) \in Seq(BlockNames)
      /\ Len(Subsequence(Blocks, S)) = Cardinality(S) /\ Cardinality(S) \in Nat
      /\ \A x \in S : /\ Rank(S, x) \in 1..Cardinality(S)
                      /\ Subsequence(Blocks, S)[Rank(S, x)] = Blocks[x]
      /\ \A n \in 1..Cardinality(S) : \E x \in S : Subsequence(Blocks, S)[n] = Blocks[x]
  BY <1>1, <1>2, SubsequenceList
<1>6. \A n \in 1..Len(Listed) : Listed[n] \in BlockNames /\ blocks[Listed[n]].exists
  <2> TAKE n \in 1..Len(Listed)
  <2>1. PICK x \in S : Listed[n] = Blocks[x]
    BY <1>4, <1>5
  <2>2. Blocks[x] \in BlockNames
    BY <1>1, <1>2, ElementOfSeq
  <2> QED BY <1>2, <2>1, <2>2
<1>7. \A b \in BlockNames : blocks[b].exists => \E n \in 1..Len(Listed) : Listed[n] = b
  <2> TAKE b \in BlockNames
  <2>1. HAVE blocks[b].exists
  <2>2. PICK x \in S : Blocks[x] = b
    BY <1>3, <2>1
  <2>3. Rank(S, x) \in 1..Len(Listed) /\ Listed[Rank(S, x)] = b
    BY <1>4, <1>5, <2>2
  <2> QED BY <2>3
<1> QED BY <1>4, <1>5, <1>6, <1>7

LEMMA MinIn ==
  ASSUME NEW S \in SUBSET Nat, S # {}
  PROVE  Min(S) \in S
<1>1. \E x \in S : \A y \in S : x <= y
  BY LeastElement
<1> QED BY <1>1 DEF Min

LEMMA FindBlockKept ==
  ASSUME ClientParts, NEW c \in Clients, FindBlock(c)
  PROVE  Kept
<1> DEFINE fits == {n \in DOMAIN Listed : blocks[Listed[n]].free # <<>>}
<1>1. /\ UNCHANGED <<blocks, handles>> /\ At(c).pc = "list"
      /\ IF fits = {} THEN Goto(c, [At(c) EXCEPT !.pc = "find"])
         ELSE Assign(c, Listed[Min(fits)], blocks[Listed[Min(fits)]], 1)
  BY DEF FindBlock
<1>2. CoveredNext(c) /\ client[c].state \notin Outcomes
  BY <1>1, Unwritten, Busy DEF ClientParts
<1>3. ASSUME fits = {} PROVE ClientMoves(c)
  <2>1. PICK r : r = At(c)
    OBVIOUS
  <2>2. r \in CallState /\ r.then = ""
    BY <1>1, <2>1, Busy DEF ClientParts, CallInv, PurposeInv
  <2>3. PICK q : q = [r EXCEPT !.pc = "find"]
    OBVIOUS
  <2>4. q \in CallState /\ q.pc = "find" /\ q.then = ""
    BY <2>2, <2>3 DEF CallState, Places
  <2>5. CallInv(blocks', handles'[HandleOf[c]], HandleOf[c], q, Lost(c))
    BY <1>2, <2>4, FreshCall DEF CoveredNext
  <2> QED BY <1>1, <1>2, <1>3, <2>1, <2>3, <2>5, GotoMoves DEF ClientParts
<1>4. ASSUME fits # {} PROVE ClientMoves(c)
  <2>1. PICK b : b = Listed[Min(fits)]
    OBVIOUS
  <2>2. fits \in SUBSET Nat /\ DOMAIN Listed = 1..Len(Listed)
    BY ListedFacts, LenProperties
  <2>3. Min(fits) \in 1..Len(Listed)
    <3>1. Min(fits) \in fits
      <4> HIDE DEF fits
      <4> QED BY <1>4, <2>2, MinIn
    <3> QED BY <2>2, <3>1
  <2>4. b \in BlockNames /\ blocks[b].exists
    BY <2>1, <2>3, ListedFacts
  <2>5. Sound(blocks[b]) /\ blocks[b] = blocks'[b]
    BY <1>1, <2>4 DEF ClientParts, BlocksInv
  <2>6. Assign(c, b, blocks[b], 1)
    BY <1>1, <1>4, <2>1
  <2> HIDE DEF fits
  <2> QED BY <1>2, <2>4, <2>5, <2>6, AssignMoves DEF ClientParts
<1> QED BY <1>1, <1>3, <1>4, ReadStep

LEMMA FindUnclaimedBlockKept ==
  ASSUME ClientParts, NEW c \in Clients, FindUnclaimedBlock(c)
  PROVE  Kept
<1> DEFINE unclaimed == {n \in DOMAIN Blocks : ~blocks[Blocks[n]].exists}
<1>1. /\ UNCHANGED <<blocks, handles>> /\ At(c).pc = "find"
      /\ IF unclaimed = {} THEN Finish(c, "failed")
         ELSE Goto(c, [At(c) EXCEPT !.pc = "create", !.b = Blocks[Min(unclaimed)]])
  BY DEF FindUnclaimedBlock
<1>2. CoveredNext(c) /\ client[c].state \notin Outcomes
  BY <1>1, Unwritten, Busy DEF ClientParts
<1>3. ASSUME unclaimed = {} PROVE ClientMoves(c)
  BY <1>1, <1>2, <1>3, FinishMoves DEF ClientParts, Outcomes
<1>4. ASSUME unclaimed # {} PROVE ClientMoves(c)
  <2> DEFINE h == HandleOf[c]
  <2>1. PICK b : b = Blocks[Min(unclaimed)]
    OBVIOUS
  <2>2. /\ Blocks \in Seq(BlockNames) /\ DOMAIN Blocks = 1..Len(Blocks)
        /\ unclaimed \in SUBSET Nat
    BY IPAMAssumption, LenProperties DEF BlockNames
  <2>3. Min(unclaimed) \in 1..Len(Blocks)
    <3>1. Min(unclaimed) \in unclaimed
      <4> HIDE DEF unclaimed
      <4> QED BY <1>4, <2>2, MinIn
    <3> QED BY <2>2, <3>1
  <2>4. b \in BlockNames
    BY <2>1, <2>2, <2>3, ElementOfSeq
  <2>5. PICK r : r = At(c)
    OBVIOUS
  <2>6. r \in CallState /\ r.then = ""
    BY <1>1, <2>5, Busy DEF ClientParts, CallInv, PurposeInv
  <2>7. PICK q : q = [r EXCEPT !.pc = "create", !.b = b]
    OBVIOUS
  <2>8. q \in CallState /\ q.pc = "create" /\ q.then = "" /\ q.b = b
    BY <2>4, <2>6, <2>7 DEF CallState, Places
  <2>9. PurposeInv(q)
    BY <2>4, <2>8 DEF PurposeInv
  <2>10. CopyInv(blocks', h, q)
    BY <2>8 DEF CopyInv, Assigning
  <2>11. HandleCopyInv(handles'[h], q) /\ ReleaseInv(blocks', h, q, Lost(c))
    BY <2>8 DEF HandleCopyInv, ReleaseInv
  <2>12. CountInv(blocks', handles'[h], h, q, Lost(c))
    BY <1>2, <2>8 DEF CountInv, Pending, CoveredNext
  <2>13. CallInv(blocks', handles'[h], h, q, Lost(c))
    BY <2>8, <2>9, <2>10, <2>11, <2>12 DEF CallInv
  <2>14. Goto(c, q)
    BY <1>1, <1>4, <2>1, <2>5, <2>7
  <2> HIDE DEF unclaimed
  <2> QED BY <1>2, <2>13, <2>14, GotoMoves DEF ClientParts
<1> QED BY <1>1, <1>3, <1>4, ReadStep

\* The call of a client whose addresses a step spares still fits.
LEMMA CallAfter ==
  ASSUME ClientParts, NEW c \in Clients, handles' = handles,
         Follows(blocks, blocks'), Spares(blocks, blocks', HandleOf[c])
  PROVE  /\ CallInv(blocks', handles'[HandleOf[c]], HandleOf[c], At(c), Lost(c))
         /\ CoveredNext(c)
<1>1. /\ HandleOf[c] \in Handles
      /\ CallInv(blocks, handles[HandleOf[c]], HandleOf[c], At(c), Lost(c))
  BY Busy DEF ClientParts
<1>2. blocks \in [BlockNames -> BlockState] /\ handles[HandleOf[c]] \in HandleState
  BY <1>1 DEF ClientParts, BlocksInv, HandlesInv
<1>3. CallInv(blocks', handles[HandleOf[c]], HandleOf[c], At(c), Lost(c))
  BY <1>1, <1>2, CallKept
<1> QED BY <1>3 DEF CoveredNext, CallInv, CountInv

LEMMA CreateBlockKept ==
  ASSUME ClientParts, NEW c \in Clients, CreateBlock(c)
  PROVE  Kept
<1>1. PICK b : b = At(c).b
  OBVIOUS
<1>2. PICK new : new = NewBlock(blocks[b].rv)
  OBVIOUS
<1>3. /\ At(c).pc = "create" /\ UNCHANGED handles
      /\ IF blocks[b].exists
         THEN Finish(c, "panicked") /\ UNCHANGED <<blocks, queued>>
         ELSE Assign(c, b, new, 1) /\ PutBlock(b, new)
  BY <1>1, <1>2 DEF CreateBlock
<1>4. b \in BlockNames /\ client[c].state \notin Outcomes /\ HandleOf[c] \in Handles
  BY <1>1, <1>3, Busy DEF ClientParts, CallInv, PurposeInv
<1>5. Sound(blocks[b]) /\ blocks[b].rv \in Nat
  BY <1>4 DEF ClientParts, BlocksInv, Sound, BlockState
<1>6. CASE blocks[b].exists
  <2>1. UNCHANGED blocks /\ Finish(c, "panicked")
    BY <1>3, <1>6
  <2>2. CoveredNext(c)
    BY <1>3, <2>1, Unwritten DEF ClientParts
  <2> QED BY <1>3, <2>1, <2>2, FinishMoves, ReadStep DEF ClientParts, Outcomes
<1>7. CASE ~blocks[b].exists
  <2>1. Assign(c, b, new, 1) /\ blocks' = [blocks EXCEPT ![b] = new]
    BY <1>3, <1>7 DEF PutBlock
  <2>2. Evolves(blocks[b], new) /\ \A h \in Handles : Keeps(blocks[b], new, h)
    BY <1>2, <1>5, <1>7, Created
  <2>3. Sound(new) /\ new.exists
    BY <1>2, <1>5, NewBlockFacts
  <2>4. /\ Follows(blocks, blocks') /\ blocks'[b] = new
        /\ Spares(blocks, blocks', HandleOf[c])
    BY <1>4, <2>1, <2>2, BlockWritten DEF ClientParts
  <2>5. CoveredNext(c)
    BY <1>3, <2>4, CallAfter
  <2>6. ClientMoves(c)
    BY <1>4, <2>1, <2>3, <2>4, <2>5, AssignMoves DEF ClientParts
  <2> QED BY <1>3, <1>4, <2>1, <2>2, <2>6, BlockStep
<1> QED BY <1>6, <1>7

LEMMA QueryBlockKept ==
  ASSUME ClientParts, NEW c \in Clients, QueryBlock(c)
  PROVE  Kept
<1> DEFINE h == HandleOf[c]
<1>1. PICK r : r = At(c)
  OBVIOUS
<1>2. PICK v : v = blocks[r.b]
  OBVIOUS
<1>3. /\ r.pc = "query" /\ UNCHANGED <<blocks, handles>>
      /\ CASE ~v.exists -> BlockMissing(c)
           [] v.exists /\ v.deleted -> Goto(c, [r EXCEPT !.pc = "reap"])
           [] OTHER -> BlockFound(c, v)
  BY <1>1, <1>2 DEF QueryBlock
<1>4. /\ r \in CallState /\ h \in Handles /\ client[c].state \notin Outcomes
      /\ PurposeInv(r) /\ CountInv(blocks', handles'[h], h, r, Lost(c))
      /\ ReleaseInv(blocks', h, r, Lost(c)) /\ r.then \in {"release", "reassign"}
      /\ r.b \in BlockNames /\ r.i \in Nat
  <2>1. /\ r \in CallState /\ h \in Handles /\ client[c].state \notin Outcomes
        /\ CallInv(blocks, handles[h], h, r, Lost(c))
    BY <1>1, <1>3, Busy DEF ClientParts
  <2>2. /\ PurposeInv(r) /\ CountInv(blocks, handles[h], h, r, Lost(c))
        /\ ReleaseInv(blocks, h, r, Lost(c))
    BY <2>1 DEF CallInv
  <2>3. r.then \in {"release", "reassign"} /\ r.b \in BlockNames
    BY <1>3, <2>2 DEF PurposeInv
  <2>4. r.i \in Nat
    BY <2>1 DEF CallState
  <2> QED BY <1>3, <2>1, <2>2, <2>3, <2>4
<1>5. v = blocks'[r.b] /\ Sound(v) /\ v.exists \in BOOLEAN /\ v.deleted \in BOOLEAN
  BY <1>2, <1>3, <1>4 DEF ClientParts, BlocksInv, Sound, BlockState
<1>6. CoveredNext(c)
  BY <1>3, Unwritten DEF ClientParts
<1>7. CASE ~v.exists
  <2>1. BlockMissing(c) /\ Known(r.b, v, h, Lost(c)) = {}
    BY <1>3, <1>4, <1>5, <1>7, MissingIsFree, KnownFacts
  <2>2. ClientMoves(c)
    BY <1>1, <1>4, <1>5, <1>6, <2>1, BlockMissingMoves DEF ClientParts
  <2> QED BY <1>3, <2>2, ReadStep
<1>8. CASE v.exists /\ v.deleted
  <2>1. PICK q : q = [r EXCEPT !.pc = "reap"]
    OBVIOUS
  <2>2. /\ q \in CallState /\ q.pc = "reap" /\ q.then = r.then
        /\ q.b = r.b /\ q.num = r.num /\ q.todo = r.todo
    BY <1>4, <2>1 DEF CallState, Places
  <2>3. PurposeInv(q)
    BY <1>4, <2>2 DEF PurposeInv
  <2>4. CopyInv(blocks', h, q)
    BY <1>4, <2>2 DEF CopyInv, Assigning
  <2>5. HandleCopyInv(handles'[h], q)
    BY <2>2 DEF HandleCopyInv
  <2>6. CountInv(blocks', handles'[h], h, q, Lost(c))
    BY <1>6, <2>2 DEF CountInv, Pending, CoveredNext
  <2>7. ReleaseInv(blocks', h, q, Lost(c))
    BY <1>4, <2>2 DEF ReleaseInv
  <2>8. CallInv(blocks', handles'[h], h, q, Lost(c))
    BY <2>2, <2>3, <2>4, <2>5, <2>6, <2>7 DEF CallInv
  <2>9. Goto(c, q)
    BY <1>3, <1>8, <2>1
  <2>10. ClientMoves(c)
    BY <1>4, <2>8, <2>9, GotoMoves DEF ClientParts
  <2> QED BY <1>3, <2>10, ReadStep
<1>9. CASE v.exists /\ ~v.deleted
  <2>1. BlockFound(c, v)
    BY <1>3, <1>9
  <2>2. CASE r.then = "reassign"
    <3>1. PICK i \in Nat : i = r.i + 1
      BY <1>4
    <3>2. Assign(c, r.b, v, i) \/ Again(c)
      BY <1>1, <2>1, <2>2, <3>1 DEF BlockFound
    <3>3. ASSUME Assign(c, r.b, v, i) PROVE ClientMoves(c)
      BY <1>4, <1>5, <1>6, <1>9, <3>3, AssignMoves DEF ClientParts
    <3>4. ASSUME Again(c) PROVE ClientMoves(c)
      BY <1>4, <1>6, <3>4, AgainMoves DEF ClientParts
    <3>5. ClientMoves(c)
      BY <3>2, <3>3, <3>4
    <3> QED BY <1>3, <3>5, ReadStep
  <2>3. CASE r.then = "release"
    <3>1. PICK n : n = Cardinality(OrdinalsOf(v, h))
      OBVIOUS
    <3>2. n \in Nat /\ (n = 0 => Known(r.b, v, h, Lost(c)) = {})
      BY <3>1, FiniteOrdinals, FS_EmptySet, KnownFacts
    <3>3. PICK w : w = Freed(v, h)
      OBVIOUS
    <3>4. IF n = 0 THEN NextBlock(c)
          ELSE Goto(c, [r EXCEPT !.pc = "free", !.num = n, !.v = w])
      BY <1>1, <2>1, <2>3, <3>1, <3>3 DEF BlockFound, Freed
    <3>5. CASE n = 0
      <4>1. ClientMoves(c)
        BY <1>1, <1>4, <1>5, <1>6, <2>3, <3>2, <3>4, <3>5, NextBlockMoves DEF ClientParts
      <4> QED BY <1>3, <4>1, ReadStep
    <3>6. CASE n # 0
      <4>1. PICK q : q = [r EXCEPT !.pc = "free", !.num = n, !.v = w]
        OBVIOUS
      <4>2. Sound(w) /\ w.exists /\ w.rv = v.rv /\ w \in BlockState /\ v.rv \in Nat
        <5>1. Sound(w) /\ w.exists /\ w.rv = v.rv
          BY <1>4, <1>5, <1>9, <3>3, FreeFacts
        <5> QED BY <1>5, <5>1 DEF Sound, BlockState
      <4>3. /\ q \in CallState /\ q.pc = "free" /\ q.then = "release"
            /\ q.b = r.b /\ q.v = w /\ q.todo = r.todo
        BY <1>4, <2>3, <3>2, <4>1, <4>2 DEF CallState, Places
      <4>4. PurposeInv(q)
        BY <1>4, <4>3 DEF PurposeInv
      <4>5. CopyInv(blocks', h, q)
        <5>1. CopyOf(blocks', r.b, w)
          BY <1>4, <1>5, <4>2 DEF CopyOf
        <5> QED BY <1>5, <3>3, <4>3, <5>1 DEF CopyInv, Assigning
      <4>6. HandleCopyInv(handles'[h], q)
        BY <4>3 DEF HandleCopyInv
      <4>7. CountInv(blocks', handles'[h], h, q, Lost(c))
        BY <1>6, <4>3 DEF CountInv, Pending, CoveredNext
      <4>8. ReleaseInv(blocks', h, q, Lost(c))
        BY <1>4, <2>3, <4>3 DEF ReleaseInv
      <4>9. CallInv(blocks', handles'[h], h, q, Lost(c))
        BY <4>3, <4>4, <4>5, <4>6, <4>7, <4>8 DEF CallInv
      <4>10. Goto(c, q)
        BY <3>4, <3>6, <4>1
      <4>11. ClientMoves(c)
        BY <1>4, <4>9, <4>10, GotoMoves DEF ClientParts
      <4> QED BY <1>3, <4>11, ReadStep
    <3> QED BY <3>5, <3>6
  <2> QED BY <1>4, <2>2, <2>3
<1> QED BY <1>5, <1>7, <1>8, <1>9

\* What a step of a client finds.
LEMMA InCall ==
  ASSUME ClientParts, NEW c \in Clients, NEW r, r = At(c), r.pc # "idle"
  PROVE  /\ r \in CallState /\ HandleOf[c] \in Handles
         /\ client[c] \in ClientState /\ client[c].state \notin Outcomes
         /\ PurposeInv(r) /\ CopyInv(blocks, HandleOf[c], r)
         /\ HandleCopyInv(handles[HandleOf[c]], r)
         /\ CountInv(blocks, handles[HandleOf[c]], HandleOf[c], r, Lost(c))
         /\ ReleaseInv(blocks, HandleOf[c], r, Lost(c))
         /\ handles[HandleOf[c]] \in HandleState /\ HandleInv(handles[HandleOf[c]])
BY Busy DEF ClientParts, CallInv, HandlesInv

LEMMA ReapBlockKept ==
  ASSUME ClientParts, NEW c \in Clients, ReapBlock(c)
  PROVE  Kept
<1> DEFINE h == HandleOf[c]
<1>1. PICK r : r = At(c)
  OBVIOUS
<1>2. PICK w : w = Gone(NoBlock, blocks[r.b])
  OBVIOUS
<1>3. /\ r.pc = "reap" /\ UNCHANGED handles /\ BlockMissing(c)
      /\ IF blocks[r.b].exists THEN blocks' = [blocks EXCEPT ![r.b] = w]
         ELSE UNCHANGED blocks
  BY <1>1, <1>2 DEF ReapBlock, PutBlock
<1>4. /\ r \in CallState /\ h \in Handles /\ client[c].state \notin Outcomes
      /\ r.b \in BlockNames
  BY <1>1, <1>3, InCall DEF PurposeInv
<1>5. Sound(blocks[r.b])
  BY <1>4 DEF ClientParts, BlocksInv
<1>6. CASE blocks[r.b].exists
  <2>1. blocks' = [blocks EXCEPT ![r.b] = w]
    BY <1>3, <1>6
  <2>2. /\ Evolves(blocks[r.b], w)
        /\ \A g \in Handles : Keeps(blocks[r.b], w, g) /\ OrdinalsOf(w, g) = {}
    BY <1>2, <1>5, Deleted
  <2>3. Follows(blocks, blocks') /\ blocks'[r.b] = w /\ Spares(blocks, blocks', h)
    BY <1>4, <2>1, <2>2, BlockWritten DEF ClientParts
  <2>4. CoveredNext(c) /\ ReleaseInv(blocks', h, r, Lost(c))
    BY <1>1, <1>3, <2>3, CallAfter DEF CallInv
  <2>5. Known(r.b, blocks'[r.b], h, Lost(c)) = {}
    BY <1>4, <2>2, <2>3, KnownFacts
  <2>6. ClientMoves(c)
    BY <1>1, <1>3, <1>4, <2>4, <2>5, BlockMissingMoves DEF ClientParts
  <2> QED BY <1>3, <1>4, <2>1, <2>2, <2>6, BlockStep
<1>7. CASE ~blocks[r.b].exists
  <2>1. UNCHANGED blocks
    BY <1>3, <1>7
  <2>2. CoveredNext(c) /\ ReleaseInv(blocks', h, r, Lost(c))
    BY <1>1, <1>3, <2>1, Unwritten, InCall DEF ClientParts
  <2>3. Known(r.b, blocks'[r.b], h, Lost(c)) = {}
    BY <1>4, <1>5, <1>7, <2>1, MissingIsFree, KnownFacts
  <2>4. ClientMoves(c)
    BY <1>1, <1>3, <1>4, <2>2, <2>3, BlockMissingMoves DEF ClientParts
  <2> QED BY <1>3, <2>1, <2>4, ReadStep
<1> QED BY <1>6, <1>7

LEMMA QueryHandleKept ==
  ASSUME ClientParts, NEW c \in Clients, QueryHandle(c)
  PROVE  Kept
<1> DEFINE h == HandleOf[c]
<1>1. PICK r : r = At(c)
  OBVIOUS
<1>2. PICK hd : hd = handles[h]
  OBVIOUS
<1>3. /\ r.pc = "handle" /\ blocks' = blocks /\ handles' = handles
      /\ CASE ~hd.exists -> HandleMissing(c)
           [] hd.exists /\ hd.deleted -> Goto(c, [r EXCEPT !.pc = "reapHandle"])
           [] OTHER -> HandleFound(c, hd)
  BY <1>1, <1>2 DEF QueryHandle
<1>4. /\ r \in CallState /\ h \in Handles /\ client[c].state \notin Outcomes
      /\ hd \in HandleState /\ HandleInv(hd)
      /\ PurposeInv(r) /\ CopyInv(blocks', h, r)
      /\ CountInv(blocks', hd, h, r, Lost(c)) /\ ReleaseInv(blocks', h, r, Lost(c))
  <2>1. r.pc # "idle"
    BY <1>3
  <2> QED BY <1>1, <1>2, <1>3, <2>1, InCall
<1>5. CoveredNext(c) /\ hd.exists \in BOOLEAN /\ hd.deleted \in BOOLEAN
  BY <1>3, <1>4, Unwritten DEF ClientParts, HandleState
<1>6. CASE ~hd.exists
  <2>1. HandleMissing(c) /\ \A b \in BlockNames : hd.count[b] = 0
    BY <1>3, <1>4, <1>6 DEF HandleInv
  <2>2. ClientMoves(c)
    BY <1>1, <1>2, <1>3, <1>4, <1>5, <1>6, <2>1, HandleMissingMoves DEF ClientParts
  <2> QED BY <1>3, <2>2, ReadStep
<1>7. CASE hd.exists /\ hd.deleted
  <2>1. PICK q : q = [r EXCEPT !.pc = "reapHandle"]
    OBVIOUS
  <2>2. /\ q \in CallState /\ q.pc = "reapHandle" /\ q.then = r.then /\ q.v = r.v /\ q.o = r.o
        /\ q.b = r.b /\ q.num = r.num /\ q.todo = r.todo
    BY <1>4, <2>1 DEF CallState, Places
  <2>3. PurposeInv(q)
    BY <1>3, <1>4, <2>2 DEF PurposeInv
  <2>4. CopyInv(blocks', h, q)
    BY <1>3, <1>4, <2>2 DEF CopyInv, Assigning
  <2>5. HandleCopyInv(hd, q)
    BY <1>4, <1>7, <2>2 DEF HandleCopyInv, HandleInv
  <2>6. CountInv(blocks', hd, h, q, Lost(c))
    BY <1>3, <1>4, <2>2 DEF CountInv, Pending
  <2>7. ReleaseInv(blocks', h, q, Lost(c))
    BY <1>3, <1>4, <2>2 DEF ReleaseInv
  <2>8. CallInv(blocks', handles'[h], h, q, Lost(c))
    BY <1>2, <1>3, <2>2, <2>3, <2>4, <2>5, <2>6, <2>7 DEF CallInv
  <2>9. Goto(c, q)
    BY <1>3, <1>7, <2>1
  <2>10. ClientMoves(c)
    BY <1>4, <2>8, <2>9, GotoMoves DEF ClientParts
  <2> QED BY <1>3, <2>10, ReadStep
<1>8. CASE hd.exists /\ ~hd.deleted
  <2>1. HandleFound(c, hd)
    BY <1>3, <1>8
  <2>2. ClientMoves(c)
    BY <1>1, <1>2, <1>3, <1>4, <1>8, <2>1, HandleFoundMoves DEF ClientParts
  <2> QED BY <1>3, <2>2, ReadStep
<1> QED BY <1>5, <1>6, <1>7, <1>8

\* What a deletion leaves of a handle counts nothing.
LEMMA GoneHandle ==
  ASSUME NEW hd \in HandleState, NEW w, w = Gone(NoHandle, hd)
  PROVE  HandleInv(w) /\ ~w.exists /\ \A b \in BlockNames : w.count[b] = 0
<1>1. w \in HandleState /\ w.exists = FALSE /\ w.count = [b \in BlockNames |-> 0]
  BY DEF Gone, NoHandle, HandleState
<1> QED BY <1>1 DEF HandleInv

\* The stored handle of c after a write of it.
LEMMA HandleWritten ==
  ASSUME ClientParts, NEW c \in Clients, NEW w, PutHandle(HandleOf[c], w)
  PROVE  handles'[HandleOf[c]] = w
BY IPAMAssumption DEF ClientParts, HandlesInv, PutHandle

LEMMA ReapHandleKept ==
  ASSUME ClientParts, NEW c \in Clients, ReapHandle(c)
  PROVE  Kept
<1> DEFINE h == HandleOf[c]
<1>1. PICK r : r = At(c)
  OBVIOUS
<1>2. PICK w : w = Gone(NoHandle, handles[h])
  OBVIOUS
<1>3. /\ r.pc = "reapHandle" /\ blocks' = blocks /\ HandleMissing(c)
      /\ IF handles[h].exists THEN PutHandle(h, w) ELSE UNCHANGED handles
  BY <1>1, <1>2 DEF ReapHandle
<1>4. /\ client[c].state \notin Outcomes
      /\ handles[h] \in HandleState /\ HandleInv(handles[h])
      /\ HandleCopyInv(handles[h], r) /\ CountInv(blocks, handles[h], h, r, Lost(c))
  <2>1. r.pc # "idle"
    BY <1>3
  <2> QED BY <1>1, <2>1, InCall
<1>5. CASE handles[h].exists
  <2>1. PutHandle(h, w) /\ handles'[h] = w
    BY <1>3, <1>5, HandleWritten
  <2>2. HandleInv(w) /\ ~w.exists /\ \A b \in BlockNames : w.count[b] = 0
    BY <1>2, <1>4, GoneHandle
  <2>3. CoveredNext(c)
    <3>1. \A b \in BlockNames : handles[h].count[b] = 0
      BY <1>3, <1>4 DEF HandleCopyInv
    <3>2. Covered(blocks, handles[h], h, Lost(c))
      BY <1>4 DEF CountInv
    <3> QED BY <1>3, <2>1, <2>2, <3>1, <3>2 DEF Covered, CoveredNext
  <2>4. ClientMoves(c)
    BY <1>1, <1>3, <1>4, <2>1, <2>2, <2>3, HandleMissingMoves DEF ClientParts
  <2> QED BY <1>3, <2>1, <2>2, <2>4, HandleStep
<1>6. CASE ~handles[h].exists
  <2>1. handles' = handles
    BY <1>3, <1>6
  <2>2. CoveredNext(c) /\ \A b \in BlockNames : handles'[h].count[b] = 0
    BY <1>3, <1>4, <1>6, <2>1, Unwritten DEF ClientParts, HandleInv
  <2>3. ClientMoves(c)
    BY <1>1, <1>3, <1>4, <1>6, <2>1, <2>2, HandleMissingMoves DEF ClientParts
  <2> QED BY <1>3, <2>1, <2>3, ReadStep
<1> QED BY <1>5, <1>6

\* What incrementHandle writes: it counts one address more.
LEMMA MoreFacts ==
  ASSUME ClientParts, NEW c \in Clients, NEW r, r = At(c), r.pc = "count",
         NEW w, w = More(c)
  PROVE  /\ Accepted(handles[HandleOf[c]], r.hdl)
         /\ w \in HandleState /\ w.exists /\ ~w.deleted
         /\ \A b \in BlockNames :
              w.count[b] = IF b = r.b THEN handles[HandleOf[c]].count[b] + 1
                                      ELSE handles[HandleOf[c]].count[b]
<1>1. PICK hd : hd = handles[HandleOf[c]]
  OBVIOUS
<1>2. PICK more : more = [r.hdl EXCEPT !.count[r.b] = @ + 1]
  OBVIOUS
<1>3. w = IF more.exists THEN Stored(more)
          ELSE [more EXCEPT !.exists = TRUE, !.rv = hd.rv + 1]
  BY <1>1, <1>2 DEF More
<1>4. /\ r \in CallState /\ PurposeInv(r) /\ HandleCopyInv(hd, r)
      /\ hd \in HandleState /\ HandleInv(hd)
  <2>1. r.pc # "idle"
    OBVIOUS
  <2> QED BY <1>1, <2>1, InCall
<1>5. r.b \in BlockNames /\ r.hdl \in HandleState
  BY <1>4 DEF PurposeInv, CallState
<1>6. \A b \in BlockNames : hd.count[b] = r.hdl.count[b]
  BY <1>4 DEF HandleCopyInv, HandleInv, NoHandle
<1>7. PICK ct : ct = [r.hdl.count EXCEPT ![r.b] = @ + 1]
  OBVIOUS
<1>8. /\ ct \in [BlockNames -> Nat]
      /\ \A b \in BlockNames : ct[b] = IF b = r.b THEN hd.count[b] + 1 ELSE hd.count[b]
  <2>1. r.hdl.count \in [BlockNames -> Nat]
    BY <1>5 DEF HandleState
  <2> QED BY <1>5, <1>6, <1>7, <2>1
<1>9. /\ more \in HandleState /\ more.exists = r.hdl.exists /\ more.rv = r.hdl.rv
      /\ more.deleted = r.hdl.deleted /\ more.count = ct
  <2>1. more = [r.hdl EXCEPT !.count = ct]
    BY <1>2, <1>7
  <2> QED BY <1>5, <1>8, <2>1 DEF HandleState
<1>10. CASE r.hdl.exists
  <2>1. r.hdl = hd /\ ~hd.deleted
    BY <1>4, <1>10 DEF HandleCopyInv
  <2>2. PICK n \in Nat : n = more.rv + 1
    BY <1>9 DEF HandleState
  <2>3. w = [more EXCEPT !.rv = n]
    BY <1>3, <1>9, <1>10, <2>2 DEF Stored
  <2>4. w \in HandleState /\ w.exists /\ ~w.deleted /\ w.count = ct
    BY <1>9, <1>10, <2>1, <2>3 DEF HandleState
  <2> QED BY <1>1, <1>8, <1>10, <2>1, <2>4 DEF Accepted, Current
<1>11. CASE ~r.hdl.exists
  <2>1. ~hd.exists /\ r.hdl = NoHandle
    BY <1>4, <1>11 DEF HandleCopyInv
  <2>2. PICK n \in Nat : n = hd.rv + 1
    BY <1>4 DEF HandleState
  <2>3. w = [more EXCEPT !.exists = TRUE, !.rv = n]
    BY <1>3, <1>9, <1>11, <2>2
  <2>4. more.deleted = FALSE
    BY <1>9, <2>1 DEF NoHandle
  <2>5. w \in HandleState /\ w.exists /\ ~w.deleted /\ w.count = ct
    BY <1>9, <2>3, <2>4 DEF HandleState
  <2> QED BY <1>1, <1>8, <1>11, <2>1, <2>5 DEF Accepted
<1> QED BY <1>10, <1>11

\* The handle is written with one address more.
LEMMA CountedKept ==
  ASSUME ClientParts, NEW c \in Clients, NEW r, r = At(c), r.pc = "count",
         blocks' = blocks, NEW w \in HandleState, w.exists, ~w.deleted,
         \A b \in BlockNames :
           w.count[b] = IF b = r.b THEN handles[HandleOf[c]].count[b] + 1
                                   ELSE handles[HandleOf[c]].count[b],
         PutHandle(HandleOf[c], w), NEW q \in CallState, q.pc = "block",
         q.then = r.then, q.v = r.v, q.o = r.o, q.b = r.b, q.num = r.num, Goto(c, q)
  PROVE  Kept
<1> DEFINE h == HandleOf[c]
<1>1. /\ r \in CallState /\ h \in Handles /\ client[c].state \notin Outcomes
      /\ PurposeInv(r) /\ CopyInv(blocks', h, r)
      /\ CountInv(blocks', handles[h], h, r, Lost(c)) /\ handles[h] \in HandleState
  <2>1. r.pc # "idle"
    OBVIOUS
  <2> QED BY <2>1, InCall
<1>2. /\ q.pc = "block" /\ q.then = r.then /\ q.v = r.v /\ q.o = r.o /\ q.b = r.b
      /\ q.num = r.num
  OBVIOUS
<1>3. r.then = "increment" /\ r.b \in BlockNames
  BY <1>1 DEF PurposeInv
<1>4. PurposeInv(q)
  BY <1>1, <1>2, <1>3 DEF PurposeInv
<1>5. CopyInv(blocks', h, q)
  BY <1>1, <1>2 DEF CopyInv, Assigning
<1>6. HandleCopyInv(w, q)
  BY <1>2 DEF HandleCopyInv
<1>7. CountInv(blocks', w, h, q, Lost(c))
  <2>1. \A b \in BlockNames :
          /\ Cardinality(Known(b, blocks'[b], h, Lost(c))) \in Nat
          /\ handles[h].count[b] \in Nat
          /\ Cardinality(Known(b, blocks'[b], h, Lost(c))) <= handles[h].count[b]
    BY <1>1, KnownFacts DEF CountInv, Covered, HandleState
  <2>2. Covered(blocks', w, h, Lost(c))
    BY <2>1 DEF Covered
  <2>3. Cardinality(Known(q.b, blocks'[q.b], h, Lost(c))) + 1 <= w.count[q.b]
    BY <1>2, <1>3, <2>1
  <2> QED BY <2>2, <2>3 DEF CountInv
<1>8. ReleaseInv(blocks', h, q, Lost(c))
  BY <1>2, <1>3 DEF ReleaseInv
<1>9. handles'[h] = w /\ HandleInv(w)
  BY HandleWritten DEF HandleInv
<1>10. CallInv(blocks', handles'[h], h, q, Lost(c))
  BY <1>2, <1>4, <1>5, <1>6, <1>7, <1>8, <1>9 DEF CallInv
<1>11. ClientMoves(c)
  BY <1>1, <1>10, GotoMoves DEF ClientParts
<1> QED BY <1>9, <1>11, HandleStep

LEMMA IncrementHandleKept ==
  ASSUME ClientParts, NEW c \in Clients, IncrementHandle(c)
  PROVE  Kept
<1> DEFINE h == HandleOf[c]
<1>1. PICK r : r = At(c)
  OBVIOUS
<1>2. PICK w : w = More(c)
  OBVIOUS
<1>3. PICK q : q = [r EXCEPT !.pc = "block", !.hdl = NoHandle]
  OBVIOUS
<1>4. r.pc = "count" /\ blocks' = blocks
  BY <1>1 DEF IncrementHandle
<1>5. /\ Accepted(handles[h], r.hdl) /\ w \in HandleState /\ w.exists /\ ~w.deleted
      /\ \A b \in BlockNames :
           w.count[b] = IF b = r.b THEN handles[h].count[b] + 1 ELSE handles[h].count[b]
  BY <1>1, <1>2, <1>4, MoreFacts
<1>6. PutHandle(h, w) /\ Goto(c, q)
  BY <1>1, <1>2, <1>3, <1>5 DEF IncrementHandle, Accepted, Current
<1>7. /\ q \in CallState /\ q.pc = "block" /\ q.then = r.then /\ q.v = r.v
      /\ q.o = r.o /\ q.b = r.b /\ q.num = r.num
  <2>1. r \in CallState
    BY <1>1, Busy DEF ClientParts
  <2> QED BY <1>3, <2>1, RestType DEF CallState, Places
<1> QED BY <1>1, <1>4, <1>5, <1>6, <1>7, CountedKept

\* The Update of assignFromExistingBlock, when it is accepted.
LEMMA Assigns ==
  ASSUME ClientParts, NEW c \in Clients, NEW r, r = At(c), r.pc = "block",
         NEW x, x = blocks[r.b], Current(x, r.v), NEW w, w = Stored(r.v)
  PROVE  /\ Evolves(x, w) /\ w.exists /\ w.born = x.born /\ x.born \in Nat
         /\ r.v.born = x.born /\ r.o \in Ordinals
         /\ OrdinalsOf(w, HandleOf[c]) = OrdinalsOf(x, HandleOf[c]) \cup {r.o}
         /\ \A g \in Handles : g # HandleOf[c] => Keeps(x, w, g)
<1>1. HandleOf[c] \in Handles /\ PurposeInv(r) /\ CopyInv(blocks, HandleOf[c], r)
  <2>1. r.pc # "idle"
    OBVIOUS
  <2> QED BY <2>1, InCall
<1>2. r.b \in BlockNames /\ r.then = "increment"
  BY <1>1 DEF PurposeInv
<1>3. Assigning(r)
  BY DEF Assigning
<1>4. /\ Sound(x) /\ x.exists /\ x.free # <<>> /\ r.o = Head(x.free)
      /\ r.v = AssignFirst(x, HandleOf[c])
  BY <1>1, <1>2, <1>3 DEF CopyInv, Current, ClientParts, BlocksInv
<1>5. PICK v : v = r.v
  OBVIOUS
<1>6. v = AssignFirst(x, HandleOf[c]) /\ w = Stored(v)
  BY <1>4, <1>5
<1>7. /\ Evolves(x, w) /\ w.exists /\ w.born = x.born /\ x.born \in Nat
      /\ v.born = x.born /\ Head(x.free) \in Ordinals
      /\ OrdinalsOf(w, HandleOf[c]) = OrdinalsOf(x, HandleOf[c]) \cup {Head(x.free)}
      /\ \A g \in Handles : g # HandleOf[c] => Keeps(x, w, g)
  BY <1>1, <1>4, <1>6, Assigned
<1> QED BY <1>4, <1>5, <1>7

LEMMA UpdateBlockKept ==
  ASSUME ClientParts, NEW c \in Clients, UpdateBlock(c)
  PROVE  Kept
<1> DEFINE h == HandleOf[c]
<1>1. PICK r : r = At(c)
  OBVIOUS
<1>2. PICK x : x = blocks[r.b]
  OBVIOUS
<1>3. PICK w : w = Stored(r.v)
  OBVIOUS
<1>4. PICK o : o = r.o
  OBVIOUS
<1>5. PICK q : q = [r EXCEPT !.pc = "handle", !.k = 1, !.v = NoBlock, !.o = 0,
                      !.then = IF x.exists THEN "reassign" ELSE "failed"]
  OBVIOUS
<1>6. /\ r.pc = "block" /\ handles' = handles
      /\ IF Current(x, r.v)
         THEN /\ PutBlock(r.b, w)
              /\ client' = [client EXCEPT ![c].at = Rest, ![c].state = "held",
                              ![c].addr = <<r.b, r.v.born, o>>]
         ELSE Goto(c, q) /\ UNCHANGED blocks
  BY <1>1, <1>2, <1>3, <1>4, <1>5 DEF UpdateBlock
<1>7. /\ r \in CallState /\ h \in Handles /\ client[c].state \notin Outcomes
      /\ client[c] \in ClientState /\ PurposeInv(r) /\ CopyInv(blocks, h, r)
      /\ CountInv(blocks, handles[h], h, r, Lost(c)) /\ handles[h] \in HandleState
  <2>1. r.pc # "idle"
    BY <1>6
  <2> QED BY <1>1, <2>1, InCall
<1>8. r.then = "increment" /\ r.b \in BlockNames /\ r.num = 1
  BY <1>6, <1>7 DEF PurposeInv
<1>9. /\ Covered(blocks, handles[h], h, Lost(c))
      /\ Cardinality(Known(r.b, x, h, Lost(c))) + 1 <= handles[h].count[r.b]
  BY <1>2, <1>6, <1>7 DEF CountInv, Pending
<1>10. CASE Current(x, r.v)
  <2>1. /\ blocks' = [blocks EXCEPT ![r.b] = w]
        /\ client' = [client EXCEPT ![c].at = Rest, ![c].state = "held",
                        ![c].addr = <<r.b, r.v.born, o>>]
    BY <1>6, <1>10 DEF PutBlock
  <2>2. /\ Evolves(x, w) /\ w.exists /\ w.born = x.born /\ x.born \in Nat
        /\ r.v.born = x.born /\ r.o \in Ordinals
        /\ OrdinalsOf(w, h) = OrdinalsOf(x, h) \cup {r.o}
        /\ \A g \in Handles : g # h => Keeps(x, w, g)
    BY <1>1, <1>2, <1>3, <1>6, <1>10, Assigns
  <2>3. o \in OrdinalsOf(w, h) /\ o \in Ordinals
    BY <1>4, <2>2
  <2>4. /\ Cardinality(Known(r.b, w, h, Lost(c)))
             <= Cardinality(Known(r.b, x, h, Lost(c))) + 1
        /\ Cardinality(Known(r.b, w, h, Lost(c))) \in Nat
        /\ Cardinality(Known(r.b, x, h, Lost(c))) \in Nat
    BY <2>2, OneMoreKnown
  <2>5. \A b \in BlockNames : handles[h].count[b] \in Nat
    BY <1>7 DEF HandleState
  <2>6. blocks'[r.b] = w /\ \A b \in BlockNames : b # r.b => blocks'[b] = blocks[b]
    BY <1>8, <2>1 DEF ClientParts, BlocksInv
  <2>7. CoveredNext(c)
    <3>1. Cardinality(Known(r.b, w, h, Lost(c))) <= handles[h].count[r.b]
      BY ONLY <1>8, <1>9, <2>4, <2>5
    <3> QED BY <1>6, <1>9, <2>6, <3>1 DEF Covered, CoveredNext
  <2>8. PICK n \in Nat : n = r.v.born
    BY <2>2
  <2> DEFINE y == [client[c] EXCEPT !.at = Rest, !.state = "held",
                                    !.addr = <<r.b, n, o>>]
  <2>9. client' = [client EXCEPT ![c] = y]
    BY <2>1, <2>8
  <2>10. /\ y \in ClientState /\ y.at = Rest /\ y.state = "held"
         /\ y.addr = <<r.b, n, o>> /\ y.lost = Lost(c)
    BY <1>7, <1>8, <2>3, RestType DEF ClientState, Outcomes, Lost
  <2> HIDE DEF y
  <2>11. CallInv(blocks', handles'[h], h, Rest, Lost(c))
    BY <2>7, RestType, FreshCall DEF CoveredNext
  <2>12. HeldInv(blocks', h, y)
    <3>1. n <= w.rv
      <4>1. Sound(w)
        BY <2>2 DEF Evolves
      <4> QED BY <2>2, <2>8, <4>1 DEF Sound
    <3>2. y.addr \in BlockNames \X Nat \X Ordinals
      BY <1>8, <2>3, <2>10
    <3>3. y.addr[1] = r.b /\ y.addr[2] = n /\ y.addr[3] = o
      BY <2>10
    <3> QED BY <2>3, <2>6, <3>1, <3>2, <3>3 DEF HeldInv
  <2>13. ClientInv(blocks', handles'[h], h, y)
    BY <2>10, <2>11, <2>12 DEF ClientInv, ReleasedInv
  <2>14. ClientMoves(c)
    BY <2>9, <2>13 DEF ClientMoves
  <2> QED BY <1>2, <1>6, <1>8, <2>1, <2>2, <2>14, BlockStep
<1>11. CASE ~Current(x, r.v)
  <2>1. Goto(c, q) /\ blocks' = blocks
    BY <1>6, <1>11
  <2>2. PICK t \in {"reassign", "failed"} : t = IF x.exists THEN "reassign" ELSE "failed"
    OBVIOUS
  <2>3. /\ q \in CallState /\ q.pc = "handle" /\ q.then = t /\ q.b = r.b /\ q.num = 1
    <3>1. q = [r EXCEPT !.pc = "handle", !.k = 1, !.v = NoBlock, !.o = 0, !.then = t]
      BY <1>5, <2>2
    <3>2. t \in Purposes
      BY <2>2 DEF Purposes
    <3> QED BY <1>7, <1>8, <3>1, <3>2, RestType DEF CallState, Places
  <2>4. PurposeInv(q)
    BY <1>8, <2>2, <2>3 DEF PurposeInv
  <2>5. CopyInv(blocks', h, q) /\ HandleCopyInv(handles'[h], q)
    BY <2>2, <2>3 DEF CopyInv, Assigning, HandleCopyInv
  <2>6. CountInv(blocks', handles'[h], h, q, Lost(c))
    BY <1>2, <1>6, <1>9, <2>1, <2>3 DEF CountInv
  <2>7. ReleaseInv(blocks', h, q, Lost(c))
    BY <2>2, <2>3 DEF ReleaseInv
  <2>8. CallInv(blocks', handles'[h], h, q, Lost(c))
    BY <2>3, <2>4, <2>5, <2>6, <2>7 DEF CallInv
  <2>9. ClientMoves(c)
    BY <1>7, <2>1, <2>8, GotoMoves DEF ClientParts
  <2> QED BY <1>6, <2>1, <2>9, ReadStep
<1> QED BY <1>10, <1>11

\* What decrementHandle stores still counts the client's addresses.
LEMMA StillCovered ==
  ASSUME ClientParts, NEW c \in Clients, NEW r, r = At(c), r.pc = "uncount",
         NEW w, \A b \in BlockNames :
           w.count[b] = IF b = r.b THEN handles[HandleOf[c]].count[b] - r.num
                                   ELSE handles[HandleOf[c]].count[b]
  PROVE  Covered(blocks, w, HandleOf[c], Lost(c))
<1> DEFINE h == HandleOf[c]
<1>1. /\ r \in CallState /\ PurposeInv(r) /\ HandleCopyInv(handles[h], r)
      /\ CountInv(blocks, handles[h], h, r, Lost(c)) /\ ReleaseInv(blocks, h, r, Lost(c))
      /\ handles[h] \in HandleState
  <2>1. r.pc # "idle"
    OBVIOUS
  <2> QED BY <2>1, InCall
<1>2. /\ r.then \in {"reassign", "failed", "release"} /\ r.b \in BlockNames
      /\ r.then # "release" => r.num = 1
  BY <1>1 DEF PurposeInv
<1>3. \A b \in BlockNames :
        /\ Cardinality(Known(b, blocks[b], h, Lost(c))) \in Nat
        /\ handles[h].count[b] \in Nat
        /\ Cardinality(Known(b, blocks[b], h, Lost(c))) <= handles[h].count[b]
  BY <1>1, KnownFacts DEF CountInv, Covered, HandleState
<1>4. Cardinality(Known(r.b, blocks[r.b], h, Lost(c))) <= handles[h].count[r.b] - r.num
  <2>1. CASE r.then = "release"
    <3>1. Known(r.b, blocks[r.b], h, Lost(c)) = {}
      BY <1>1, <2>1 DEF ReleaseInv
    <3>2. Cardinality(Known(r.b, blocks[r.b], h, Lost(c))) = 0
      BY <3>1, FS_EmptySet
    <3>3. r.num \in Nat /\ r.num <= handles[h].count[r.b]
      BY <1>1 DEF HandleCopyInv, CallState
    <3> QED BY <1>2, <1>3, <3>2, <3>3
  <2>2. CASE r.then # "release"
    <3>1. Pending(r)
      BY <1>2, <2>2 DEF Pending
    <3>2. Cardinality(Known(r.b, blocks[r.b], h, Lost(c))) + 1 <= handles[h].count[r.b]
      BY <1>1, <3>1 DEF CountInv
    <3> QED BY <1>2, <1>3, <2>2, <3>2
  <2> QED BY <2>1, <2>2
<1> QED BY <1>2, <1>3, <1>4 DEF Covered

\* What decrementHandle writes.
LEMMA LessFacts ==
  ASSUME ClientParts, NEW c \in Clients, NEW r, r = At(c), r.pc = "uncount",
         NEW w, w = Less(c)
  PROVE  /\ Current(handles[HandleOf[c]], r.hdl) /\ HandleInv(w)
         /\ w.deleted = \A b \in BlockNames : w.count[b] = 0
         /\ w.deleted \in BOOLEAN
         /\ Covered(blocks, w, HandleOf[c], Lost(c))
<1> DEFINE h == HandleOf[c]
<1>1. PICK less : less = [r.hdl EXCEPT !.count[r.b] = @ - r.num]
  OBVIOUS
<1>2. PICK empty \in BOOLEAN : empty = \A b \in BlockNames : less.count[b] = 0
  OBVIOUS
<1>3. PICK hd : hd = handles[h]
  OBVIOUS
<1>4. w = Stored([less EXCEPT !.deleted = empty])
  BY <1>1, <1>2 DEF Less
<1>5. /\ r \in CallState /\ PurposeInv(r) /\ HandleCopyInv(hd, r)
      /\ hd \in HandleState
  <2>1. r.pc # "idle"
    OBVIOUS
  <2> QED BY <1>3, <2>1, InCall
<1>6. /\ r.b \in BlockNames /\ r.hdl = hd /\ hd.exists /\ ~hd.deleted
      /\ r.num <= hd.count[r.b] /\ r.num \in Nat
  BY <1>5 DEF PurposeInv, HandleCopyInv, CallState
<1>7. PICK ct : ct = [hd.count EXCEPT ![r.b] = @ - r.num]
  OBVIOUS
<1>8. /\ ct \in [BlockNames -> Nat]
       /\ \A b \in BlockNames : ct[b] = IF b = r.b THEN hd.count[b] - r.num ELSE hd.count[b]
  <2>1. hd.count \in [BlockNames -> Nat]
    BY <1>5 DEF HandleState
  <2>2. hd.count[r.b] - r.num \in Nat
    BY <1>6, <2>1
  <2> QED BY <1>6, <1>7, <2>1, <2>2
<1>9. less \in HandleState /\ less.exists = hd.exists /\ less.count = ct
  <2>1. less = [hd EXCEPT !.count = ct]
    BY <1>1, <1>6, <1>7
  <2> QED BY <1>5, <1>8, <2>1 DEF HandleState
<1>10. w \in HandleState /\ w.exists /\ w.count = ct /\ w.deleted = empty
  <2>1. PICK n \in Nat : n = less.rv + 1
    BY <1>9 DEF HandleState
  <2>2. w = [less EXCEPT !.deleted = empty, !.rv = n]
    BY <1>4, <1>9, <2>1 DEF Stored, HandleState
  <2> QED BY <1>2, <1>6, <1>9, <2>2 DEF HandleState
<1>11. empty = \A b \in BlockNames : w.count[b] = 0
  BY <1>2, <1>9, <1>10
<1>12. HandleInv(w)
  BY <1>10, <1>11 DEF HandleInv
<1>13. Current(hd, r.hdl)
  BY <1>6 DEF Current
<1>14. Covered(blocks, w, h, Lost(c))
  BY <1>3, <1>8, <1>10, StillCovered
<1> QED BY <1>2, <1>3, <1>10, <1>11, <1>12, <1>13, <1>14

LEMMA DecrementHandleKept ==
  ASSUME ClientParts, NEW c \in Clients, DecrementHandle(c)
  PROVE  Kept
<1> DEFINE h == HandleOf[c]
<1>1. PICK r : r = At(c)
  OBVIOUS
<1>2. PICK w : w = Less(c)
  OBVIOUS
<1>3. PICK q : q = [r EXCEPT !.pc = "drop"]
  OBVIOUS
<1>4. r.pc = "uncount" /\ blocks' = blocks
  BY <1>1 DEF DecrementHandle
<1>5. /\ Current(handles[h], r.hdl) /\ HandleInv(w)
      /\ w.deleted = \A b \in BlockNames : w.count[b] = 0
      /\ w.deleted \in BOOLEAN
      /\ Covered(blocks, w, h, Lost(c))
  BY <1>1, <1>2, <1>4, LessFacts
<1>6. PutHandle(h, w) /\ IF w.deleted THEN Goto(c, q) ELSE Decremented(c)
  BY <1>1, <1>2, <1>3, <1>5 DEF DecrementHandle, Current
<1>7. /\ r \in CallState /\ PurposeInv(r) /\ client[c].state \notin Outcomes
      /\ ReleaseInv(blocks', h, r, Lost(c))
  <2>1. r.pc # "idle"
    BY <1>4
  <2> QED BY <1>1, <1>4, <2>1, InCall
<1>8. r.b \in BlockNames /\ r.then \in {"reassign", "failed", "release"}
  BY <1>4, <1>7 DEF PurposeInv
<1>9. handles'[h] = w
  BY <1>6, HandleWritten
<1>10. CoveredNext(c)
  BY <1>4, <1>5, <1>9 DEF CoveredNext
<1>11. ASSUME w.deleted PROVE ClientMoves(c)
  <2>1. /\ q \in CallState /\ q.pc = "drop" /\ q.then = r.then /\ q.b = r.b
        /\ q.num = r.num /\ q.todo = r.todo
    BY <1>3, <1>7 DEF CallState, Places
  <2>2. PurposeInv(q)
    BY <1>7, <1>8, <2>1 DEF PurposeInv
  <2>3. CopyInv(blocks', h, q)
    BY <2>1 DEF CopyInv, Assigning
  <2>4. HandleCopyInv(w, q)
    BY <1>5, <1>11, <2>1 DEF HandleCopyInv
  <2>5. CountInv(blocks', w, h, q, Lost(c))
    BY <1>9, <1>10, <2>1 DEF CountInv, Pending, CoveredNext
  <2>6. ReleaseInv(blocks', h, q, Lost(c))
    BY <1>4, <1>7, <2>1 DEF ReleaseInv
  <2>7. CallInv(blocks', handles'[h], h, q, Lost(c))
    BY <1>9, <2>1, <2>2, <2>3, <2>4, <2>5, <2>6 DEF CallInv
  <2> QED BY <1>6, <1>7, <1>11, <2>7, GotoMoves DEF ClientParts
<1>12. ASSUME ~w.deleted PROVE ClientMoves(c)
  <2>1. r.then = "release" => Known(r.b, blocks'[r.b], h, Lost(c)) = {}
    BY <1>4, <1>7 DEF ReleaseInv
  <2> QED BY <1>1, <1>6, <1>7, <1>10, <1>12, <2>1, DecrementedMoves DEF ClientParts
<1> QED BY <1>4, <1>5, <1>6, <1>11, <1>12, HandleStep

LEMMA DropHandleKept ==
  ASSUME ClientParts, NEW c \in Clients, DropHandle(c)
  PROVE  Kept
<1> DEFINE h == HandleOf[c]
<1>1. PICK r : r = At(c)
  OBVIOUS
<1>2. PICK w : w = Gone(NoHandle, handles[h])
  OBVIOUS
<1>3. r.pc = "drop" /\ blocks' = blocks /\ PutHandle(h, w) /\ Decremented(c)
  BY <1>1, <1>2 DEF DropHandle
<1>4. /\ client[c].state \notin Outcomes /\ handles[h] \in HandleState
      /\ HandleCopyInv(handles[h], r) /\ CountInv(blocks, handles[h], h, r, Lost(c))
      /\ ReleaseInv(blocks', h, r, Lost(c))
  <2>1. r.pc # "idle"
    BY <1>3
  <2> QED BY <1>1, <1>3, <2>1, InCall
<1>5. handles'[h] = w
  BY <1>3, HandleWritten
<1>6. HandleInv(w) /\ \A b \in BlockNames : w.count[b] = 0
  BY <1>2, <1>4, GoneHandle
<1>7. CoveredNext(c)
  <2>1. \A b \in BlockNames : handles[h].count[b] = 0
    BY <1>3, <1>4 DEF HandleCopyInv
  <2>2. Covered(blocks, handles[h], h, Lost(c))
    BY <1>4 DEF CountInv
  <2> QED BY <1>3, <1>5, <1>6, <2>1, <2>2 DEF Covered, CoveredNext
<1>8. r.then = "release" => Known(r.b, blocks'[r.b], h, Lost(c)) = {}
  BY <1>3, <1>4 DEF ReleaseInv
<1>9. ClientMoves(c)
  BY <1>1, <1>3, <1>4, <1>7, <1>8, DecrementedMoves DEF ClientParts
<1> QED BY <1>3, <1>6, <1>9, HandleStep

LEMMA DropBlockKept ==
  ASSUME ClientParts, NEW c \in Clients, DropBlock(c)
  PROVE  Kept
<1> DEFINE h == HandleOf[c]
<1>1. PICK r : r = At(c)
  OBVIOUS
<1>2. PICK w : w = Gone(NoBlock, blocks[r.b])
  OBVIOUS
<1>3. PICK q : q = [r EXCEPT !.pc = "handle"]
  OBVIOUS
<1>4. /\ r.pc = "drop block" /\ handles' = handles /\ Goto(c, q)
      /\ IF blocks[r.b].exists THEN blocks' = [blocks EXCEPT ![r.b] = w]
         ELSE UNCHANGED blocks
  BY <1>1, <1>2, <1>3 DEF DropBlock, PutBlock
<1>5. /\ r \in CallState /\ h \in Handles /\ client[c].state \notin Outcomes
      /\ PurposeInv(r)
  <2>1. r.pc # "idle"
    BY <1>4
  <2> QED BY <1>1, <2>1, InCall
<1>6. r.b \in BlockNames /\ r.then = "release"
  BY <1>4, <1>5 DEF PurposeInv
<1>7. Sound(blocks[r.b])
  BY <1>6 DEF ClientParts, BlocksInv
<1>8. /\ q \in CallState /\ q.pc = "handle" /\ q.then = "release" /\ q.b = r.b
      /\ q.todo = r.todo
  BY <1>3, <1>5, <1>6 DEF CallState, Places
<1>9. ASSUME CallInv(blocks', handles'[h], h, r, Lost(c))
      PROVE  ClientMoves(c)
  <2>1. CountInv(blocks', handles'[h], h, r, Lost(c)) /\ ReleaseInv(blocks', h, r, Lost(c))
    BY <1>9 DEF CallInv
  <2>2. PurposeInv(q)
    BY <1>6, <1>8 DEF PurposeInv
  <2>3. CopyInv(blocks', h, q) /\ HandleCopyInv(handles'[h], q)
    BY <1>8 DEF CopyInv, Assigning, HandleCopyInv
  <2>4. CountInv(blocks', handles'[h], h, q, Lost(c))
    BY <1>8, <2>1 DEF CountInv, Pending
  <2>5. ReleaseInv(blocks', h, q, Lost(c))
    BY <1>4, <1>6, <1>8, <2>1 DEF ReleaseInv
  <2>6. CallInv(blocks', handles'[h], h, q, Lost(c))
    BY <1>8, <2>2, <2>3, <2>4, <2>5 DEF CallInv
  <2> QED BY <1>4, <1>5, <2>6, GotoMoves DEF ClientParts
<1>10. CASE blocks[r.b].exists
  <2>1. blocks' = [blocks EXCEPT ![r.b] = w]
    BY <1>4, <1>10
  <2>2. Evolves(blocks[r.b], w) /\ \A g \in Handles : Keeps(blocks[r.b], w, g)
    BY <1>2, <1>7, Deleted
  <2>3. Follows(blocks, blocks') /\ Spares(blocks, blocks', h)
    BY <1>5, <1>6, <2>1, <2>2, BlockWritten DEF ClientParts
  <2>4. CallInv(blocks', handles'[h], h, r, Lost(c))
    BY <1>1, <1>4, <2>3, CallAfter
  <2> QED BY <1>4, <1>6, <1>9, <2>1, <2>2, <2>4, BlockStep
<1>11. CASE ~blocks[r.b].exists
  <2>1. blocks' = blocks
    BY <1>4, <1>11
  <2>2. CallInv(blocks', handles'[h], h, r, Lost(c))
    BY <1>1, <1>4, <2>1, Busy DEF ClientParts
  <2> QED BY <1>4, <1>9, <2>1, <2>2, ReadStep
<1> QED BY <1>10, <1>11

LEMMA ReleaseByHandleKept ==
  ASSUME ClientParts, NEW c \in Clients, ReleaseByHandle(c)
  PROVE  Kept
<1> DEFINE h == HandleOf[c]
<1>1. PICK hd : hd = handles[h]
  OBVIOUS
<1>2. PICK todo : todo = {b \in BlockNames : hd.count[b] > 0}
  OBVIOUS
<1>3. PICK q : q = [Rest EXCEPT !.pc = "reapHandle", !.then = "start"]
  OBVIOUS
<1>4. /\ blocks' = blocks /\ handles' = handles
      /\ CASE ~hd.exists -> Finish(c, "released")
           [] hd.exists /\ hd.deleted ->
                client' = [client EXCEPT ![c].state = "releasing", ![c].at = q]
           [] OTHER -> Release(c, todo)
  BY <1>1, <1>2, <1>3 DEF ReleaseByHandle
<1>5. /\ h \in Handles /\ client[c] \in ClientState
      /\ hd \in HandleState /\ HandleInv(hd)
  BY <1>1, Busy DEF ClientParts, HandlesInv
<1>6. CoveredNext(c) /\ Covered(blocks', hd, h, Lost(c))
  BY <1>1, <1>4, Unwritten DEF ClientParts, CoveredNext
<1>7. hd.exists \in BOOLEAN /\ hd.deleted \in BOOLEAN
      /\ \A b \in BlockNames : hd.count[b] \in Nat
  BY <1>5 DEF HandleState
<1>8. CASE ~hd.exists
  <2>1. Finish(c, "released") /\ \A b \in BlockNames : hd.count[b] = 0
    BY <1>4, <1>5, <1>8 DEF HandleInv
  <2>2. \A b \in BlockNames : Known(b, blocks'[b], h, Lost(c)) = {}
    BY <1>6, <2>1, NothingCounted
  <2>3. ClientMoves(c)
    BY <1>6, <2>1, <2>2, FinishMoves DEF ClientParts, Outcomes
  <2> QED BY <1>4, <2>3, ReadStep
<1>9. CASE hd.exists /\ hd.deleted
  <2>1. client' = [client EXCEPT ![c].state = "releasing", ![c].at = q]
    BY <1>4, <1>9
  <2>2. /\ q \in CallState /\ q.pc = "reapHandle" /\ q.then = "start"
    BY <1>3, RestType DEF CallState, Places, Purposes
  <2>3. PurposeInv(q)
    BY <2>2 DEF PurposeInv
  <2>4. CopyInv(blocks', h, q)
    BY <2>2 DEF CopyInv, Assigning
  <2>5. HandleCopyInv(hd, q)
    BY <1>5, <1>9, <2>2 DEF HandleCopyInv, HandleInv
  <2>6. CountInv(blocks', hd, h, q, Lost(c)) /\ ReleaseInv(blocks', h, q, Lost(c))
    BY <1>6, <2>2 DEF CountInv, Pending, ReleaseInv
  <2>7. CallInv(blocks', handles'[h], h, q, Lost(c))
    BY <1>1, <1>4, <2>2, <2>3, <2>4, <2>5, <2>6 DEF CallInv
  <2> DEFINE x == [client[c] EXCEPT !.state = "releasing", !.at = q]
  <2>8. client' = [client EXCEPT ![c] = x]
    BY <2>1
  <2>9. x \in ClientState /\ x.at = q /\ x.state = "releasing" /\ x.lost = Lost(c)
    BY <1>5, <2>2 DEF ClientState, Lost
  <2> HIDE DEF x
  <2>10. ClientInv(blocks', handles'[h], h, x)
    BY <2>7, <2>9 DEF ClientInv, HeldInv, ReleasedInv, Outcomes
  <2>11. ClientMoves(c)
    BY <2>8, <2>10 DEF ClientMoves
  <2> QED BY <1>4, <2>11, ReadStep
<1>10. CASE hd.exists /\ ~hd.deleted
  <2>1. Release(c, todo)
    BY <1>4, <1>10
  <2>2. todo \in SUBSET BlockNames
    BY <1>2
  <2>3. \A b \in BlockNames : b \notin todo => hd.count[b] = 0
    BY <1>2, <1>7
  <2>4. \A b \in BlockNames : b \notin todo => Known(b, blocks'[b], h, Lost(c)) = {}
    BY <1>6, <2>3, NothingCounted
  <2>5. ClientMoves(c)
    BY <1>6, <2>1, <2>2, <2>4, ReleaseMoves DEF ClientParts
  <2> QED BY <1>4, <2>5, ReadStep
<1> QED BY <1>7, <1>8, <1>9, <1>10

LEMMA FreeAddressesKept ==
  ASSUME ClientParts, NEW c \in Clients, FreeAddresses(c)
  PROVE  Kept
<1> DEFINE h == HandleOf[c]
<1>1. PICK r : r = At(c)
  OBVIOUS
<1>2. PICK x : x = blocks[r.b]
  OBVIOUS
<1>3. PICK w : w = Stored(r.v)
  OBVIOUS
<1>4. PICK q1 : q1 = [r EXCEPT !.k = 1, !.v = NoBlock,
                        !.pc = IF r.v.deleted THEN "drop block" ELSE "handle"]
  OBVIOUS
<1>5. PICK q2 : q2 = [r EXCEPT !.pc = "query", !.i = @ + 1, !.num = 0, !.v = NoBlock]
  OBVIOUS
<1>6. PICK q3 : q3 = [r EXCEPT !.pc = "handle", !.k = 1, !.v = NoBlock]
  OBVIOUS
<1>7. /\ r.pc = "free" /\ handles' = handles
      /\ IF Current(x, r.v) THEN PutBlock(r.b, w) /\ Goto(c, q1)
         ELSE /\ CASE x.exists /\ r.i < DatastoreRetries -> Goto(c, q2)
                   [] ~x.exists /\ r.v.deleted -> Goto(c, q3)
                   [] OTHER -> Finish(c, "not released")
              /\ UNCHANGED blocks
  BY <1>1, <1>2, <1>3, <1>4, <1>5, <1>6 DEF FreeAddresses
<1>8. /\ r \in CallState /\ h \in Handles /\ client[c].state \notin Outcomes
      /\ PurposeInv(r) /\ CopyInv(blocks, h, r) /\ handles[h] \in HandleState
      /\ CountInv(blocks, handles[h], h, r, Lost(c)) /\ ReleaseInv(blocks, h, r, Lost(c))
  <2>1. r.pc # "idle"
    BY <1>7
  <2> QED BY <1>1, <2>1, InCall
<1>9. r.then = "release" /\ r.b \in BlockNames
  BY <1>7, <1>8 DEF PurposeInv
<1>10. Sound(x) /\ x.exists \in BOOLEAN
  BY <1>2, <1>9 DEF ClientParts, BlocksInv, Sound, BlockState
\* Wherever the call goes on, it is about the same block of the same release.
<1>11. ASSUME NEW q \in CallState, q.then = "release", q.b = r.b, q.todo = r.todo,
              q.pc \in {"query", "handle", "drop block"}, Goto(c, q), CoveredNext(c),
              \A b \in BlockNames : b \notin r.todo => Known(b, blocks'[b], h, Lost(c)) = {},
              q.pc # "query" => Known(r.b, blocks'[r.b], h, Lost(c)) = {}
       PROVE  ClientMoves(c)
  <2>1. PurposeInv(q)
    BY <1>9, <1>11 DEF PurposeInv
  <2>2. CopyInv(blocks', h, q) /\ HandleCopyInv(handles'[h], q)
    BY <1>11 DEF CopyInv, Assigning, HandleCopyInv
  <2>3. CountInv(blocks', handles'[h], h, q, Lost(c))
    BY <1>11 DEF CountInv, Pending, CoveredNext
  <2>4. ReleaseInv(blocks', h, q, Lost(c))
    BY <1>8, <1>9, <1>11 DEF ReleaseInv
  <2>5. CallInv(blocks', handles'[h], h, q, Lost(c))
    BY <2>1, <2>2, <2>3, <2>4, <1>11 DEF CallInv
  <2> QED BY <1>8, <1>11, <2>5, GotoMoves DEF ClientParts
<1>12. CASE Current(x, r.v)
  <2>1. blocks' = [blocks EXCEPT ![r.b] = w] /\ Goto(c, q1)
    BY <1>7, <1>12 DEF PutBlock
  <2>2. x.exists /\ r.v = Freed(x, h)
    BY <1>2, <1>7, <1>8, <1>12 DEF CopyInv, Current
  <2>3. /\ Evolves(x, w) /\ OrdinalsOf(w, h) = {}
        /\ \A g \in Handles : g # h => Keeps(x, w, g)
    BY <1>3, <1>8, <1>10, <2>2, Released
  <2>4. blocks'[r.b] = w /\ \A b \in BlockNames : b # r.b => blocks'[b] = blocks[b]
    BY <1>9, <2>1 DEF ClientParts, BlocksInv
  <2>5. CoveredNext(c)
    <3>1. /\ Covered(blocks, handles[h], h, Lost(c))
          /\ \A b \in BlockNames : handles[h].count[b] \in Nat
      BY <1>8 DEF CountInv, HandleState
    <3>2. Cardinality(Known(r.b, w, h, Lost(c))) = 0
      BY <2>3, KnownFacts
    <3>3. ASSUME NEW b \in BlockNames
          PROVE  Cardinality(Known(b, blocks'[b], h, Lost(c))) <= handles[h].count[b]
      <4>1. CASE b = r.b
        BY <2>4, <3>1, <3>2, <4>1
      <4>2. CASE b # r.b
        BY <2>4, <3>1, <4>2 DEF Covered
      <4> QED BY <4>1, <4>2
    <3> QED BY <1>7, <3>3 DEF CoveredNext, Covered
  <2>6. \A b \in BlockNames : b \notin r.todo => Known(b, blocks'[b], h, Lost(c)) = {}
    BY <1>8, <1>9, <2>3, <2>4, KnownFacts DEF ReleaseInv
  <2>a. Known(r.b, blocks'[r.b], h, Lost(c)) = {}
    BY <2>3, <2>4, KnownFacts
  <2>7. PICK p \in {"drop block", "handle"} :
          p = IF r.v.deleted THEN "drop block" ELSE "handle"
    OBVIOUS
  <2>8. q1 \in CallState /\ q1.then = r.then /\ q1.b = r.b /\ q1.todo = r.todo /\ q1.pc = p
    <3>1. q1 = [r EXCEPT !.k = 1, !.v = NoBlock, !.pc = p]
      BY <1>4, <2>7
    <3>2. p \in Places
      BY <2>7 DEF Places
    <3> QED BY <1>8, <3>1, <3>2, RestType DEF CallState
  <2>9. ClientMoves(c)
    <3>1. q1.pc \in {"query", "handle", "drop block"}
      BY <2>7, <2>8
    <3> QED BY <1>9, <1>11, <2>1, <2>5, <2>6, <2>8, <2>a, <3>1
  <2> QED BY <1>2, <1>7, <1>9, <2>1, <2>3, <2>9, BlockStep
<1>13. CASE ~Current(x, r.v)
  <2>1. /\ blocks' = blocks
        /\ CASE x.exists /\ r.i < DatastoreRetries -> Goto(c, q2)
             [] ~x.exists /\ r.v.deleted -> Goto(c, q3)
             [] OTHER -> Finish(c, "not released")
    BY <1>7, <1>13
  <2>2. CoveredNext(c)
    BY <1>7, <2>1, Unwritten DEF ClientParts
  <2>3. \A b \in BlockNames : b \notin r.todo => Known(b, blocks'[b], h, Lost(c)) = {}
    BY <1>8, <1>9, <2>1 DEF ReleaseInv
  <2>4. ASSUME x.exists /\ r.i < DatastoreRetries PROVE ClientMoves(c)
    <3>1. Goto(c, q2)
      BY <2>1, <2>4
    <3>a. r.i \in Nat
      BY <1>8 DEF CallState
    <3>2. PICK n \in Nat : n = r.i + 1
      BY <3>a
    <3>3. q2 = [r EXCEPT !.pc = "query", !.i = n, !.num = 0, !.v = NoBlock]
      BY <1>5, <3>2
    <3>4. /\ q2 \in CallState /\ q2.then = r.then /\ q2.b = r.b /\ q2.todo = r.todo
          /\ q2.pc = "query"
      BY <1>8, <3>3, RestType DEF CallState, Places
    <3> QED BY <1>9, <1>11, <2>2, <2>3, <3>1, <3>4
  <2>5. ASSUME ~x.exists /\ r.v.deleted PROVE ClientMoves(c)
    <3>1. Goto(c, q3)
      BY <2>1, <2>5
    <3>2. /\ q3 \in CallState /\ q3.then = r.then /\ q3.b = r.b /\ q3.todo = r.todo
          /\ q3.pc = "handle"
      BY <1>6, <1>8, RestType DEF CallState, Places
    <3>3. Known(r.b, blocks'[r.b], h, Lost(c)) = {}
      BY <1>2, <1>8, <1>10, <2>1, <2>5, MissingIsFree, KnownFacts
    <3> QED BY <1>9, <1>11, <2>2, <2>3, <3>1, <3>2, <3>3
  <2>6. ASSUME ~(x.exists /\ r.i < DatastoreRetries), ~(~x.exists /\ r.v.deleted)
        PROVE  ClientMoves(c)
    <3>1. Finish(c, "not released")
      BY <2>1, <2>6
    <3> QED BY <2>2, <3>1, FinishMoves DEF ClientParts, Outcomes
  <2> QED BY <1>7, <2>1, <2>4, <2>5, <2>6, ReadStep
<1> QED BY <1>12, <1>13

-----------------------------------------------------------------------------
(* Clients that are killed, calls that fail and answers that are lost.       *)

LEMMA CrashKept ==
  ASSUME ClientParts, NEW c \in Clients, Crash(c)
  PROVE  Kept
<1>1. blocks' = blocks /\ handles' = handles /\ Finish(c, "crashed")
  BY DEF Crash
<1>2. CoveredNext(c)
  BY <1>1, Unwritten DEF ClientParts
<1>3. ClientMoves(c)
  BY <1>1, <1>2, FinishMoves DEF ClientParts, Outcomes
<1> QED BY <1>1, <1>3, ReadStep

\* An assignment that is given up: the handle is still to be decremented.
LEMMA GivenUpCall ==
  ASSUME ClientParts, NEW c \in Clients, At(c).pc = "block", NEW l,
         CountInv(blocks', handles'[HandleOf[c]], HandleOf[c], At(c), l),
         NEW q, q = GivenUp(c)
  PROVE  CallInv(blocks', handles'[HandleOf[c]], HandleOf[c], q, l)
<1> DEFINE h == HandleOf[c]
<1>1. PICK r : r = At(c)
  OBVIOUS
<1>2. r.pc = "block" /\ CountInv(blocks', handles'[h], h, r, l)
  BY <1>1
<1>3. r \in CallState /\ PurposeInv(r)
  <2>1. r.pc # "idle"
    BY <1>2
  <2> QED BY <1>1, <2>1, InCall
<1>4. r.b \in BlockNames /\ r.num = 1
  BY <1>2, <1>3 DEF PurposeInv
<1>5. q = [r EXCEPT !.pc = "handle", !.k = 1, !.v = NoBlock, !.o = 0, !.then = "failed"]
  BY <1>1 DEF GivenUp
<1>6. /\ q \in CallState /\ q.pc = "handle" /\ q.then = "failed" /\ q.b = r.b
      /\ q.num = 1
  <2>1. PICK t \in Purposes : t = "failed"
    BY DEF Purposes
  <2>2. q = [r EXCEPT !.pc = "handle", !.k = 1, !.v = NoBlock, !.o = 0, !.then = t]
    BY <1>5, <2>1
  <2>3. /\ q \in CallState /\ q.pc = "handle" /\ q.then = t /\ q.b = r.b
        /\ q.num = r.num
    BY ONLY <1>3, <2>1, <2>2, RestType DEF CallState, Places
  <2> QED BY <1>4, <2>1, <2>3
<1>7. PurposeInv(q)
  BY <1>4, <1>6 DEF PurposeInv
<1>8. CopyInv(blocks', h, q) /\ HandleCopyInv(handles'[h], q)
  BY <1>6 DEF CopyInv, Assigning, HandleCopyInv
<1>9. CountInv(blocks', handles'[h], h, q, l)
  BY <1>2, <1>6 DEF CountInv, Pending
<1>10. ReleaseInv(blocks', h, q, l)
  BY <1>6 DEF ReleaseInv
<1> QED BY <1>6, <1>7, <1>8, <1>9, <1>10 DEF CallInv

\* Wherever a call fails, what the caller does next fits.
LEMMA FailedMoves ==
  ASSUME ClientParts, NEW c \in Clients, CoveredNext(c),
         ReleaseInv(blocks', HandleOf[c], At(c), Lost(c)),
         At(c).pc = "block" =>
           CountInv(blocks', handles'[HandleOf[c]], HandleOf[c], At(c), Lost(c)),
         Failed(c)
  PROVE  ClientMoves(c)
<1> DEFINE h == HandleOf[c]
<1>1. PICK r : r = At(c)
  OBVIOUS
<1>2. r \in CallState /\ PurposeInv(r) /\ r.pc \in Places
  BY <1>1, Busy DEF ClientParts, CallInv, CallState
<1>3. r.pc # "idle" => client[c].state \notin Outcomes
  BY <1>1, Busy DEF ClientParts
<1>4. CASE Finish(c, "failed") \/ Finish(c, "not released")
  BY <1>4, FinishMoves DEF ClientParts, Outcomes
<1>5. CASE r.pc = "block" /\ Goto(c, GivenUp(c))
  <2>1. PICK q : q = GivenUp(c)
    OBVIOUS
  <2>2. CallInv(blocks', handles'[h], h, q, Lost(c))
    BY <1>1, <1>5, <2>1, GivenUpCall
  <2>3. client[c].state \notin Outcomes /\ Goto(c, q)
    BY <1>3, <1>5, <2>1
  <2> QED BY <2>2, <2>3, GotoMoves DEF ClientParts
<1>6. CASE r.pc # "idle" /\ Again(c)
  BY <1>3, <1>6, AgainMoves DEF ClientParts
<1>7. CASE r.pc \in {"handle", "reapHandle", "uncount", "drop"} /\ Decremented(c)
  <2>1. r.then = "release" => Known(r.b, blocks'[r.b], h, Lost(c)) = {}
    BY <1>1, <1>7 DEF ReleaseInv
  <2>2. client[c].state \notin Outcomes
    BY <1>3, <1>7
  <2> QED BY <1>1, <1>7, <2>1, <2>2, DecrementedMoves DEF ClientParts
<1>8. CASE r.pc = "idle"
  BY <1>1, <1>2, <1>4, <1>8 DEF Failed, PurposeInv
<1>9. CASE r.pc # "idle"
  <2>1. client[c].state # "new"
    BY <1>3, <1>9 DEF Outcomes
  <2> QED BY <1>1, <1>2, <1>4, <1>5, <1>6, <1>7, <1>9, <2>1 DEF Failed, Places
<1> QED BY <1>8, <1>9

LEMMA CallFailsKept ==
  ASSUME ClientParts, NEW c \in Clients, CallFails(c)
  PROVE  Kept
<1>1. blocks' = blocks /\ handles' = handles /\ Failed(c)
  BY DEF CallFails
<1>2. CoveredNext(c)
  BY <1>1, Unwritten DEF ClientParts
<1>3. /\ ReleaseInv(blocks', HandleOf[c], At(c), Lost(c))
      /\ CountInv(blocks', handles'[HandleOf[c]], HandleOf[c], At(c), Lost(c))
  BY <1>1, Busy DEF ClientParts, CallInv
<1>4. ClientMoves(c)
  BY <1>1, <1>2, <1>3, FailedMoves
<1> QED BY <1>1, <1>4, ReadStep

\* A block that is written while its writer gives up.
LEMMA BlockAnswerLostKept ==
  ASSUME ClientParts, NEW c \in Clients, BlockAnswerLost(c)
  PROVE  Kept
<1> DEFINE h == HandleOf[c]
<1>1. PICK r : r = At(c)
  OBVIOUS
<1>2. PICK x : x = blocks[r.b]
  OBVIOUS
<1>3. PICK w : /\ \/ r.pc = "create" /\ ~x.exists /\ w = NewBlock(x.rv)
                  \/ r.pc = "free" /\ Current(x, r.v) /\ w = Stored(r.v)
                  \/ r.pc \in {"reap", "drop block"} /\ w = Gone(NoBlock, x)
               /\ blocks' = [blocks EXCEPT ![r.b] = w]
  BY <1>1, <1>2 DEF BlockAnswerLost, PutBlock
<1>4. handles' = handles /\ Failed(c)
  BY DEF BlockAnswerLost
<1>5. /\ r \in CallState /\ h \in Handles /\ PurposeInv(r) /\ CopyInv(blocks, h, r)
      /\ CountInv(blocks, handles[h], h, r, Lost(c)) /\ ReleaseInv(blocks, h, r, Lost(c))
      /\ handles[h] \in HandleState
  <2>1. r.pc # "idle"
    BY <1>3
  <2> QED BY <1>1, <2>1, InCall
<1>6. r.b \in BlockNames
  BY <1>3, <1>5 DEF PurposeInv
<1>7. Sound(x)
  BY <1>2, <1>6 DEF ClientParts, BlocksInv
<1>8. CASE r.pc = "free"
  <2>1. w = Stored(Freed(x, h)) /\ x.exists
    BY <1>2, <1>3, <1>5, <1>8 DEF CopyInv, Current
  <2>2. /\ Evolves(x, w) /\ OrdinalsOf(w, h) = {}
        /\ \A g \in Handles : g # h => Keeps(x, w, g)
    BY <1>5, <1>7, <2>1, Released
  <2>3. blocks'[r.b] = w /\ \A b \in BlockNames : b # r.b => blocks'[b] = blocks[b]
    BY <1>3, <1>6 DEF ClientParts, BlocksInv
  <2>4. /\ Known(r.b, w, h, Lost(c)) = {}
        /\ Cardinality(Known(r.b, w, h, Lost(c))) = 0
    BY <2>2, KnownFacts
  <2>5. CoveredNext(c)
    <3>1. Covered(blocks, handles[h], h, Lost(c)) /\ handles[h].count[r.b] \in Nat
      BY <1>5, <1>6 DEF CountInv, HandleState
    <3>2. Cardinality(Known(r.b, w, h, Lost(c))) <= handles[h].count[r.b]
      BY <2>4, <3>1
    <3> QED BY <1>4, <2>3, <3>1, <3>2 DEF Covered, CoveredNext
  <2>6. ReleaseInv(blocks', h, r, Lost(c))
    BY <1>5, <1>6, <1>8, <2>3, <2>4 DEF ReleaseInv
  <2>7. ClientMoves(c)
    BY <1>1, <1>4, <1>8, <2>5, <2>6, FailedMoves
  <2> QED BY <1>2, <1>3, <1>4, <1>6, <2>2, <2>7, BlockStep
<1>9. CASE r.pc # "free"
  <2>1. Evolves(x, w) /\ \A g \in Handles : Keeps(x, w, g)
    BY <1>3, <1>7, <1>9, Created, Deleted
  <2>2. Follows(blocks, blocks') /\ Spares(blocks, blocks', h)
    BY <1>2, <1>3, <1>5, <1>6, <2>1, BlockWritten DEF ClientParts
  <2>3. CallInv(blocks', handles'[h], h, r, Lost(c)) /\ CoveredNext(c)
    BY <1>1, <1>4, <2>2, CallAfter
  <2>4. ClientMoves(c)
    BY <1>1, <1>4, <2>3, FailedMoves DEF CallInv
  <2> QED BY <1>2, <1>3, <1>4, <1>6, <2>1, <2>4, BlockStep
<1> QED BY <1>8, <1>9

LEMMA HandleAnswerLostKept ==
  ASSUME ClientParts, NEW c \in Clients, HandleAnswerLost(c)
  PROVE  Kept
<1> DEFINE h == HandleOf[c]
<1>1. PICK r : r = At(c)
  OBVIOUS
<1>2. PICK w : /\ \/ r.pc = "count" /\ w = More(c)
                  \/ r.pc = "uncount" /\ w = Less(c)
                  \/ r.pc \in {"reapHandle", "drop"} /\ w = Gone(NoHandle, handles[h])
               /\ PutHandle(h, w)
  BY <1>1 DEF HandleAnswerLost
<1>3. blocks' = blocks /\ Failed(c)
  BY DEF HandleAnswerLost
<1>4. /\ handles[h] \in HandleState /\ HandleCopyInv(handles[h], r)
      /\ CountInv(blocks, handles[h], h, r, Lost(c)) /\ ReleaseInv(blocks', h, r, Lost(c))
  <2>1. r.pc # "idle"
    BY <1>2
  <2> QED BY <1>1, <1>3, <2>1, InCall
<1>5. HandleInv(w) /\ Covered(blocks, w, h, Lost(c))
  <2>1. Covered(blocks, handles[h], h, Lost(c))
        /\ \A b \in BlockNames : handles[h].count[b] \in Nat
    BY <1>4 DEF CountInv, HandleState
  <2>2. CASE r.pc = "count"
    <3>1. /\ w \in HandleState /\ w.exists /\ ~w.deleted
          /\ \A b \in BlockNames :
               w.count[b] = IF b = r.b THEN handles[h].count[b] + 1 ELSE handles[h].count[b]
      BY <1>1, <1>2, <2>2, MoreFacts
    <3>2. \A b \in BlockNames : /\ Cardinality(Known(b, blocks[b], h, Lost(c))) \in Nat
                                /\ handles[h].count[b] <= w.count[b]
      BY <2>1, <3>1, KnownFacts
    <3>3. \A b \in BlockNames : w.count[b] \in Nat
      BY <3>1 DEF HandleState
    <3>4. Covered(blocks, w, h, Lost(c))
      BY <2>1, <3>2, <3>3 DEF Covered
    <3> QED BY <3>1, <3>4 DEF HandleInv
  <2>3. CASE r.pc = "uncount"
    BY <1>1, <1>2, <2>3, LessFacts
  <2>4. CASE r.pc \in {"reapHandle", "drop"}
    <3>1. HandleInv(w) /\ \A b \in BlockNames : w.count[b] = 0
      BY <1>2, <1>4, <2>4, GoneHandle
    <3>2. \A b \in BlockNames : handles[h].count[b] = 0
      BY <1>4, <2>4 DEF HandleCopyInv
    <3> QED BY <2>1, <3>1, <3>2 DEF Covered
  <2> QED BY <1>2, <2>2, <2>3, <2>4
<1>6. CoveredNext(c)
  BY <1>2, <1>3, <1>5, HandleWritten DEF CoveredNext
<1>7. r.pc # "block"
  BY <1>2
<1>8. ClientMoves(c)
  BY <1>1, <1>3, <1>4, <1>6, <1>7, FailedMoves
<1> QED BY <1>2, <1>3, <1>5, <1>8, HandleStep

\* The block has an address more, but not one that the client knows of.
LEMMA AssignmentLostKept ==
  ASSUME ClientParts, NEW c \in Clients, AssignmentLost(c)
  PROVE  Kept
<1> DEFINE h == HandleOf[c]
<1>1. PICK r : r = At(c)
  OBVIOUS
<1>2. PICK x : x = blocks[r.b]
  OBVIOUS
<1>3. PICK w : w = Stored(r.v)
  OBVIOUS
<1>4. PICK q : q = GivenUp(c)
  OBVIOUS
<1>5. PICK l : l = Lost(c) \cup {<<r.b, r.v.born, r.o>>}
  OBVIOUS
<1>6. /\ r.pc = "block" /\ handles' = handles /\ Current(x, r.v)
      /\ blocks' = [blocks EXCEPT ![r.b] = w]
      /\ client' = [client EXCEPT ![c].at = q, ![c].lost = l]
  BY <1>1, <1>2, <1>3, <1>4, <1>5 DEF AssignmentLost, PutBlock, Lost
<1>7. /\ r \in CallState /\ h \in Handles /\ client[c].state \notin Outcomes
      /\ client[c] \in ClientState /\ PurposeInv(r)
      /\ CountInv(blocks, handles[h], h, r, Lost(c)) /\ handles[h] \in HandleState
  <2>1. r.pc # "idle"
    BY <1>6
  <2> QED BY <1>1, <2>1, InCall
<1>8. r.b \in BlockNames
  BY <1>6, <1>7 DEF PurposeInv
<1>9. /\ Evolves(x, w) /\ w.born = x.born /\ x.born \in Nat
      /\ r.v.born = x.born /\ r.o \in Ordinals
      /\ OrdinalsOf(w, h) = OrdinalsOf(x, h) \cup {r.o}
      /\ \A g \in Handles : g # h => Keeps(x, w, g)
  BY <1>1, <1>2, <1>3, <1>6, Assigns
<1>10. blocks'[r.b] = w /\ \A b \in BlockNames : b # r.b => blocks'[b] = blocks[b]
  BY <1>6, <1>8 DEF ClientParts, BlocksInv
<1>11. ASSUME NEW b \in BlockNames
       PROVE  /\ Cardinality(Known(b, blocks'[b], h, l))
                   <= Cardinality(Known(b, blocks[b], h, Lost(c)))
              /\ Cardinality(Known(b, blocks'[b], h, l)) \in Nat
              /\ Cardinality(Known(b, blocks[b], h, Lost(c))) \in Nat
  <2>1. Known(b, blocks'[b], h, l) \in SUBSET Known(b, blocks[b], h, Lost(c))
    <3>1. CASE b = r.b
      <4>1. Known(r.b, w, h, l) \in SUBSET Known(r.b, x, h, Lost(c))
        BY <1>5, <1>9 DEF Known
      <4> QED BY <1>2, <1>10, <3>1, <4>1
    <3>2. CASE b # r.b
      <4>1. blocks'[b] = blocks[b]
        BY <1>10, <3>2
      <4> QED BY <1>5, <4>1 DEF Known
    <3> QED BY <3>1, <3>2
  <2> QED BY <2>1, KnownFacts, FS_Subset
<1>12. CountInv(blocks', handles'[h], h, r, l)
  <2>1. /\ Covered(blocks, handles[h], h, Lost(c))
        /\ Cardinality(Known(r.b, blocks[r.b], h, Lost(c))) + 1 <= handles[h].count[r.b]
    BY <1>6, <1>7 DEF CountInv, Pending
  <2>2. \A b \in BlockNames : handles[h].count[b] \in Nat
    BY <1>7 DEF HandleState
  <2>3. Covered(blocks', handles[h], h, l)
    BY <1>11, <2>1, <2>2 DEF Covered
  <2>4. Cardinality(Known(r.b, blocks'[r.b], h, l)) + 1 <= handles[h].count[r.b]
    BY <1>8, <1>11, <2>1, <2>2
  <2> QED BY <1>6, <2>3, <2>4 DEF CountInv
<1>13. CallInv(blocks', handles'[h], h, q, l)
  BY <1>1, <1>4, <1>6, <1>12, GivenUpCall
<1>14. l \in SUBSET (BlockNames \X Nat \X Ordinals)
  BY <1>5, <1>7, <1>8, <1>9 DEF ClientState, Lost
<1> DEFINE y == [client[c] EXCEPT !.at = q, !.lost = l]
<1>15. client' = [client EXCEPT ![c] = y]
  BY <1>6
<1>16. /\ y \in ClientState /\ y.at = q /\ y.lost = l /\ y.state = client[c].state
  <2>1. q \in CallState
    BY <1>13 DEF CallInv
  <2> QED BY <1>7, <1>14, <2>1 DEF ClientState
<1> HIDE DEF y
<1>17. ClientInv(blocks', handles'[h], h, y)
  <2>1. y.state \notin Outcomes /\ y.state # "held" /\ y.state # "released"
    BY <1>7, <1>16 DEF Outcomes
  <2> QED BY <1>13, <1>16, <2>1 DEF ClientInv, HeldInv, ReleasedInv
<1>18. ClientMoves(c)
  BY <1>15, <1>17 DEF ClientMoves
<1> QED BY <1>2, <1>6, <1>8, <1>9, <1>18, BlockStep

\* Every step of a client keeps the clients' part, and queues the pool if it
\* writes a block.
Watched == UNCHANGED poolVars /\ (queued' = TRUE \/ UNCHANGED <<blocks, queued>>)

LEMMA ClientsKept ==
  ASSUME ClientParts, NEW c \in Clients,
         AutoAssign(c) \/ ReleaseByHandle(c) \/ ClientStep(c) \/ ClientFault(c)
  PROVE  Kept /\ Watched
<1>1. CASE AutoAssign(c)
  BY <1>1, AutoAssignKept DEF AutoAssign, Watched
<1>2. CASE ReleaseByHandle(c)
  BY <1>2, ReleaseByHandleKept DEF ReleaseByHandle, Watched
<1>3. CASE Crash(c)
  BY <1>3, CrashKept DEF Crash, Watched
<1>4. CASE FindBlock(c)
  BY <1>4, FindBlockKept DEF FindBlock, Watched
<1>5. CASE FindUnclaimedBlock(c)
  BY <1>5, FindUnclaimedBlockKept DEF FindUnclaimedBlock, Watched
<1>6. CASE CreateBlock(c)
  BY <1>6, CreateBlockKept DEF CreateBlock, PutBlock, Watched
<1>7. CASE QueryBlock(c)
  BY <1>7, QueryBlockKept DEF QueryBlock, Watched
<1>8. CASE ReapBlock(c)
  BY <1>8, ReapBlockKept DEF ReapBlock, PutBlock, Watched
<1>9. CASE QueryHandle(c)
  BY <1>9, QueryHandleKept DEF QueryHandle, Watched
<1>10. CASE ReapHandle(c)
  BY <1>10, ReapHandleKept DEF ReapHandle, Watched
<1>11. CASE IncrementHandle(c)
  BY <1>11, IncrementHandleKept DEF IncrementHandle, Watched
<1>12. CASE UpdateBlock(c)
  BY <1>12, UpdateBlockKept DEF UpdateBlock, PutBlock, Watched
<1>13. CASE DecrementHandle(c)
  BY <1>13, DecrementHandleKept DEF DecrementHandle, Watched
<1>14. CASE DropHandle(c)
  BY <1>14, DropHandleKept DEF DropHandle, Watched
<1>15. CASE FreeAddresses(c)
  BY <1>15, FreeAddressesKept DEF FreeAddresses, PutBlock, Watched
<1>16. CASE DropBlock(c)
  BY <1>16, DropBlockKept DEF DropBlock, PutBlock, Watched
<1>17. CASE CallFails(c)
  BY <1>17, CallFailsKept DEF CallFails, Watched
<1>18. CASE BlockAnswerLost(c)
  BY <1>18, BlockAnswerLostKept DEF BlockAnswerLost, PutBlock, Watched
<1>19. CASE HandleAnswerLost(c)
  BY <1>19, HandleAnswerLostKept DEF HandleAnswerLost, Watched
<1>20. CASE AssignmentLost(c)
  BY <1>20, AssignmentLostKept DEF AssignmentLost, PutBlock, Watched
<1> QED BY <1>1, <1>2, <1>3, <1>4, <1>5, <1>6, <1>7, <1>8, <1>9, <1>10, <1>11,
           <1>12, <1>13, <1>14, <1>15, <1>16, <1>17, <1>18, <1>19, <1>20
           DEF ClientStep, ClientFault

-----------------------------------------------------------------------------
(* The pool controller.                                                      *)

\* Copies the controller has listed stay copies.
LEMMA WorkerKept ==
  ASSUME BlocksInv, Follows(blocks, blocks'), NEW k, WorkerInv(blocks, k)
  PROVE  WorkerInv(blocks', k)
<1>1. ASSUME NEW n \in 1..Len(k.todo) PROVE ListedInv(blocks', k.todo[n])
  <2>1. PICK e : e = k.todo[n]
    OBVIOUS
  <2>2. CopyOf(blocks, e.b, e.v) /\ (Current(blocks[e.b], e.v) => e.v = blocks[e.b])
    BY <1>1, <2>1 DEF WorkerInv, ListedInv
  <2>3. e.b \in BlockNames /\ Sound(e.v) /\ e.v.exists /\ e.v.rv <= blocks[e.b].rv
    BY <2>2 DEF CopyOf
  <2>4. blocks[e.b] \in BlockState /\ Evolves(blocks[e.b], blocks'[e.b])
    BY <2>3 DEF BlocksInv, Follows
  <2>5. /\ e.v.rv <= blocks'[e.b].rv
        /\ Current(blocks'[e.b], e.v) =>
             Current(blocks[e.b], e.v) /\ blocks'[e.b] = blocks[e.b]
    BY <2>3, <2>4, CopyKept
  <2>6. ListedInv(blocks', e)
    BY <2>2, <2>3, <2>5 DEF ListedInv, CopyOf
  <2> QED BY <2>1, <2>6
<1> QED BY <1>1 DEF WorkerInv

\* A step that leaves the pool and the controller alone.
LEMMA ControllerKept ==
  ASSUME BlocksInv, ControllerInv, QuietInv, Follows(blocks, blocks'), Watched
  PROVE  ControllerInv' /\ QuietInv'
<1>1. pool' = pool /\ ctrl' = ctrl /\ (queued' = TRUE \/ UNCHANGED <<blocks, queued>>)
  BY DEF Watched, poolVars
<1>2. WorkerInv(blocks', ctrl)
  BY WorkerKept DEF ControllerInv
<1>3. ControllerInv'
  BY <1>1, <1>2 DEF ControllerInv
<1>4. CASE queued' = TRUE
  BY <1>3, <1>4 DEF QuietInv
<1>5. CASE UNCHANGED <<blocks, queued>>
  BY <1>1, <1>3, <1>5 DEF QuietInv
<1> QED BY <1>1, <1>4, <1>5

\* Updates of the pool keep its shape.
LEMMA PoolStored ==
  ASSUME NEW p, IsPool(p), NEW a, NEW q,
         \/ q = [p EXCEPT !.finalizer = TRUE]
         \/ q = [p EXCEPT !.disabled = TRUE]
         \/ q = [p EXCEPT !.exists = FALSE]
         \/ q = [p EXCEPT !.allocations = a]
         \/ q = [p EXCEPT !.deleting = TRUE, !.exists = p.finalizer]
  PROVE  IsPool(Stored(q))
<1> DEFINE P(A) == [exists : BOOLEAN, rv : Nat, finalizer : BOOLEAN,
                    deleting : BOOLEAN, disabled : BOOLEAN, allocations : A]
<1>1. PICK A : A = {p.allocations, a}
  OBVIOUS
<1>2. p \in P(A) /\ a \in A
  BY <1>1 DEF IsPool
<1>3. q \in P(A)
  BY <1>2
<1>4. PICK n \in Nat : n = q.rv + 1
  BY <1>3
<1>5. PICK z : z = [q EXCEPT !.rv = n]
  OBVIOUS
<1>6. z \in P(A)
  BY <1>3, <1>5
<1>7. z = [exists |-> z.exists, rv |-> z.rv, finalizer |-> z.finalizer,
           deleting |-> z.deleting, disabled |-> z.disabled,
           allocations |-> z.allocations]
  BY <1>6
<1>8. IsPool(z)
  BY <1>6, <1>7 DEF IsPool
<1> QED BY <1>4, <1>5, <1>8 DEF Stored

\* The worker goes on, or is done.
LEMMA WorkerSteps ==
  ASSUME NEW bs, NEW k, WorkerInv(bs, k), NEW p \in ControllerPlaces \ {"drop"},
         NEW z, z = [k EXCEPT !.pc = p]
  PROVE  /\ WorkerInv(bs, z) /\ z.pc = p /\ z.pool = k.pool /\ z.used = k.used
         /\ z.todo = k.todo
<1>1. k \in [pc : ControllerPlaces, pool : {k.pool}, used : {k.used}, todo : {k.todo}]
  BY DEF WorkerInv
<1>2. /\ z.pc = p /\ z.pool = k.pool /\ z.used = k.used /\ z.todo = k.todo
      /\ z = [pc |-> z.pc, pool |-> z.pool, used |-> z.used, todo |-> z.todo]
  BY <1>1
<1> QED BY <1>2 DEF WorkerInv

LEMMA NewPoolType == IsPool(NewPool)
BY DEF IsPool, NewPool

LEMMA WorkerDone ==
  ASSUME NEW bs
  PROVE  WorkerInv(bs, Waiting) /\ Waiting.pc = "idle"
<1>1. <<>> \in Seq(ListedBlock) /\ Len(<<>>) = 0
  OBVIOUS
<1>2. Waiting.todo = <<>> /\ Waiting.pool = NewPool /\ Waiting.pc = "idle"
  BY DEF Waiting
<1>3. Waiting = [pc |-> Waiting.pc, pool |-> Waiting.pool, used |-> Waiting.used,
                 todo |-> Waiting.todo]
  BY DEF Waiting
<1>4. \A n \in 1..Len(Waiting.todo) : ListedInv(bs, Waiting.todo[n])
  BY <1>1, <1>2
<1>5. Waiting.todo \in Seq(ListedBlock) /\ IsPool(Waiting.pool)
  BY <1>1, <1>2, NewPoolType
<1> QED BY <1>2, <1>3, <1>4, <1>5 DEF WorkerInv, ControllerPlaces

\* A step that puts the pool into the queue.
LEMMA Queued ==
  ASSUME queued' = TRUE, IsPool(pool'), WorkerInv(blocks', ctrl')
  PROVE  ControllerInv' /\ QuietInv'
BY DEF ControllerInv, QuietInv

LEMMA ProcessPoolKept ==
  ASSUME ControllerInv, QuietInv, ProcessPool
  PROVE  ControllerInv' /\ QuietInv'
<1>1. blocks' = blocks /\ pool' = pool /\ queued' = FALSE /\ ctrl.pc = "idle"
  BY DEF ProcessPool
<1>2. /\ pool.exists \in BOOLEAN /\ pool.deleting \in BOOLEAN
      /\ pool.finalizer \in BOOLEAN /\ IsPool(pool)
  BY DEF ControllerInv, IsPool
<1>3. CASE ~pool.exists
  <2>1. ctrl' = ctrl
    BY <1>3 DEF ProcessPool
  <2> QED BY <1>1, <1>3, <2>1 DEF ControllerInv, QuietInv
<1>4. CASE pool.exists
  <2>1. PICK p : p = CASE pool.deleting -> "disable"
                       [] ~pool.deleting /\ ~pool.finalizer -> "protect"
                       [] OTHER -> "stats"
    OBVIOUS
  <2>2. p \in {"disable", "protect", "stats"} /\ (p = "stats" => ~pool.deleting)
    BY <1>2, <2>1
  <2>3. PICK z : z = [Waiting EXCEPT !.pool = pool, !.pc = p]
    OBVIOUS
  <2>4. z = [pc |-> p, pool |-> pool, used |-> 0, todo |-> <<>>]
    BY <2>3 DEF Waiting
  <2>5. WorkerInv(blocks', z)
    <3>1. z.todo \in Seq(ListedBlock) /\ Len(z.todo) = 0
      BY <2>4
    <3>2. p \in ControllerPlaces /\ p # "drop"
      BY <2>2 DEF ControllerPlaces
    <3>3. z.pc = p /\ z.pool = pool
      BY <2>4
    <3>4. z = [pc |-> z.pc, pool |-> z.pool, used |-> z.used, todo |-> z.todo]
      BY <2>4
    <3> QED BY <1>2, <3>1, <3>2, <3>3, <3>4 DEF WorkerInv
  <2>6. ctrl' = z
    BY <1>4, <2>1, <2>3 DEF ProcessPool
  <2>7. z.pc = p /\ z.pool = pool
    BY <2>4
  <2> QED BY <1>1, <1>2, <1>4, <2>2, <2>5, <2>6, <2>7 DEF ControllerInv, QuietInv
<1> QED BY <1>2, <1>3, <1>4

\* Updates of the pool end up in the queue, refused or not.
LEMMA UpdatePoolKept ==
  ASSUME ControllerInv, blocks' = blocks, NEW new, IsPool(Stored(new)),
         NEW z, WorkerInv(blocks, z), UpdatePool(new, ctrl' = z)
  PROVE  ControllerInv' /\ QuietInv'
<1>1. CASE Current(pool, ctrl.pool)
  <2>1. pool' = Stored(new) /\ queued' = TRUE /\ ctrl' = z
    BY <1>1 DEF UpdatePool, StorePool
  <2> QED BY <2>1, Queued
<1>2. CASE ~Current(pool, ctrl.pool)
  <2>1. pool' = pool /\ queued' = TRUE /\ ctrl' = Waiting
    BY <1>2 DEF UpdatePool, Retry
  <2>2. WorkerInv(blocks', ctrl') /\ IsPool(pool')
    BY <2>1, WorkerDone DEF ControllerInv
  <2> QED BY <2>1, <2>2, Queued
<1> QED BY <1>1, <1>2

LEMMA AddFinalizerKept ==
  ASSUME ControllerInv, QuietInv, AddFinalizer
  PROVE  ControllerInv' /\ QuietInv'
<1>1. PICK new : new = [ctrl.pool EXCEPT !.finalizer = TRUE]
  OBVIOUS
<1>2. PICK z : z = [ctrl EXCEPT !.pc = "stats"]
  OBVIOUS
<1>3. blocks' = blocks /\ UpdatePool(new, ctrl' = z)
  BY <1>1, <1>2 DEF AddFinalizer, Step
<1>4. WorkerInv(blocks, ctrl) /\ IsPool(ctrl.pool)
  BY DEF ControllerInv, WorkerInv
<1>5. IsPool(Stored(new))
  BY <1>1, <1>4, PoolStored
<1>6. WorkerInv(blocks, z)
  BY <1>2, <1>4, WorkerSteps DEF ControllerPlaces
<1> QED BY <1>3, <1>5, <1>6, UpdatePoolKept

LEMMA GetIPPoolStatsKept ==
  ASSUME ControllerInv, QuietInv, GetIPPoolStats
  PROVE  ControllerInv' /\ QuietInv'
<1>1. blocks' = blocks /\ pool' = pool /\ ctrl.pc = "stats"
  BY DEF GetIPPoolStats
<1>2. WorkerInv(blocks, ctrl) /\ IsPool(pool)
  BY DEF ControllerInv
<1>3. CASE pool.exists
  <2>1. PICK n : n = Allocated(blocks)
    OBVIOUS
  <2>2. PICK z : z = [ctrl EXCEPT !.pc = "status", !.used = n]
    OBVIOUS
  <2>3. ctrl' = z /\ queued' = queued
    BY <1>3, <2>1, <2>2 DEF GetIPPoolStats
  <2>4. /\ z.pc = "status" /\ z.pool = ctrl.pool /\ z.used = n /\ z.todo = ctrl.todo
        /\ z = [pc |-> z.pc, pool |-> z.pool, used |-> z.used, todo |-> z.todo]
    <3>1. ctrl \in [pc : ControllerPlaces, pool : {ctrl.pool}, used : {ctrl.used, n},
                    todo : {ctrl.todo}]
      BY <1>2 DEF WorkerInv
    <3> QED BY <2>2, <3>1 DEF ControllerPlaces
  <2>5. WorkerInv(blocks, z)
    BY <1>2, <2>4 DEF WorkerInv, ControllerPlaces
  <2>6. ControllerInv'
    BY <1>1, <1>2, <2>3, <2>5 DEF ControllerInv
  <2>7. QuietInv'
    <3>1. Allocated(blocks') = n
      BY <1>1, <2>1
    <3> QED BY <1>1, <1>3, <2>3, <2>4, <3>1 DEF QuietInv
  <2> QED BY <2>6, <2>7
<1>4. CASE ~pool.exists
  <2>1. ctrl' = Waiting /\ queued' = TRUE
    BY <1>4 DEF GetIPPoolStats, Retry
  <2>2. WorkerInv(blocks', ctrl') /\ IsPool(pool')
    BY <1>1, <1>2, <2>1, WorkerDone
  <2> QED BY <2>1, <2>2, Queued
<1> QED BY <1>3, <1>4

LEMMA UpdateStatusKept ==
  ASSUME ControllerInv, QuietInv, UpdateStatus
  PROVE  ControllerInv' /\ QuietInv'
<1>1. blocks' = blocks /\ ctrl.pc = "status"
  BY DEF UpdateStatus
<1>2. WorkerInv(blocks, ctrl) /\ IsPool(pool) /\ IsPool(ctrl.pool)
  BY DEF ControllerInv, WorkerInv
<1>3. CASE ctrl.pool.allocations = ctrl.used
  <2>1. ctrl' = Waiting /\ pool' = pool /\ queued' = queued
    BY <1>3 DEF UpdateStatus, Done
  <2>2. WorkerInv(blocks', ctrl') /\ ctrl'.pc = "idle"
    BY <2>1, WorkerDone
  <2>3. ControllerInv'
    BY <1>2, <2>1, <2>2 DEF ControllerInv
  <2>4. QuietInv'
    <3>1. ~queued => /\ ctrl.pool = pool /\ ctrl.used = Allocated(blocks)
                     /\ pool.exists /\ pool.deleting => InUse(blocks)
      BY <1>1 DEF QuietInv
    <3>2. Allocated(blocks') = Allocated(blocks) /\ InUse(blocks') = InUse(blocks)
      BY <1>1
    <3> QED BY <1>3, <2>1, <2>2, <3>1, <3>2 DEF QuietInv
  <2> QED BY <2>3, <2>4
<1>4. CASE ctrl.pool.allocations # ctrl.used
  <2>1. PICK new : new = [ctrl.pool EXCEPT !.allocations = ctrl.used]
    OBVIOUS
  <2>2. UpdatePool(new, ctrl' = Waiting)
    BY <1>4, <2>1 DEF UpdateStatus, Done
  <2>3. IsPool(Stored(new))
    BY <1>2, <2>1, PoolStored
  <2> QED BY <1>1, <2>2, <2>3, WorkerDone, UpdatePoolKept
<1> QED BY <1>3, <1>4

LEMMA DisablePoolKept ==
  ASSUME ControllerInv, QuietInv, DisablePool
  PROVE  ControllerInv' /\ QuietInv'
<1>1. blocks' = blocks /\ ctrl.pc = "disable"
  BY DEF DisablePool
<1>2. WorkerInv(blocks, ctrl) /\ IsPool(pool) /\ IsPool(ctrl.pool)
  BY DEF ControllerInv, WorkerInv
<1>3. PICK z : z = [ctrl EXCEPT !.pc = "list"]
  OBVIOUS
<1>4. WorkerInv(blocks, z) /\ z.pc = "list" /\ z.pool = ctrl.pool
  BY <1>2, <1>3, WorkerSteps DEF ControllerPlaces
<1>5. CASE ctrl.pool.disabled
  <2>1. ctrl' = z /\ pool' = pool /\ queued' = queued
    BY <1>3, <1>5 DEF DisablePool, Step
  <2> QED BY <1>1, <1>2, <1>4, <2>1 DEF ControllerInv, QuietInv
<1>6. CASE ~ctrl.pool.disabled
  <2>1. PICK new : new = [ctrl.pool EXCEPT !.disabled = TRUE]
    OBVIOUS
  <2>2. UpdatePool(new, ctrl' = z)
    BY <1>3, <1>6, <2>1 DEF DisablePool, Step
  <2>3. IsPool(Stored(new))
    BY <1>2, <2>1, PoolStored
  <2> QED BY <1>1, <1>4, <2>2, <2>3, UpdatePoolKept
<1> QED BY <1>5, <1>6

LEMMA RemoveFinalizerKept ==
  ASSUME ControllerInv, QuietInv, RemoveFinalizer
  PROVE  ControllerInv' /\ QuietInv'
<1>1. PICK new : new = [ctrl.pool EXCEPT !.exists = FALSE]
  OBVIOUS
<1>2. blocks' = blocks /\ UpdatePool(new, ctrl' = Waiting)
  BY <1>1 DEF RemoveFinalizer, Done
<1>3. IsPool(ctrl.pool)
  BY DEF ControllerInv, WorkerInv
<1>4. IsPool(Stored(new))
  BY <1>1, <1>3, PoolStored
<1> QED BY <1>2, <1>4, WorkerDone, UpdatePoolKept

\* A failed attempt is made again.
LEMMA ControllerFailsKept ==
  ASSUME ControllerInv, ControllerFails
  PROVE  ControllerInv' /\ QuietInv'
<1>1. pool' = pool /\ ctrl' = Waiting /\ queued' = TRUE
  BY DEF ControllerFails, Retry
<1>2. IsPool(pool') /\ WorkerInv(blocks', ctrl')
  BY <1>1, WorkerDone DEF ControllerInv
<1> QED BY <1>1, <1>2, Queued

LEMMA DeletePoolKept ==
  ASSUME ControllerInv, QuietInv, DeletePool
  PROVE  ControllerInv' /\ QuietInv'
<1>1. PICK new : new = [pool EXCEPT !.deleting = TRUE, !.exists = pool.finalizer]
  OBVIOUS
<1>2. blocks' = blocks /\ pool' = Stored(new) /\ queued' = TRUE /\ ctrl' = ctrl
  BY <1>1 DEF DeletePool, StorePool
<1>3. IsPool(pool) /\ WorkerInv(blocks, ctrl)
  BY DEF ControllerInv
<1>4. IsPool(Stored(new))
  BY <1>1, <1>3, PoolStored
<1> QED BY <1>2, <1>3, <1>4, Queued

LEMMA ListPoolBlocksKept ==
  ASSUME BlocksInv, ControllerInv, QuietInv, ListPoolBlocks
  PROVE  ControllerInv' /\ QuietInv'
<1>1. PICK todo : todo = [n \in DOMAIN Listed |->
                            [b |-> Listed[n], v |-> blocks[Listed[n]]]]
  OBVIOUS
<1>2. PICK z : z = [ctrl EXCEPT !.pc = "walk", !.todo = todo]
  OBVIOUS
<1>3. /\ blocks' = blocks /\ pool' = pool /\ queued' = queued /\ ctrl' = z
      /\ ctrl.pc = "list"
  BY <1>1, <1>2 DEF ListPoolBlocks
<1>4. WorkerInv(blocks, ctrl) /\ IsPool(pool) /\ queued \in BOOLEAN
  BY DEF ControllerInv
<1>5. /\ DOMAIN Listed = 1..Len(Listed) /\ Len(Listed) \in Nat
      /\ \A n \in 1..Len(Listed) : Listed[n] \in BlockNames /\ blocks[Listed[n]].exists
  BY ListedFacts, LenProperties
<1>6. \A n \in 1..Len(Listed) :
        /\ todo[n] = [b |-> Listed[n], v |-> blocks[Listed[n]]]
        /\ todo[n] \in ListedBlock
        /\ todo[n].b = Listed[n] /\ todo[n].v = blocks[Listed[n]]
  BY <1>1, <1>5 DEF ListedBlock, BlocksInv
<1>7. todo \in Seq(ListedBlock) /\ Len(todo) = Len(Listed)
  <2>1. todo = [n \in 1..Len(Listed) |-> todo[n]]
    BY <1>1, <1>5
  <2> QED BY <1>5, <1>6, <2>1
<1>8. \A n \in 1..Len(todo) : /\ ListedInv(blocks, todo[n])
                              /\ todo[n].v = blocks[todo[n].b]
                              /\ blocks[todo[n].b].exists
  <2> TAKE n \in 1..Len(todo)
  <2>1. /\ todo[n].b \in BlockNames /\ todo[n].v = blocks[todo[n].b]
        /\ blocks[todo[n].b].exists
    BY <1>5, <1>6, <1>7
  <2>2. Sound(blocks[todo[n].b]) /\ blocks[todo[n].b].rv \in Nat
    BY <2>1 DEF BlocksInv, BlockState
  <2> QED BY <2>1, <2>2 DEF ListedInv, CopyOf
<1>9. /\ z.pc = "walk" /\ z.pool = ctrl.pool /\ z.used = ctrl.used /\ z.todo = todo
      /\ z = [pc |-> z.pc, pool |-> z.pool, used |-> z.used, todo |-> z.todo]
  <2>1. ctrl \in [pc : ControllerPlaces, pool : {ctrl.pool}, used : {ctrl.used},
                  todo : {ctrl.todo, todo}]
    BY <1>4 DEF WorkerInv
  <2> QED BY <1>2, <2>1 DEF ControllerPlaces
<1>10. WorkerInv(blocks, z)
  BY <1>4, <1>7, <1>8, <1>9 DEF WorkerInv, ControllerPlaces
<1>11. ControllerInv'
  BY <1>3, <1>4, <1>10 DEF ControllerInv
<1>12. QuietInv'
  BY <1>3, <1>8, <1>9 DEF QuietInv
<1> QED BY <1>11, <1>12

\* The head of the list, and what is behind it.
LEMMA WorkerHead ==
  ASSUME NEW bs, NEW k, WorkerInv(bs, k), k.todo # <<>>
  PROVE  /\ 1 \in 1..Len(k.todo) /\ Head(k.todo) = k.todo[1]
         /\ ListedInv(bs, Head(k.todo)) /\ Head(k.todo) \in ListedBlock
         /\ WorkerInv(bs, [k EXCEPT !.pc = "walk", !.todo = Tail(@)])
<1>1. k.todo \in Seq(ListedBlock) /\ Len(k.todo) \in Nat
  BY LenProperties DEF WorkerInv
<1>2. /\ 1 \in 1..Len(k.todo) /\ Head(k.todo) = k.todo[1]
      /\ Tail(k.todo) \in Seq(ListedBlock) /\ Len(Tail(k.todo)) = Len(k.todo) - 1
      /\ \A n \in 1..(Len(k.todo) - 1) : Tail(k.todo)[n] = k.todo[n + 1]
      /\ Head(k.todo) \in ListedBlock
  BY <1>1, HeadTailProperties, EmptySeq
<1>3. PICK t : t = Tail(k.todo)
  OBVIOUS
<1>4. \A n \in 1..Len(t) : ListedInv(bs, t[n])
  <2> TAKE n \in 1..Len(t)
  <2>1. n + 1 \in 1..Len(k.todo) /\ t[n] = k.todo[n + 1]
    BY <1>1, <1>2, <1>3
  <2> QED BY <2>1 DEF WorkerInv
<1>5. PICK z : z = [k EXCEPT !.pc = "walk", !.todo = t]
  OBVIOUS
<1>6. /\ z.pc = "walk" /\ z.pool = k.pool /\ z.used = k.used /\ z.todo = t
      /\ z = [pc |-> z.pc, pool |-> z.pool, used |-> z.used, todo |-> z.todo]
  <2>1. k \in [pc : ControllerPlaces, pool : {k.pool}, used : {k.used},
               todo : {k.todo, t}]
    BY DEF WorkerInv
  <2> QED BY <1>5, <2>1 DEF ControllerPlaces
<1>7. WorkerInv(bs, z)
  BY <1>2, <1>3, <1>4, <1>6 DEF WorkerInv, ControllerPlaces
<1>8. z = [k EXCEPT !.pc = "walk", !.todo = Tail(@)]
  BY <1>3, <1>5
<1>9. ListedInv(bs, Head(k.todo))
  BY <1>2 DEF WorkerInv
<1> QED BY <1>2, <1>7, <1>8, <1>9

\* The worker turns to the deletion of the block at the head.
LEMMA WorkerDrops ==
  ASSUME NEW bs, NEW k, WorkerInv(bs, k), k.todo # <<>>, NEW z,
         z = [k EXCEPT !.pc = "drop"]
  PROVE  /\ WorkerInv(bs, z) /\ z.pc = "drop" /\ z.pool = k.pool /\ z.todo = k.todo
<1>1. k \in [pc : ControllerPlaces, pool : {k.pool}, used : {k.used}, todo : {k.todo}]
  BY DEF WorkerInv
<1>2. /\ z.pc = "drop" /\ z.pool = k.pool /\ z.used = k.used /\ z.todo = k.todo
      /\ z = [pc |-> z.pc, pool |-> z.pool, used |-> z.used, todo |-> z.todo]
  BY <1>1 DEF ControllerPlaces
<1> QED BY <1>2 DEF WorkerInv, ControllerPlaces

\* A block written by the controller: the clients' part is kept.
LEMMA PoolWrite ==
  ASSUME ClientParts, UNCHANGED <<client, handles>>, NEW b \in BlockNames, NEW w,
         Evolves(blocks[b], w), \A h \in Handles : Keeps(blocks[b], w, h),
         blocks' = [blocks EXCEPT ![b] = w]
  PROVE  Kept
<1>1. /\ BlocksInv' /\ Follows(blocks, blocks')
      /\ \A h \in Handles : Spares(blocks, blocks', h)
  BY BlockWritten DEF ClientParts
<1>2. HandlesInv'
  BY DEF ClientParts, HandlesInv
<1>3. ClientsInv'
  BY <1>1, NoClientStepped DEF ClientParts
<1> QED BY <1>1, <1>2, <1>3 DEF Kept

LEMMA PoolRead ==
  ASSUME ClientParts, UNCHANGED <<client, handles, blocks>>
  PROVE  Kept
<1>1. BlocksInv' /\ Follows(blocks, blocks') /\ \A h : Spares(blocks, blocks', h)
  BY NoBlockWritten DEF ClientParts
<1>2. HandlesInv'
  BY DEF ClientParts, HandlesInv
<1>3. ClientsInv'
  BY <1>1, NoClientStepped DEF ClientParts
<1> QED BY <1>1, <1>2, <1>3 DEF Kept

LEMMA MarkPoolBlockKept ==
  ASSUME ClientParts, ControllerInv, QuietInv, MarkPoolBlock
  PROVE  Kept /\ ControllerInv' /\ QuietInv'
<1>1. PICK e : e = Head(ctrl.todo)
  OBVIOUS
<1>2. PICK b, v : b = e.b /\ v = e.v
  OBVIOUS
<1>3. PICK m : m = [v EXCEPT !.deleted = TRUE]
  OBVIOUS
<1>4. PICK w : w = Stored(m)
  OBVIOUS
<1>5. /\ ctrl.pc = "walk" /\ ctrl.todo # <<>> /\ pool' = pool
      /\ UNCHANGED <<client, handles>>
      /\ CASE ~Empty(v) -> Step("stats") /\ UNCHANGED <<blocks, queued>>
           [] Empty(v) /\ v.deleted -> Step("drop") /\ UNCHANGED <<blocks, queued>>
           [] Empty(v) /\ ~v.deleted /\ Current(blocks[b], v) ->
                PutBlock(b, w) /\ Step("drop")
           [] OTHER -> Retry /\ UNCHANGED blocks
  BY <1>1, <1>2, <1>3, <1>4 DEF MarkPoolBlock
<1>6. WorkerInv(blocks, ctrl) /\ IsPool(pool) /\ queued \in BOOLEAN
  BY DEF ControllerInv
<1>7. /\ 1 \in 1..Len(ctrl.todo) /\ e = ctrl.todo[1] /\ ListedInv(blocks, e)
  BY <1>1, <1>5, <1>6, WorkerHead
<1>8. /\ b \in BlockNames /\ Sound(v) /\ v.exists /\ v.rv <= blocks[b].rv
      /\ Current(blocks[b], v) => v = blocks[b]
  BY <1>2, <1>7 DEF ListedInv, CopyOf
<1>9. Empty(v) \in BOOLEAN /\ v.deleted \in BOOLEAN
  BY <1>8 DEF Empty, Sound, BlockState
<1>10. ~queued => v = blocks[b] /\ blocks[b].exists /\ ctrl.pool = pool /\ pool.exists
  BY <1>2, <1>5, <1>7 DEF QuietInv
<1>11. ASSUME UNCHANGED blocks PROVE Kept
  BY <1>5, <1>11, PoolRead
<1>12. CASE ~Empty(v)
  <2>1. PICK z : z = [ctrl EXCEPT !.pc = "stats"]
    OBVIOUS
  <2>2. blocks' = blocks /\ queued' = queued /\ ctrl' = z
    BY <1>5, <1>12, <2>1 DEF Step
  <2>3. WorkerInv(blocks, z) /\ z.pc = "stats" /\ z.pool = ctrl.pool
    BY <1>6, <2>1, WorkerSteps DEF ControllerPlaces
  <2>4. ~queued => InUse(blocks)
    BY <1>8, <1>10, <1>12 DEF InUse
  <2>5. ControllerInv'
    BY <1>5, <1>6, <2>2, <2>3 DEF ControllerInv
  <2>6. QuietInv'
    <3>1. ~queued => InUse(blocks')
      BY <2>2, <2>4
    <3> QED BY <1>5, <1>10, <2>2, <2>3, <3>1 DEF QuietInv
  <2> QED BY <1>11, <2>2, <2>5, <2>6
<1>13. PICK z : z = [ctrl EXCEPT !.pc = "drop"]
  OBVIOUS
<1>14. /\ WorkerInv(blocks, z) /\ z.pc = "drop" /\ z.pool = ctrl.pool
       /\ z.todo = ctrl.todo
  BY <1>5, <1>6, <1>13, WorkerDrops
<1>15. CASE Empty(v) /\ v.deleted
  <2>1. blocks' = blocks /\ queued' = queued /\ ctrl' = z
    BY <1>5, <1>13, <1>15 DEF Step
  <2>2. ControllerInv'
    BY <1>5, <1>6, <1>14, <2>1 DEF ControllerInv
  <2>3. QuietInv'
    BY <1>5, <1>14, <2>1 DEF QuietInv
  <2> QED BY <1>11, <2>1, <2>2, <2>3
<1>16. CASE Empty(v) /\ ~v.deleted /\ Current(blocks[b], v)
  <2>1. blocks' = [blocks EXCEPT ![b] = w] /\ queued' = TRUE /\ ctrl' = z
    BY <1>5, <1>13, <1>16 DEF Step, PutBlock
  <2>2. v = blocks[b]
    BY <1>8, <1>16
  <2>3. /\ Sound(m) /\ m.exists = v.exists /\ m.born = v.born /\ m.rv = v.rv
        /\ \A h : OrdinalsOf(m, h) = OrdinalsOf(v, h)
    <3>1. Sound(v)
      BY <1>8
    <3> QED BY <1>3, <3>1, MarkFacts, Zenon
  <2>4. Evolves(v, w) /\ \A h : Keeps(v, w, h)
    BY <1>4, <1>8, <2>3, Marked
  <2>5. Kept
    BY <1>5, <1>8, <2>1, <2>2, <2>4, PoolWrite
  <2>6. WorkerInv(blocks', z)
    BY <1>14, <2>5, WorkerKept DEF Kept, ClientParts
  <2> QED BY <1>5, <1>6, <2>1, <2>5, <2>6, Queued
<1>17. CASE Empty(v) /\ ~v.deleted /\ ~Current(blocks[b], v)
  <2>1. blocks' = blocks /\ queued' = TRUE /\ ctrl' = Waiting
    BY <1>5, <1>17 DEF Retry
  <2>2. WorkerInv(blocks', ctrl') /\ IsPool(pool')
    BY <1>5, <1>6, <2>1, WorkerDone
  <2> QED BY <1>11, <2>1, <2>2, Queued
<1> QED BY <1>9, <1>12, <1>15, <1>16, <1>17

LEMMA DropPoolBlockKept ==
  ASSUME ClientParts, ControllerInv, QuietInv, DropPoolBlock
  PROVE  Kept /\ ControllerInv' /\ QuietInv'
<1>1. PICK b : b = Head(ctrl.todo).b
  OBVIOUS
<1>2. PICK w : w = Gone(NoBlock, blocks[b])
  OBVIOUS
<1>3. PICK z : z = [ctrl EXCEPT !.pc = "walk", !.todo = Tail(@)]
  OBVIOUS
<1>4. /\ ctrl.pc = "drop" /\ pool' = pool /\ UNCHANGED <<client, handles>>
      /\ IF blocks[b].exists THEN PutBlock(b, w) /\ ctrl' = z
         ELSE Retry /\ UNCHANGED blocks
  BY <1>1, <1>2, <1>3 DEF DropPoolBlock
<1>5. WorkerInv(blocks, ctrl) /\ IsPool(pool) /\ ctrl.todo # <<>>
  BY <1>4 DEF ControllerInv, WorkerInv
<1>6. ListedInv(blocks, Head(ctrl.todo)) /\ WorkerInv(blocks, z)
  BY <1>3, <1>5, WorkerHead
<1>7. b \in BlockNames
  BY <1>1, <1>6 DEF ListedInv, CopyOf
<1>8. CASE blocks[b].exists
  <2>1. blocks' = [blocks EXCEPT ![b] = w] /\ queued' = TRUE /\ ctrl' = z
    BY <1>4, <1>8 DEF PutBlock
  <2>2. Sound(blocks[b])
    BY <1>7 DEF ClientParts, BlocksInv
  <2>3. Evolves(blocks[b], w) /\ \A h \in Handles : Keeps(blocks[b], w, h)
    BY <1>2, <2>2, Deleted
  <2>4. Kept
    BY <1>4, <1>7, <2>1, <2>3, PoolWrite
  <2>5. WorkerInv(blocks', z)
    BY <1>6, <2>4, WorkerKept DEF Kept, ClientParts
  <2> QED BY <1>4, <1>5, <2>1, <2>4, <2>5, Queued
<1>9. CASE ~blocks[b].exists
  <2>1. blocks' = blocks /\ queued' = TRUE /\ ctrl' = Waiting
    BY <1>4, <1>9 DEF Retry
  <2>2. WorkerInv(blocks', ctrl') /\ IsPool(pool')
    BY <1>4, <1>5, <2>1, WorkerDone
  <2>3. Kept
    BY <1>4, <2>1, PoolRead
  <2> QED BY <2>1, <2>2, <2>3, Queued
<1> QED BY <1>8, <1>9

LEMMA CollectBlockKept ==
  ASSUME ClientParts, NEW b \in BlockNames, CollectBlock(b)
  PROVE  Kept /\ Watched
<1>1. PICK w : w = Gone(NoBlock, blocks[b])
  OBVIOUS
<1>2. /\ blocks' = [blocks EXCEPT ![b] = w] /\ queued' = TRUE
      /\ UNCHANGED <<client, handles>> /\ UNCHANGED poolVars
  BY <1>1 DEF CollectBlock, PutBlock
<1>3. Sound(blocks[b])
  BY DEF ClientParts, BlocksInv
<1>4. Evolves(blocks[b], w) /\ \A h \in Handles : Keeps(blocks[b], w, h)
  BY <1>1, <1>3, Deleted
<1>5. Kept
  BY <1>2, <1>4, PoolWrite
<1> QED BY <1>2, <1>5 DEF Watched

-----------------------------------------------------------------------------
LEMMA InitInv == Init => IndInv
<1> SUFFICES ASSUME Init PROVE IndInv
  OBVIOUS
<1>1. /\ blocks = [b \in BlockNames |-> NoBlock] /\ handles = [h \in Handles |-> NoHandle]
      /\ pool = NewPool /\ ctrl = Waiting /\ queued = TRUE
      /\ client = [c \in Clients |->
                     [state |-> "new", addr |-> <<>>, at |-> Rest, lost |-> {}]]
  BY DEF Init
<1>2. /\ NoBlock.exists = FALSE /\ NoBlock.rv = 0 /\ NoBlock.born = 0
      /\ NoBlock.alloc = [o \in Ordinals |-> 0]
  BY DEF NoBlock
<1>3. Sound(NoBlock)
  <2>1. NoBlock \in BlockState
    BY RestType
  <2>2. \A o \in Ordinals : NoBlock.alloc[o] = 0
    BY <1>2
  <2>3. NoBlock.born <= NoBlock.rv
    BY <1>2
  <2> QED BY <1>2, <2>1, <2>2, <2>3 DEF Sound
<1>4. BlocksInv
  BY <1>1, <1>3, RestType DEF BlocksInv
<1>5. NoHandle.count = [b \in BlockNames |-> 0]
  BY DEF NoHandle
<1>6. HandleInv(NoHandle)
  BY <1>5, RestType DEF HandleInv
<1>7. HandlesInv
  BY <1>1, <1>6, RestType DEF HandlesInv
<1>8. PICK x : x = [state |-> "new", addr |-> <<>>, at |-> Rest, lost |-> {}]
  OBVIOUS
<1>9. x \in ClientState /\ x.state = "new" /\ x.at = Rest /\ x.lost = {}
  BY <1>8, RestType DEF ClientState, Outcomes
<1>10. ASSUME NEW c \in Clients
       PROVE  ClientInv(blocks, handles[HandleOf[c]], HandleOf[c], client[c])
  <2> DEFINE h == HandleOf[c]
  <2>1. h \in Handles /\ handles[h] = NoHandle /\ client[c] = x
    BY <1>1, <1>8, IPAMAssumption
  <2>2. OrdinalsOf(NoBlock, h) = {}
    BY <1>2, <1>3, <2>1, MissingIsFree
  <2>3. \A b : Cardinality(Known(b, NoBlock, h, {})) = 0
    BY <2>2, KnownFacts
  <2>4. Covered(blocks, NoHandle, h, {})
    BY <1>1, <1>5, <2>3 DEF Covered
  <2>5. CallInv(blocks, NoHandle, h, Rest, {})
    BY <2>4, RestType, FreshCall
  <2> QED BY <1>9, <2>1, <2>5 DEF ClientInv, HeldInv, ReleasedInv
<1>11. client \in [Clients -> ClientState]
  BY <1>1, <1>8, <1>9
<1>12. ClientsInv
  BY <1>10, <1>11 DEF ClientsInv
<1>13. ControllerInv
  BY <1>1, NewPoolType, WorkerDone DEF ControllerInv
<1>14. QuietInv
  BY <1>1 DEF QuietInv
<1> QED BY <1>4, <1>7, <1>12, <1>13, <1>14 DEF IndInv

LEMMA NextInv == IndInv /\ [Next]_vars => IndInv'
<1> SUFFICES ASSUME IndInv, [Next]_vars PROVE IndInv'
  OBVIOUS
<1>1. BlocksInv /\ ClientParts /\ ControllerInv /\ QuietInv
  BY DEF IndInv, ClientParts
<1>2. ASSUME Kept, ControllerInv' /\ QuietInv' PROVE IndInv'
  BY <1>2 DEF Kept, IndInv
<1>3. ASSUME NEW c \in Clients,
             AutoAssign(c) \/ ReleaseByHandle(c) \/ ClientStep(c) \/ ClientFault(c)
      PROVE  IndInv'
  <2>1. Kept /\ Watched
    BY <1>1, <1>3, ClientsKept
  <2> QED BY <1>1, <1>2, <2>1, ControllerKept DEF Kept
<1>4. ASSUME NEW b \in BlockNames, CollectBlock(b) PROVE IndInv'
  <2>1. Kept /\ Watched
    BY <1>1, <1>4, CollectBlockKept
  <2> QED BY <1>1, <1>2, <2>1, ControllerKept DEF Kept
<1>5. CASE DeletePool
  <2>1. Kept
    BY <1>1, <1>5, PoolRead DEF DeletePool
  <2> QED BY <1>1, <1>2, <1>5, <2>1, DeletePoolKept
<1>6. CASE ControllerStep
  <2>1. CASE ProcessPool
    BY <1>1, <1>2, <2>1, PoolRead, ProcessPoolKept DEF ProcessPool
  <2>2. CASE AddFinalizer
    BY <1>1, <1>2, <2>2, PoolRead, AddFinalizerKept DEF AddFinalizer
  <2>3. CASE GetIPPoolStats
    BY <1>1, <1>2, <2>3, PoolRead, GetIPPoolStatsKept DEF GetIPPoolStats
  <2>4. CASE UpdateStatus
    BY <1>1, <1>2, <2>4, PoolRead, UpdateStatusKept DEF UpdateStatus
  <2>5. CASE DisablePool
    BY <1>1, <1>2, <2>5, PoolRead, DisablePoolKept DEF DisablePool
  <2>6. CASE ListPoolBlocks
    BY <1>1, <1>2, <2>6, PoolRead, ListPoolBlocksKept DEF ListPoolBlocks
  <2>7. CASE MarkPoolBlock
    BY <1>1, <1>2, <2>7, MarkPoolBlockKept
  <2>8. CASE DropPoolBlock
    BY <1>1, <1>2, <2>8, DropPoolBlockKept
  <2>9. CASE RemoveFinalizer
    BY <1>1, <1>2, <2>9, PoolRead, RemoveFinalizerKept DEF RemoveFinalizer
  <2>10. CASE ControllerFails
    BY <1>1, <1>2, <2>10, PoolRead, ControllerFailsKept DEF ControllerFails
  <2> QED BY <1>6, <2>1, <2>2, <2>3, <2>4, <2>5, <2>6, <2>7, <2>8, <2>9, <2>10
             DEF ControllerStep
<1>7. CASE UNCHANGED vars
  <2>1. blocks' = blocks /\ UNCHANGED <<client, handles>> /\ UNCHANGED poolVars
        /\ queued' = queued
    BY <1>7 DEF vars
  <2>2. Kept /\ Watched
    BY <1>1, <2>1, PoolRead DEF Watched
  <2> QED BY <1>1, <1>2, <2>2, ControllerKept DEF Kept
<1> QED BY <1>3, <1>4, <1>5, <1>6, <1>7 DEF Next

\* The invariant of the clients' copies, of the handles' counts and of the
\* controller's view holds for any number of clients, blocks, addresses and faults:
\* a handle counts every address of its client but those assigned by an Update
\* whose answer was lost.
THEOREM IPAMInductive == Spec => []IndInv
<1>1. Init => IndInv
  BY InitInv
<1>2. IndInv /\ [Next]_vars => IndInv'
  BY NextInv
<1> QED BY <1>1, <1>2, PTL DEF Spec

\* Every stored block accounts for each of its ordinals exactly once, whatever
\* AutoAssign, ReleaseByHandle and the controller do to it at the same time.
THEOREM IPAMBlockAccounts == Spec => []BlockAccounts
<1>1. IndInv => BlockAccounts
  BY DEF IndInv, BlocksInv, Sound, BlockAccounts
<1> QED BY <1>1, IPAMInductive, PTL

\* An address AutoAssign returned stays with its handle as long as its block is
\* there.
THEOREM IPAMHeldIsAllocated == Spec => []HeldIsAllocated
<1>1. IndInv => HeldIsAllocated
  <2> SUFFICES ASSUME IndInv, NEW c \in Clients, client[c].state = "held",
                      NEW v, v = blocks[client[c].addr[1]],
                      v.exists, v.born = client[c].addr[2]
               PROVE  Owner(v, client[c].addr[3]) = HandleOf[c]
    BY DEF HeldIsAllocated
  <2>1. HeldInv(blocks, HandleOf[c], client[c])
    BY DEF IndInv, ClientsInv, ClientInv
  <2>2. client[c].addr[3] \in OrdinalsOf(v, HandleOf[c])
    BY <2>1 DEF HeldInv
  <2> QED BY <2>2 DEF OrdinalsOf
<1> QED BY <1>1, IPAMInductive, PTL

\* When ReleaseByHandle returns without an error no block has an address of the
\* handle any more, but for those assigned by an Update whose answer was lost,
\* however many clients die, calls fail and other answers are lost.
THEOREM IPAMReleasesEverything == Spec => []ReleasesEverything
<1>1. IndInv => ReleasesEverything
  BY DEF IndInv, ClientsInv, ClientInv, ReleasedInv, ReleasesEverything, Lost
<1> QED BY <1>1, IPAMInductive, PTL

\* When the controller has nothing to do, the status counts the addresses in
\* use, and a pool that is to be deleted is still there only because of them.
THEOREM IPAMPoolSettled == Spec => []PoolSettled
<1>1. IndInv => PoolSettled
  BY DEF IndInv, QuietInv, InUse, PoolSettled
<1> QED BY <1>1, IPAMInductive, PTL
=============================================================================
