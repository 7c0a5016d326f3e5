------------------------- MODULE QuotaStatusProofs -------------------------
(***************************************************************************)
(* Proofs about QuotaStatus, for any number of workers, namespaces,        *)
(* documents and requests, any retries and faults.  The invariant says     *)
(* what a running document is, compared with the version it was read from; *)
(* which documents a worker can still write; and that no request of its    *)
(* batch has been charged to one of those, unless the answer was lost.     *)
(***************************************************************************)
EXTENDS QuotaStatus, ListFacts

-----------------------------------------------------------------------------
(* The inductive invariant.  h stands for hist, x for the state of a worker. *)

ListsOver(Names) == UNION {[S -> Int] : S \in SUBSET Names}
Usages == ListsOver(AllTracked)
Limits == ListsOver(STRING)
Shares == UNION {[S -> Usages] : S \in SUBSET Namespaces}
Results == {DefaultDeny, "nil", "denied", "failed"}
Answers == {"new", "waiting", "timedOut", "admitted", "refused"}

Writers == {"create", "admit", "sync", "edit", "delete"}
VersionState ==
  [alive : BOOLEAN, limit : Limits, by : Writers, charged : SUBSET Requests,
   lost : BOOLEAN, hard : Limits, used : Usages, byNs : Shares]

DocState ==
  [name : Quotas, rv : Nat, hard : Limits, used : Usages,
   scopes : {Scopes[q] : q \in Quotas}, charging : SUBSET Requests]

WorkerState ==
  [pc : Pcs, ns : Namespaces \cup {""}, batch : Seq(Requests),
   retries : 0..Retries, failed : SUBSET Quotas, locks : SUBSET Quotas,
   todo : SUBSET Quotas, docs : Seq(DocState), writes : Seq(DocState),
   q : Quotas \cup {""}, got : Nat]

\* What a request adds to a document with the limits hard.
Gain(hard, r) == Mask(DeltaUsage(Attr[r]), DOMAIN hard)

\* The usage is base with what the requests in S add.
ExactUsage(used, base, hard, S) ==
  \A n \in AllTracked :
    At(used, n) = At(base, n) + Total([r \in S |-> Gain(hard, r)], n)

\* The usage of what the requests in S add to is within the limits.
WithinLimits(used, hard, S) ==
  \A r \in S : \A n \in DOMAIN Gain(hard, r) :
    n \in DOMAIN used /\ used[n] <= hard[n]

\* A running document: a version that exists, charged with what it says.
DocInv(h, d) ==
  /\ d \in DocState
  /\ d.rv \in 1..Len(h[d.name])
  /\ d.hard = h[d.name][d.rv].hard
  /\ ExactUsage(d.used, h[d.name][d.rv].used, d.hard, d.charging)
  /\ WithinLimits(d.used, d.hard, d.charging)

Names(s) == {s[i].name : i \in 1..Len(s)}
Distinct(s) == \A i, j \in 1..Len(s) : s[i].name = s[j].name => i = j

\* A worker in GetQuotas, past the list of names.
Reading(x) == x.pc = "fetch" \/ (x.pc \in {"cache", "evict"} /\ x.writes = <<>>)

\* What a worker has in hand at each place, and that locks are there exactly
\* once documents have been found; GetQuotas meets no name twice.
PlaceInv(h, x) ==
  /\ IsInjective(x.batch)
  /\ x.pc = "idle" => x.batch = <<>>
  /\ x.pc # "idle" => x.ns \in Namespaces
  /\ x.pc \in {"idle", "list", "fetch", "lock", "check"} => x.writes = <<>>
  /\ x.pc \in {"cache", "evict"} =>
       /\ x.q \in Quotas /\ x.got \in 1..Len(h[x.q])
       /\ IF x.writes = <<>> THEN x.q \in x.todo ELSE x.q = Head(x.writes).name
  /\ x.pc = "write" => x.writes # <<>> /\ x.got \in 1..Len(h[Head(x.writes).name])
  /\ x.pc = "add" => x.writes # <<>> /\ Head(x.writes).rv < Len(h[Head(x.writes).name])
  /\ x.pc \in {"idle", "lock"} => x.locks = {}
  /\ x.pc \in {"check", "update"} \/ x.writes # <<>> => x.locks # {}
  /\ x.locks = {} \/ x.pc = "check" => x.failed = {}
  /\ Reading(x) => x.todo \cap Native = {} /\ Names(x.docs) \cap (x.todo \cup Native) = {}
  /\ x.pc = "lock" => x.docs # <<>>

\* The documents of a worker.
DocsInv(h, x) ==
  /\ \A i \in 1..Len(x.docs) : DocInv(h, x.docs[i])
  /\ Reading(x) \/ x.pc \in {"lock", "check"} =>
       Distinct(x.docs) /\ \A i \in 1..Len(x.docs) : x.docs[i].charging = {}

\* The documents it is about to write: cluster quotas that have not failed.
WritesInv(h, x) ==
  /\ Distinct(x.writes)
  /\ \A i \in 1..Len(x.writes) :
       /\ DocInv(h, x.writes[i]) /\ x.writes[i].charging \subseteq ToSet(x.batch)
       /\ x.writes[i].name \notin Native \cup x.failed

\* The documents a worker can still charge before it answers.
Open(x) ==
  IF x.pc \in {"idle", "answer"} THEN {}
  ELSE IF x.locks = {} THEN Quotas
  ELSE IF x.pc = "check" THEN Names(x.docs)
  ELSE IF x.pc = "add" THEN x.failed \cup Names(Tail(x.writes))
  ELSE x.failed \cup Names(x.writes)

\* The versions that charge one of the requests in S to q are of lost answers.
OnlyLost(h, q, S) ==
  \A i \in 1..Len(h[q]) : h[q][i].charged \cap S # {} => h[q][i].lost

WorkerInv(h, x) ==
  /\ x \in WorkerState
  /\ PlaceInv(h, x) /\ DocsInv(h, x) /\ WritesInv(h, x)
  /\ \A q \in Open(x) : OnlyLost(h, q, ToSet(x.batch))

HistType(h) ==
  /\ h \in [Quotas -> Seq(VersionState)]
  /\ \A q \in Quotas : h[q] # <<>>

\* The total is the sum of the shares.
SharesInv(v) == \A n \in AllTracked : At(v.used, n) = Total(v.byNs, n)

\* What the evaluator's write of v made of the version u before it.
ChargeInv(u, v) ==
  v.by = "admit" =>
    /\ ExactUsage(v.used, u.used, u.hard, v.charged)
    /\ WithinLimits(v.used, u.hard, v.charged)

HistInv(h) ==
  /\ HistType(h)
  /\ \A q \in Quotas : \A i \in 1..Len(h[q]) :
       /\ q \notin Native => SharesInv(h[q][i])
       /\ i > 1 => ChargeInv(h[q][i - 1], h[q][i])
       /\ \A j \in 1..Len(h[q]) :
            i < j /\ h[q][i].charged \cap h[q][j].charged # {} => h[q][i].lost

StoreInv ==
  /\ cache \in [Quotas -> Nat] /\ lru \in [Quotas -> Nat]
  /\ \A q \in Quotas : cache[q] \in 1..Len(hist[q]) /\ lru[q] \in 0..Len(hist[q])
  /\ members \in [Quotas -> SUBSET Namespaces]

\* A request is handed in once: before that it is in no batch and not charged,
\* then it is in one batch at most.
CallersInv ==
  /\ result \in [Requests -> Results] /\ caller \in [Requests -> Answers]
  /\ \A k \in Workers : \A r \in Batch(k) : caller[r] # "new"
  /\ \A k, l \in Workers : k # l => Batch(k) \cap Batch(l) = {}
  /\ \A q \in Quotas : \A i \in 1..Len(hist[q]) :
       \A r \in hist[q][i].charged : caller[r] # "new"

WorkersInv == w \in [Workers -> WorkerState] /\ \A k \in Workers : WorkerInv(hist, w[k])

IndInv == HistInv(hist) /\ StoreInv /\ WorkersInv /\ CallersInv /\ Decided

-----------------------------------------------------------------------------
(* Resource lists and sums of them.                                          *)

LEMMA ListsAre ==
  ASSUME NEW N, NEW a
  PROVE  a \in ListsOver(N) <=> IsResourceList(a, N)
<1>1. ASSUME a \in ListsOver(N) PROVE IsResourceList(a, N)
  <2>1. PICK S \in SUBSET N : a \in [S -> Int]
    BY <1>1 DEF ListsOver
  <2> QED BY <2>1 DEF IsResourceList
<1>2. ASSUME IsResourceList(a, N) PROVE a \in ListsOver(N)
  BY <1>2 DEF ListsOver, IsResourceList
<1> QED BY <1>1, <1>2

LEMMA UsageIs ==
  ASSUME NEW a \in Usages
  PROVE  /\ DOMAIN a \subseteq AllTracked /\ a = [n \in DOMAIN a |-> a[n]]
         /\ \A n \in DOMAIN a : a[n] \in Int
         /\ \A n : At(a, n) \in Int
<1>1. IsResourceList(a, AllTracked)
  BY ListsAre DEF Usages
<1>2. /\ DOMAIN a \subseteq AllTracked /\ a = [n \in DOMAIN a |-> a[n]]
      /\ \A n \in DOMAIN a : a[n] \in Int
  BY <1>1 DEF IsResourceList
<1> QED BY <1>2 DEF At

LEMMA LimitIs ==
  ASSUME NEW a \in Limits
  PROVE  \A n \in DOMAIN a : a[n] \in Int
<1>1. IsResourceList(a, STRING)
  BY ListsAre DEF Limits
<1> QED BY <1>1 DEF IsResourceList

LEMMA UsageMade ==
  ASSUME NEW S \in SUBSET AllTracked, NEW a, a = [n \in S |-> a[n]],
         \A n \in S : a[n] \in Int
  PROVE  a \in Usages
<1>1. DOMAIN a = S /\ a \in [S -> Int]
  OBVIOUS
<1> QED BY <1>1, ListsAre DEF Usages, IsResourceList

\* Quantity by quantity, with a missing one as zero.
IsSumOf(c, a, b) ==
  /\ c \in Usages /\ DOMAIN c = DOMAIN a \cup DOMAIN b
  /\ \A n : At(c, n) = At(a, n) + At(b, n)
  /\ \A n \in DOMAIN c : c[n] = At(a, n) + At(b, n)
IsDifference(c, a, b) ==
  /\ c \in Usages
  /\ \A n : At(c, n) = At(a, n) - At(b, n)

LEMMA Sums ==
  ASSUME NEW a \in Usages, NEW b \in Usages
  PROVE  IsSumOf(Add(a, b), a, b) /\ IsDifference(Subtract(a, b), a, b)
<1> DEFINE S == DOMAIN a \cup DOMAIN b
           p == [n \in S |-> At(a, n) + At(b, n)]
           m == [n \in S |-> At(a, n) - At(b, n)]
<1>1. S \in SUBSET AllTracked /\ \A n : At(a, n) \in Int /\ At(b, n) \in Int
  BY UsageIs
<1>2. \A n : n \notin S => At(a, n) = 0 /\ At(b, n) = 0
  BY DEF At
<1>3. Add(a, b) = p /\ Subtract(a, b) = m
  BY DEF Add, Subtract
<1>4. /\ DOMAIN p = S /\ p = [n \in S |-> p[n]]
      /\ \A n \in S : p[n] = At(a, n) + At(b, n) /\ p[n] \in Int
  BY <1>1
<1>5. /\ DOMAIN m = S /\ m = [n \in S |-> m[n]]
      /\ \A n \in S : m[n] = At(a, n) - At(b, n) /\ m[n] \in Int
  BY <1>1
<1> HIDE DEF S, p, m
<1>6. p \in Usages /\ m \in Usages
  BY <1>1, <1>4, <1>5, UsageMade
<1>7. \A n : At(p, n) = At(a, n) + At(b, n) /\ At(m, n) = At(a, n) - At(b, n)
  <2> TAKE n
  <2>1. CASE n \in S
    <3>1. At(p, n) = p[n] /\ At(m, n) = m[n]
      BY <1>4, <1>5, <2>1 DEF At
    <3> QED BY <1>4, <1>5, <2>1, <3>1
  <2>2. CASE n \notin S
    <3>1. At(p, n) = 0 /\ At(m, n) = 0
      BY <1>4, <1>5, <2>2 DEF At
    <3> QED BY <1>2, <2>2, <3>1
  <2> QED BY <2>1, <2>2
<1> QED BY <1>3, <1>4, <1>6, <1>7 DEF S, IsSumOf, IsDifference

\* Equal lists are one.
LEMMA EqualLists ==
  ASSUME NEW a \in Usages, NEW b \in Usages, Equals(a, b)
  PROVE  a = b
<1>1. a = [n \in DOMAIN a |-> a[n]] /\ b = [n \in DOMAIN b |-> b[n]]
  BY UsageIs
<1>2. DOMAIN a = DOMAIN b /\ \A n \in DOMAIN a : a[n] = b[n]
  BY DEF Equals
<1> QED BY <1>1, <1>2

\* What a request adds.
LEMMA Deltas ==
  ASSUME NEW r \in Requests
  PROVE  IsResourceList(DeltaUsage(Attr[r]), AllTracked)
<1>1. PICK a : a = Attr[r].usage
  OBVIOUS
<1>2. PICK b : b = Attr[r].old
  OBVIOUS
<1>3. IsResourceList(a, AllTracked) /\ IsResourceList(b, AllTracked)
  BY <1>1, <1>2, StatusAssumption
<1>4. PICK c : c = SubtractWithNonNegativeResult(a, b)
  OBVIOUS
<1>5. IsResourceList(c, AllTracked)
  <2>1. DOMAIN c = DOMAIN a \cup DOMAIN b
    BY <1>4 DEF SubtractWithNonNegativeResult
  <2>2. \A n : At(b, n) \in Int
    BY <1>3 DEF IsResourceList, At
  <2>3. c \in [DOMAIN a \cup DOMAIN b -> Int]
    BY <1>3, <1>4, <2>2 DEF SubtractWithNonNegativeResult, IsResourceList
  <2> QED BY <1>3, <2>1, <2>3 DEF IsResourceList
<1> QED BY <1>1, <1>2, <1>3, <1>4, <1>5 DEF DeltaUsage

LEMMA Gains ==
  ASSUME NEW hard, NEW r \in Requests
  PROVE  Gain(hard, r) \in Usages /\ DOMAIN Gain(hard, r) \subseteq DOMAIN hard
<1> DEFINE u == DeltaUsage(Attr[r])  S == DOMAIN u \cap DOMAIN hard
<1>1. IsResourceList(u, AllTracked)
  BY Deltas
<1> HIDE DEF u
<1>2. DOMAIN u \subseteq AllTracked /\ \A n \in DOMAIN u : u[n] \in Int
  BY <1>1 DEF IsResourceList
<1>3. Gain(hard, r) = [n \in S |-> u[n]]
  BY DEF Gain, Mask, u
<1>4. S \in SUBSET AllTracked /\ \A n \in S : u[n] \in Int
  BY <1>2
<1> QED BY <1>3, <1>4, UsageMade

\* A total over a finite set.
LEMMA TotalOf ==
  ASSUME NEW S, IsFiniteSet(S), NEW f, DOMAIN f = S, \A x \in S : f[x] \in Usages,
         NEW n
  PROVE  /\ Total(f, n) \in Int /\ (S = {} => Total(f, n) = 0)
         /\ (\A x \in S : At(f[x], n) = 0) => Total(f, n) = 0
<1> DEFINE g == [x \in S |-> At(f[x], n)]
<1>1. g \in [S -> Int]
  <2>1. \A x \in S : At(f[x], n) \in Int
    BY UsageIs
  <2> QED BY <2>1
<1>2. Total(f, n) = SumFunction(g)
  BY DEF Total
<1>3. ASSUME \A x \in S : At(f[x], n) = 0 PROVE SumFunction(g) = 0
  <2>1. \A x \in S : g[x] = 0
    BY <1>3
  <2> HIDE DEF g
  <2> QED BY <1>1, <2>1, SumZero
<1> HIDE DEF g
<1> QED BY <1>1, <1>2, <1>3, SumInt

\* A total with one argument taken out, or put in.
LEMMA TotalTakes ==
  ASSUME NEW S, IsFiniteSet(S), NEW f, DOMAIN f = S, \A y \in S : f[y] \in Usages,
         NEW x \in S, NEW e, DOMAIN e = S \ {x}, \A y \in S \ {x} : e[y] = f[y],
         NEW n
  PROVE  Total(f, n) = Total(e, n) + At(f[x], n)
<1> DEFINE g == [y \in S |-> At(f[y], n)]
           k == [y \in S \ {x} |-> At(e[y], n)]
<1>1. g \in [S -> Int]
  <2>1. \A y \in S : At(f[y], n) \in Int
    BY UsageIs
  <2> QED BY <2>1
<1>2. Total(f, n) = SumFunction(g) /\ Total(e, n) = SumFunction(k)
  BY DEF Total
<1>3. k = [y \in S \ {x} |-> g[y]] /\ g[x] = At(f[x], n)
  OBVIOUS
<1> HIDE DEF g, k
<1>4. /\ SumFunction(g) \in Int /\ SumFunction(k) \in Int
      /\ SumFunction(g) = g[x] + SumFunction(k)
  BY <1>1, <1>3, SumRemove
<1>5. g[x] \in Int
  BY <1>1
<1> QED BY <1>2, <1>3, <1>4, <1>5

-----------------------------------------------------------------------------
(* checkQuotas, the loop over the waiters.                                   *)

LEMMA VersionIs ==
  ASSUME NEW h, HistType(h), NEW q \in Quotas, NEW i \in 1..Len(h[q])
  PROVE  /\ h[q] \in Seq(VersionState) /\ h[q][i] \in VersionState
         /\ h[q][i].used \in Usages /\ h[q][i].hard \in Limits
         /\ h[q][i].byNs \in Shares /\ h[q][i].charged \in SUBSET Requests
<1>1. h[q] \in Seq(VersionState)
  BY DEF HistType
<1>2. h[q][i] \in VersionState
  BY <1>1, ElementOfSeq
<1> QED BY <1>1, <1>2 DEF VersionState

\* A document that fits a request, charged with it.
LEMMA ChargedDoc ==
  ASSUME NEW h, HistType(h), NEW d, DocInv(h, d), NEW r \in Requests,
         r \notin d.charging, Fits(d, Attr[r]),
         NEW e \in DocState, e.name = d.name, e.rv = d.rv, e.hard = d.hard,
         e.used = NewUsage(d, Attr[r]), e.charging = d.charging \cup {r}
  PROVE  DocInv(h, e)
<1> DEFINE gain == Gain(d.hard, r)  base == h[d.name][d.rv].used
           C == d.charging  E == C \cup {r}
           f == [x \in E |-> Gain(d.hard, x)]  g == [x \in C |-> Gain(d.hard, x)]
<1>1. /\ d \in DocState /\ d.rv \in 1..Len(h[d.name]) /\ d.hard = h[d.name][d.rv].hard
      /\ ExactUsage(d.used, base, d.hard, C) /\ WithinLimits(d.used, d.hard, C)
  BY DEF DocInv
<1>2. /\ d.name \in Quotas /\ d.used \in Usages /\ d.hard \in Limits
      /\ C \in SUBSET Requests
  BY <1>1 DEF DocState
<1>3. base \in Usages
  BY <1>1, <1>2, VersionIs
<1>4. gain \in Usages /\ DOMAIN gain \subseteq DOMAIN d.hard
  BY Gains
<1>5. e.used = Add(d.used, gain)
  BY DEF NewUsage, Gain
<1>a. IsSumOf(e.used, d.used, gain)
  BY <1>2, <1>4, <1>5, Sums
<1>6. IsFiniteSet(E) /\ E \in SUBSET Requests
  BY <1>2, StatusAssumption, FS_Subset
<1>7. /\ \A x \in E : f[x] \in Usages /\ DOMAIN f = E /\ DOMAIN g = E \ {r}
      /\ \A x \in E \ {r} : g[x] = f[x]
      /\ f[r] = gain /\ r \in E
  BY <1>6, Gains
<1>8. ExactUsage(e.used, base, e.hard, E)
  <2> SUFFICES ASSUME NEW n \in AllTracked
               PROVE  At(e.used, n) = At(base, n) + Total(f, n)
    BY DEF ExactUsage
  <2>1. At(d.used, n) = At(base, n) + Total(g, n)
    BY <1>1 DEF ExactUsage
  <2> HIDE DEF f, g, gain, base, C, E
  <2>2. Total(f, n) = Total(g, n) + At(gain, n)
    BY <1>6, <1>7, TotalTakes
  <2>3. At(e.used, n) = At(d.used, n) + At(gain, n)
    BY <1>a DEF IsSumOf
  <2>4. At(base, n) \in Int /\ At(gain, n) \in Int
    BY <1>3, <1>4, UsageIs
  <2>5. Total(g, n) \in Int
    <3>1. IsFiniteSet(E \ {r}) /\ \A x \in E \ {r} : g[x] \in Usages
      BY <1>6, <1>7, FS_Subset
    <3> QED BY <1>7, <3>1, TotalOf
  <2> QED BY <2>1, <2>2, <2>3, <2>4, <2>5
<1>9. WithinLimits(e.used, e.hard, E)
  <2> SUFFICES ASSUME NEW x \in E, NEW n \in DOMAIN Gain(d.hard, x)
               PROVE  n \in DOMAIN e.used /\ e.used[n] <= d.hard[n]
    BY DEF WithinLimits
  <2>1. n \in DOMAIN d.hard /\ d.hard[n] \in Int
    BY <1>2, <1>6, Gains, LimitIs
  <2>2. /\ DOMAIN e.used = DOMAIN d.used \cup DOMAIN gain
        /\ \A m \in DOMAIN e.used : e.used[m] = At(d.used, m) + At(gain, m)
    BY <1>a DEF IsSumOf
  <2>3. e.used \in Usages
    BY <1>a DEF IsSumOf
  <2>4. CASE n \in DOMAIN gain
    <3>1. n \in DOMAIN e.used /\ e.used[n] \in Int
      BY <2>2, <2>3, <2>4, UsageIs
    <3>2. gain = Mask(DeltaUsage(Attr[r]), DOMAIN d.hard)
      BY DEF Gain
    <3>3. LessThanOrEqual(Mask(e.used, DOMAIN gain), d.hard)
      BY <3>2 DEF Fits
    <3> HIDE DEF gain
    <3>4. n \in DOMAIN Mask(e.used, DOMAIN gain) /\ Mask(e.used, DOMAIN gain)[n] = e.used[n]
      BY <2>4, <3>1 DEF Mask
    <3>5. ~(e.used[n] > d.hard[n])
      BY <2>1, <3>3, <3>4 DEF LessThanOrEqual, Exceeded
    <3> QED BY <2>1, <3>1, <3>5
  <2>5. CASE n \notin DOMAIN gain
    <3>1. x \in C
      BY <2>5
    <3>2. n \in DOMAIN d.used /\ d.used[n] <= d.hard[n]
      BY <1>1, <3>1 DEF WithinLimits
    <3> HIDE DEF gain, C, E
    <3>3. At(d.used, n) = d.used[n] /\ At(gain, n) = 0 /\ d.used[n] \in Int
      BY <1>2, <2>5, <3>2, UsageIs DEF At
    <3>4. n \in DOMAIN e.used /\ e.used[n] = d.used[n] + 0
      BY <2>2, <3>2, <3>3
    <3> QED BY <3>2, <3>3, <3>4
  <2> QED BY <2>4, <2>5
<1> QED BY <1>1, <1>8, <1>9 DEF DocInv

\* A document with the same usage, limits and charges.
LEMMA SameDoc ==
  ASSUME NEW h, NEW d, DocInv(h, d), NEW e \in DocState, e.name = d.name,
         e.rv = d.rv, e.hard = d.hard, e.used = d.used, e.charging = d.charging
  PROVE  DocInv(h, e)
BY DEF DocInv

Charging(ds) == \E n \in 1..Len(ds) : ds[n].charging # {}

\* After waiters 1..i of batch b: st, from the documents ds and the results res.
LoopInv(h, ds, res, b, i, st) ==
  /\ st = [docs |-> st.docs, result |-> st.result]
  /\ st.result \in [Requests -> Results]
  /\ \A r \in Requests : res[r] # DefaultDeny => st.result[r] # DefaultDeny
  /\ st.docs \in Seq(DocState) /\ Len(st.docs) = Len(ds)
  /\ \A n \in 1..Len(ds) : /\ DocInv(h, st.docs[n]) /\ st.docs[n].name = ds[n].name
                           /\ st.docs[n].charging \subseteq {b[j] : j \in 1..i}
  /\ \A j \in 1..i : st.result[b[j]] # DefaultDeny \/ Charging(st.docs)

\* What one iteration does to a document.
CheckedDoc(ds, r, n) ==
  LET e == CheckRequest(ds, Attr[r])[n] IN
  IF ~Equals(ds[n].used, e.used) THEN [e EXCEPT !.charging = @ \cup {r}] ELSE e

CheckedWell(h, ds, r, n) ==
  LET e == CheckedDoc(ds, r, n) IN
  /\ e \in DocState /\ DocInv(h, e) /\ e.name = ds[n].name
  /\ e.charging = IF Equals(ds[n].used, CheckRequest(ds, Attr[r])[n].used)
                  THEN ds[n].charging ELSE ds[n].charging \cup {r}

LEMMA DocChecked ==
  ASSUME NEW h, HistType(h), NEW ds \in Seq(DocState), NEW n \in 1..Len(ds),
         DocInv(h, ds[n]), NEW r \in Requests, r \notin ds[n].charging,
         ~Refuses(ds, Attr[r])
  PROVE  CheckedWell(h, ds, r, n)
<1>1. PICK d \in DocState : d = ds[n]
  BY ElementOfSeq
<1>2. PICK a : a = Attr[r]
  OBVIOUS
<1>3. PICK u : u = NewUsage(d, a)
  OBVIOUS
<1>4. u \in Usages
  <2>1. d.used \in Usages /\ Gain(d.hard, r) \in Usages
    BY Gains DEF DocState
  <2>2. u = Add(d.used, Gain(d.hard, r))
    BY <1>2, <1>3 DEF NewUsage, Gain
  <2> QED BY <2>1, <2>2, Sums DEF IsSumOf
<1>5. n \in DOMAIN ds
  OBVIOUS
<1>6. PICK e : e = CheckRequest(ds, a)[n]
  OBVIOUS
<1>7. PICK c : c = (Handles(a) /\ ~IsZero(DeltaUsage(a)) /\ Matches(d, a))
  OBVIOUS
<1>8. e = IF c THEN [d EXCEPT !.used = u] ELSE d
  BY <1>1, <1>3, <1>5, <1>6, <1>7 DEF CheckRequest
<1>9. /\ e \in DocState /\ e.name = d.name /\ e.rv = d.rv /\ e.hard = d.hard
      /\ e.charging = d.charging /\ e.used = IF c THEN u ELSE d.used
  BY <1>4, <1>8 DEF DocState
<1>10. PICK k : k = CheckedDoc(ds, r, n)
  OBVIOUS
<1>11. k = IF ~Equals(d.used, e.used) THEN [e EXCEPT !.charging = @ \cup {r}] ELSE e
  BY <1>1, <1>2, <1>6, <1>10 DEF CheckedDoc
<1>12. DocInv(h, d) /\ r \notin d.charging /\ d.used \in Usages
  BY <1>1 DEF DocState
<1>13. CASE Equals(d.used, e.used)
  <2>1. e.used = d.used
    <3>1. e.used \in Usages
      BY <1>4, <1>9, <1>12
    <3>2. d.used = e.used
      BY <1>12, <1>13, <3>1, EqualLists
    <3> QED BY <3>2
  <2>2. k = e
    BY <1>11, <1>13
  <2>3. DocInv(h, e)
    BY <1>9, <1>12, <2>1, SameDoc
  <2> QED BY <1>1, <1>2, <1>6, <1>9, <1>10, <1>13, <2>2, <2>3 DEF CheckedWell
<1>14. CASE ~Equals(d.used, e.used)
  <2>1. c
    <3> SUFFICES ASSUME ~c PROVE FALSE
      OBVIOUS
    <3>1. e.used = d.used
      BY <1>9
    <3> QED BY <1>14, <3>1 DEF Equals
  <2>2. k = [e EXCEPT !.charging = @ \cup {r}]
    BY <1>11, <1>14
  <2>3. /\ k \in DocState /\ k.name = d.name /\ k.rv = d.rv /\ k.hard = d.hard
        /\ k.used = u /\ k.charging = d.charging \cup {r}
    BY <1>9, <2>1, <2>2 DEF DocState
  <2>4. Fits(d, a)
    <3>1. d \in ToSet(ds)
      BY <1>1, MembersOf
    <3>2. Handles(a) /\ ~IsZero(DeltaUsage(a)) /\ Matches(d, a)
      BY <1>7, <2>1
    <3> QED BY <1>2, <3>1, <3>2 DEF Refuses
  <2>5. DocInv(h, k)
    BY <1>2, <1>3, <1>12, <2>3, <2>4, ChargedDoc
  <2> QED BY <1>1, <1>2, <1>6, <1>10, <1>14, <2>3, <2>5 DEF CheckedWell
<1> QED BY <1>13, <1>14

\* One iteration, for the waiter at position i.
LEMMA WaiterChecked ==
  ASSUME NEW h, HistType(h), NEW ds \in Seq(DocState), NEW res, NEW b \in Seq(Requests),
         IsInjective(b), NEW i \in 1..Len(b), NEW st,
         LoopInv(h, ds, res, b, i - 1, st)
  PROVE  LoopInv(h, ds, res, b, i, CheckWaiter(st, b[i], Attr[b[i]]))
<1>1. PICK D, R : st = [docs |-> D, result |-> R]
  BY DEF LoopInv
<1>2. PICK r \in Requests : r = b[i]
  BY ElementOfSeq
<1>3. PICK x : x = CheckWaiter(st, r, Attr[r])
  OBVIOUS
<1>4. /\ R \in [Requests -> Results] /\ D \in Seq(DocState) /\ Len(D) = Len(ds)
      /\ \A y \in Requests : res[y] # DefaultDeny => R[y] # DefaultDeny
      /\ \A n \in 1..Len(ds) : /\ DocInv(h, D[n]) /\ D[n].name = ds[n].name
                               /\ D[n].charging \subseteq {b[j] : j \in 1..(i - 1)}
      /\ \A j \in 1..(i - 1) : R[b[j]] # DefaultDeny \/ Charging(D)
  BY <1>1 DEF LoopInv
<1>5. /\ i \in Nat /\ i \in 1..i /\ \A j \in 1..i : j = i \/ j \in 1..(i - 1)
      /\ \A j \in 1..(i - 1) : j \in 1..i
      /\ \A j \in 1..i : j \in 1..Len(b)
  <2>1. Len(b) \in Nat
    BY LenProperties
  <2> QED BY <2>1
<1>6. \A j \in 1..(i - 1) : b[j] # r
  <2>1. DOMAIN b = 1..Len(b) /\ Len(b) \in Nat
    BY LenProperties
  <2> QED BY <1>2, <2>1 DEF IsInjective
<1>7. \A j \in 1..i : b[j] \in Requests
  BY <1>5, ElementOfSeq
<1>8. {b[j] : j \in 1..(i - 1)} \cup {r} \subseteq {b[j] : j \in 1..i}
  BY <1>2, <1>5
\* The result of waiter r is set to v and the documents stay.
<1>9. ASSUME NEW v \in Results, v # DefaultDeny,
             x = [docs |-> D, result |-> [R EXCEPT ![r] = v]]
      PROVE  LoopInv(h, ds, res, b, i, x)
  <2>1. PICK Q : Q = [R EXCEPT ![r] = v]
    OBVIOUS
  <2>2. /\ Q \in [Requests -> Results] /\ Q[r] = v
        /\ \A y \in Requests : y # r => Q[y] = R[y]
    BY <1>4, <2>1
  <2>3. x = [docs |-> x.docs, result |-> x.result] /\ x.docs = D /\ x.result = Q
    BY <1>9, <2>1
  <2>4. \A y \in Requests : res[y] # DefaultDeny => Q[y] # DefaultDeny
    BY <1>4, <1>9, <2>2
  <2>5. \A n \in 1..Len(ds) : D[n].charging \subseteq {b[j] : j \in 1..i}
    BY <1>4, <1>8
  <2>6. \A j \in 1..i : Q[b[j]] # DefaultDeny \/ Charging(D)
    BY <1>2, <1>4, <1>5, <1>7, <1>9, <2>2
  <2> QED BY <1>4, <2>2, <2>3, <2>4, <2>5, <2>6 DEF LoopInv
<1>10. CASE Refuses(D, Attr[r])
  <2>1. x = [st EXCEPT !.result = [@ EXCEPT ![r] = "denied"]]
    BY <1>1, <1>3, <1>10 DEF CheckWaiter
  <2>2. x = [docs |-> D, result |-> [R EXCEPT ![r] = "denied"]]
    BY <1>1, <2>1
  <2>3. "denied" \in Results /\ "denied" # DefaultDeny
    BY DEF Results, DefaultDeny
  <2> QED BY <1>2, <1>3, <1>9, <2>2, <2>3
<1>11. CASE ~Refuses(D, Attr[r]) /\ Attr[r].dryRun
  <2>1. x = [st EXCEPT !.result = [@ EXCEPT ![r] = "nil"]]
    BY <1>1, <1>3, <1>11 DEF CheckWaiter
  <2>2. x = [docs |-> D, result |-> [R EXCEPT ![r] = "nil"]]
    BY <1>1, <2>1
  <2>3. "nil" \in Results /\ "nil" # DefaultDeny
    BY DEF Results, DefaultDeny
  <2> QED BY <1>2, <1>3, <1>9, <2>2, <2>3
<1>12. CASE ~Refuses(D, Attr[r]) /\ ~Attr[r].dryRun
  <2> DEFINE new == CheckRequest(D, Attr[r])
             changed == {n \in DOMAIN new : ~Equals(D[n].used, new[n].used)}
             E == [n \in DOMAIN new |-> IF n \in changed
                                        THEN [new[n] EXCEPT !.charging = @ \cup {r}]
                                        ELSE new[n]]
             Q == IF changed = {} THEN [R EXCEPT ![r] = "nil"] ELSE R
  <2>1. x = [docs |-> E, result |-> Q]
    BY <1>1, <1>3, <1>12 DEF CheckWaiter
  <2>2. DOMAIN new = 1..Len(D) /\ Len(D) \in Nat
    BY <1>4, LenProperties DEF CheckRequest
  <2>3. \A n \in 1..Len(D) : E[n] = CheckedDoc(D, r, n)
    BY <2>2 DEF CheckedDoc
  <2>4. \A n \in 1..Len(D) : r \notin D[n].charging
    BY <1>4, <1>6
  <2>5. \A n \in 1..Len(D) :
          /\ E[n] \in DocState /\ DocInv(h, E[n]) /\ E[n].name = D[n].name
          /\ E[n].charging = IF Equals(D[n].used, new[n].used)
                             THEN D[n].charging ELSE D[n].charging \cup {r}
    <3> TAKE n \in 1..Len(D)
    <3>1. DocInv(h, D[n]) /\ r \notin D[n].charging
      BY <1>4, <2>4
    <3>2. CheckedWell(h, D, r, n)
      BY <1>4, <1>12, <3>1, DocChecked
    <3>3. E[n] = CheckedDoc(D, r, n)
      BY <2>3
    <3> HIDE DEF E
    <3> QED BY <3>2, <3>3 DEF CheckedWell
  <2>6. E = [n \in 1..Len(D) |-> E[n]]
    BY <2>2
  <2>7. changed = {n \in 1..Len(D) : ~Equals(D[n].used, new[n].used)}
    BY <2>2
  <2>8. Q = IF changed = {} THEN [R EXCEPT ![r] = "nil"] ELSE R
    OBVIOUS
  <2> HIDE DEF E, Q, changed, new
  <2>9. E \in Seq(DocState) /\ Len(E) = Len(ds)
    <3>1. \A n \in 1..Len(D) : E[n] \in DocState
      BY <2>5
    <3>2. E \in Seq(DocState) /\ Len(E) = Len(D)
      BY <2>2, <2>6, <3>1
    <3> QED BY <1>4, <3>2
  <2>10. Charging(D) => Charging(E)
    <3> SUFFICES ASSUME NEW n \in 1..Len(D), D[n].charging # {}
                 PROVE  Charging(E)
      BY DEF Charging
    <3>1. E[n].charging # {} /\ n \in 1..Len(E)
      BY <1>4, <2>5, <2>9
    <3> QED BY <3>1 DEF Charging
  <2>11. changed # {} => Charging(E)
    <3> SUFFICES ASSUME NEW n \in changed PROVE Charging(E)
      OBVIOUS
    <3>1. n \in 1..Len(E) /\ E[n].charging # {}
      BY <1>4, <2>5, <2>7, <2>9
    <3> QED BY <3>1 DEF Charging
  <2>12. /\ Q \in [Requests -> Results]
         /\ \A y \in Requests : res[y] # DefaultDeny => Q[y] # DefaultDeny
         /\ \A y \in Requests : R[y] # DefaultDeny => Q[y] # DefaultDeny
         /\ changed = {} => Q[r] # DefaultDeny
    BY <1>4, <2>8 DEF Results, DefaultDeny
  <2>13. \A n \in 1..Len(ds) : /\ DocInv(h, E[n]) /\ E[n].name = ds[n].name
                               /\ E[n].charging \subseteq {b[j] : j \in 1..i}
    <3> TAKE n \in 1..Len(ds)
    <3>1. n \in 1..Len(D) /\ D[n].charging \subseteq {b[j] : j \in 1..(i - 1)}
      BY <1>4
    <3>2. E[n].charging \subseteq D[n].charging \cup {r}
      BY <2>5, <3>1
    <3> QED BY <1>4, <1>8, <2>5, <3>1, <3>2
  <2>14. \A j \in 1..i : Q[b[j]] # DefaultDeny \/ Charging(E)
    BY <1>2, <1>4, <1>5, <1>7, <2>10, <2>11, <2>12
  <2>15. x = [docs |-> x.docs, result |-> x.result] /\ x.docs = E /\ x.result = Q
    BY <2>1
  <2>16. LoopInv(h, ds, res, b, i, x)
    BY <2>9, <2>12, <2>13, <2>14, <2>15 DEF LoopInv
  <2> QED BY <1>2, <1>3, <2>16
<1> QED BY <1>10, <1>11, <1>12

\* g is the function CheckBatch defines by recursion, up to waiter m.
IsRun(ds, res, b, m, g) ==
  g = [i \in 0..m |-> IF i = 0 THEN [docs |-> ds, result |-> res]
                      ELSE CheckWaiter(g[i - 1], b[i], Attr[b[i]])]

LEMMA RunExists ==
  ASSUME NEW ds, NEW res, NEW b, NEW n \in Nat
  PROVE  \E g : IsRun(ds, res, b, n, g)
<1> DEFINE T == {i \in Nat : ~(\E g : IsRun(ds, res, b, i, g))}
           Step(v, i) == CheckWaiter(v, b[i], Attr[b[i]])
           first == [docs |-> ds, result |-> res]
<1> HIDE DEF Step, first
<1>0. \A m \in Nat : \A g : IsRun(ds, res, b, m, g) <=>
        g = [i \in 0..m |-> IF i = 0 THEN first ELSE Step(g[i - 1], i)]
  BY DEF IsRun, Step, first
<1> SUFFICES ASSUME T # {} PROVE FALSE
  OBVIOUS
<1>1. PICK m \in T : \A y \in T : m <= y
  <2> HIDE DEF T
  <2>1. T \subseteq Nat
    BY DEF T
  <2> QED BY <2>1, LeastElement
<1>2. m \in Nat /\ ~(\E g : IsRun(ds, res, b, m, g))
  OBVIOUS
<1>3. CASE m = 0
  <2> DEFINE h == [i \in 0..0 |-> first]
  <2>1. h = [i \in 0..0 |-> IF i = 0 THEN first ELSE Step(h[i - 1], i)]
    OBVIOUS
  <2> HIDE DEF h
  <2> QED BY <1>0, <1>2, <1>3, <2>1
<1>4. CASE m # 0
  <2>1. m - 1 \in Nat /\ m - 1 \notin T
    BY <1>1, <1>2, <1>4
  <2>2. PICK g : g = [i \in 0..(m - 1) |-> IF i = 0 THEN first ELSE Step(g[i - 1], i)]
    BY <1>0, <2>1
  <2> DEFINE h == [i \in 0..m |-> IF i = 0 THEN first ELSE Step(g[i - 1], i)]
  <2>3. \A i \in 0..(m - 1) : h[i] = g[i]
    <3> TAKE i \in 0..(m - 1)
    <3>1. i \in 0..m
      BY <1>2
    <3>2. g[i] = IF i = 0 THEN first ELSE Step(g[i - 1], i)
      BY <2>2
    <3> QED BY <3>1, <3>2
  <2>4. \A i \in 0..m : h[i] = IF i = 0 THEN first ELSE Step(h[i - 1], i)
    <3> TAKE i \in 0..m
    <3>1. h[i] = IF i = 0 THEN first ELSE Step(g[i - 1], i)
      OBVIOUS
    <3>2. i # 0 => i - 1 \in 0..(m - 1)
      BY <1>2
    <3> HIDE DEF h
    <3> QED BY <2>3, <3>1, <3>2
  <2>5. h = [i \in 0..m |-> h[i]]
    OBVIOUS
  <2> HIDE DEF h
  <2>6. h = [i \in 0..m |-> IF i = 0 THEN first ELSE Step(h[i - 1], i)]
    BY <2>4, <2>5
  <2> QED BY <1>0, <1>2, <2>6
<1> QED BY <1>3, <1>4

\* The whole loop.
LEMMA BatchChecked ==
  ASSUME NEW h, HistType(h), NEW ds \in Seq(DocState),
         \A n \in 1..Len(ds) : DocInv(h, ds[n]) /\ ds[n].charging = {},
         NEW res \in [Requests -> Results], NEW b \in Seq(Requests), IsInjective(b)
  PROVE  LoopInv(h, ds, res, b, Len(b), CheckBatch(ds, b, res, Attr))
<1>1. Len(b) \in Nat
  BY LenProperties
<1> DEFINE g == CHOOSE f : IsRun(ds, res, b, Len(b), f)
<1>2. IsRun(ds, res, b, Len(b), g)
  BY <1>1, RunExists
<1>3. CheckBatch(ds, b, res, Attr) = g[Len(b)]
  BY DEF CheckBatch, IsRun
<1> HIDE DEF g
<1>4. /\ g[0] = [docs |-> ds, result |-> res]
      /\ \A i \in 1..Len(b) : g[i] = CheckWaiter(g[i - 1], b[i], Attr[b[i]])
  <2>1. 0 \in 0..Len(b) /\ \A i \in 1..Len(b) : i \in 0..Len(b) /\ i # 0
    BY <1>1
  <2> QED BY <1>2, <2>1 DEF IsRun
<1>5. LoopInv(h, ds, res, b, 0, g[0])
  <2>1. PICK st : st = g[0]
    OBVIOUS
  <2>2. st = [docs |-> st.docs, result |-> st.result] /\ st.docs = ds /\ st.result = res
    BY <1>4, <2>1
  <2>3. \A j \in 1..0 : FALSE
    OBVIOUS
  <2>4. LoopInv(h, ds, res, b, 0, st)
    BY <2>2, <2>3 DEF LoopInv
  <2> QED BY <2>1, <2>4
<1> DEFINE T == {i \in 0..Len(b) : ~LoopInv(h, ds, res, b, i, g[i])}
<1> SUFFICES ASSUME T # {} PROVE FALSE
  <2>1. Len(b) \in 0..Len(b)
    BY <1>1
  <2> QED BY <1>3, <2>1
<1>6. PICK m \in T : \A y \in T : m <= y
  <2> HIDE DEF T
  <2>1. T \subseteq Nat
    BY <1>1 DEF T
  <2> QED BY <2>1, LeastElement
<1>7. m \in 0..Len(b) /\ ~LoopInv(h, ds, res, b, m, g[m])
  OBVIOUS
<1>8. m # 0
  BY <1>5, <1>7
<1>9. m - 1 \in 0..Len(b) /\ m \in 1..Len(b) /\ ~(m <= m - 1)
  BY <1>1, <1>7, <1>8
<1>10. LoopInv(h, ds, res, b, m - 1, g[m - 1])
  BY <1>6, <1>9
<1> HIDE DEF T
<1>11. LoopInv(h, ds, res, b, m, CheckWaiter(g[m - 1], b[m], Attr[b[m]]))
  BY <1>9, <1>10, WaiterChecked
<1> QED BY <1>4, <1>7, <1>9, <1>11

-----------------------------------------------------------------------------
(* What the steps have in common.                                            *)

\* A worker goes from w[k] to y: the documents, the callers and the other
\* workers stay.
LEMMA WorkerMoves ==
  ASSUME IndInv, NEW k \in Workers, NEW y, w' = [w EXCEPT ![k] = y],
         WorkerInv(hist, y), y.batch = w[k].batch,
         UNCHANGED <<hist, caller, members>>, StoreInv',
         result' \in [Requests -> Results],
         \A r \in Requests : result[r] # DefaultDeny => result'[r] # DefaultDeny,
         y.pc = "answer" => \A r \in ToSet(y.batch) : result'[r] # DefaultDeny
  PROVE  IndInv'
<1>1. /\ w \in [Workers -> WorkerState] /\ \A l \in Workers : WorkerInv(hist, w[l])
      /\ HistInv(hist) /\ y \in WorkerState
  BY DEF IndInv, WorkersInv, WorkerInv
<1>2. /\ w' \in [Workers -> WorkerState] /\ w'[k] = y
      /\ \A l \in Workers : l # k => w'[l] = w[l]
  BY <1>1
<1>3. \A l \in Workers : w'[l].batch = w[l].batch
  BY <1>2
<1>4. \A l \in Workers : Batch(l)' = Batch(l)
  BY <1>3 DEF Batch
<1>5. WorkersInv'
  BY <1>1, <1>2 DEF WorkersInv
<1>6. CallersInv'
  BY <1>4 DEF IndInv, CallersInv
<1>7. Decided'
  <2> SUFFICES ASSUME NEW l \in Workers, w'[l].pc = "answer", NEW r \in Batch(l)
               PROVE  result'[r] # DefaultDeny
    BY <1>4 DEF Decided
  <2>1. CASE l = k
    BY <1>2, <2>1 DEF Batch
  <2>2. CASE l # k
    <3>1. result[r] # DefaultDeny
      BY <1>2, <2>2 DEF IndInv, Decided
    <3>2. r \in Requests
      <4>1. w[l].batch \in Seq(Requests)
        BY <1>1 DEF WorkerState
      <4> QED BY <4>1, MembersOf DEF Batch
    <3> QED BY <3>1, <3>2
  <2> QED BY <2>1, <2>2
<1> QED BY <1>1, <1>5, <1>6, <1>7 DEF IndInv

\* What the invariant says about one worker.
LEMMA WorkerIs ==
  ASSUME IndInv, NEW k \in Workers
  PROVE  /\ w \in [Workers -> WorkerState] /\ w[k] \in WorkerState
         /\ WorkerInv(hist, w[k]) /\ HistInv(hist) /\ HistType(hist)
         /\ result \in [Requests -> Results]
         /\ Batch(k) \in SUBSET Requests
         /\ w[k].pc = "answer" => \A r \in Batch(k) : result[r] # DefaultDeny
<1>1. /\ w \in [Workers -> WorkerState] /\ w[k] \in WorkerState
      /\ WorkerInv(hist, w[k]) /\ HistInv(hist) /\ HistType(hist)
      /\ result \in [Requests -> Results]
  BY DEF IndInv, WorkersInv, CallersInv, HistInv
<1>2. w[k].batch \in Seq(Requests)
  BY <1>1 DEF WorkerState
<1>3. Batch(k) \in SUBSET Requests
  BY <1>2, MembersOf DEF Batch
<1> QED BY <1>1, <1>3 DEF IndInv, Decided

\* A worker that has its answer.
LEMMA ToAnswer ==
  ASSUME NEW h, NEW x, WorkerInv(h, x), x.pc # "idle",
         NEW y, y = [x EXCEPT !.pc = "answer"]
  PROVE  WorkerInv(h, y) /\ y.batch = x.batch /\ y.pc = "answer"
<1>1. x \in WorkerState
  BY DEF WorkerInv
<1>2. /\ y \in WorkerState /\ y.pc = "answer" /\ y.batch = x.batch /\ y.ns = x.ns
      /\ y.locks = x.locks /\ y.failed = x.failed /\ y.todo = x.todo
      /\ y.docs = x.docs /\ y.writes = x.writes /\ y.q = x.q /\ y.got = x.got
  BY <1>1 DEF WorkerState, Pcs
<1>3. PlaceInv(h, y)
  BY <1>2 DEF WorkerInv, PlaceInv, Reading
<1>4. DocsInv(h, y) /\ WritesInv(h, y)
  BY <1>2 DEF WorkerInv, DocsInv, WritesInv, Reading
<1>5. Open(y) = {}
  BY <1>2 DEF Open
<1> QED BY <1>2, <1>3, <1>4, <1>5 DEF WorkerInv

\* The results when everybody, or everybody with the default deny, gets res.
LEMMA Settled ==
  ASSUME IndInv, NEW k \in Workers, NEW res \in Results, res # DefaultDeny,
         \/ Settle(k, res)
         \/ result' = [r \in Requests |-> IF r \in Batch(k) THEN res ELSE result[r]]
  PROVE  /\ result' \in [Requests -> Results]
         /\ \A r \in Requests : result[r] # DefaultDeny => result'[r] # DefaultDeny
         /\ \A r \in Batch(k) : result'[r] # DefaultDeny
<1>1. result \in [Requests -> Results] /\ Batch(k) \in SUBSET Requests
  BY WorkerIs
<1> QED BY <1>1 DEF Settle

LEMMA SameResults ==
  ASSUME IndInv, UNCHANGED result
  PROVE  /\ result' \in [Requests -> Results]
         /\ \A r \in Requests : result[r] # DefaultDeny => result'[r] # DefaultDeny
BY DEF IndInv, CallersInv

LEMMA SameStore ==
  ASSUME IndInv, UNCHANGED storeVars
  PROVE  StoreInv' /\ UNCHANGED <<hist, members>>
BY DEF IndInv, StoreInv, storeVars

LEMMA Marks == /\ "failed" \in Results /\ "failed" # DefaultDeny
               /\ "nil" \in Results /\ "nil" # DefaultDeny
BY DEF Results, DefaultDeny

LEMMA GetQuotasFailsStep ==
  ASSUME IndInv, NEW k \in Workers, w[k].pc # "idle", GetQuotasFails(k),
         UNCHANGED <<storeVars, caller>>
  PROVE  IndInv'
<1>1. /\ w \in [Workers -> WorkerState] /\ w[k] \in WorkerState /\ WorkerInv(hist, w[k])
  BY WorkerIs
<1>2. PICK y : y = [w[k] EXCEPT !.pc = "answer"]
  OBVIOUS
<1>3. w' = [w EXCEPT ![k] = y]
  BY <1>1, <1>2 DEF GetQuotasFails
<1>4. WorkerInv(hist, y) /\ y.batch = w[k].batch /\ y.pc = "answer"
  BY <1>1, <1>2, ToAnswer
<1>5. /\ result' \in [Requests -> Results]
      /\ \A r \in Requests : result[r] # DefaultDeny => result'[r] # DefaultDeny
      /\ \A r \in Batch(k) : result'[r] # DefaultDeny
  BY Marks, Settled DEF GetQuotasFails
<1> QED BY <1>3, <1>4, <1>5, SameStore, WorkerMoves DEF Batch

-----------------------------------------------------------------------------
(* GetQuotas.                                                                *)

LEMMA NoNames == Names(<<>>) = {} /\ Distinct(<<>>)
BY DEF Names, Distinct

LEMMA ListNamesStep ==
  ASSUME IndInv, NEW k \in Workers, ListNames(k)
  PROVE  IndInv'
<1>0. CASE GetQuotasFails(k)
  BY <1>0, GetQuotasFailsStep DEF ListNames
<1> SUFFICES ASSUME ~GetQuotasFails(k) PROVE IndInv'
  BY <1>0
<1>1. PICK x \in WorkerState : x = w[k]
  BY WorkerIs
<1>2. PICK N : N = ResourceQuotaNamesFor(x.ns)
  OBVIOUS
<1>3. N \in SUBSET Quotas /\ N \cap Native = {}
  BY <1>2 DEF ResourceQuotaNamesFor
<1>4. PICK y : y = [x EXCEPT !.pc = "fetch", !.docs = <<>>, !.todo = N]
  OBVIOUS
<1>5. x.pc = "list" /\ w' = [w EXCEPT ![k] = y] /\ UNCHANGED <<storeVars, caller, result>>
  BY <1>1, <1>2, <1>4, WorkerIs DEF ListNames
<1>6. /\ y \in WorkerState /\ y.pc = "fetch" /\ y.batch = x.batch /\ y.ns = x.ns
      /\ y.locks = x.locks /\ y.failed = x.failed /\ y.todo = N
      /\ y.docs = <<>> /\ y.writes = x.writes
  <2>1. PICK e : e = <<>> /\ e \in Seq(DocState)
    BY EmptySeq
  <2>2. y = [x EXCEPT !.pc = "fetch", !.docs = e, !.todo = N]
    BY <1>4, <2>1
  <2>3. /\ y \in WorkerState /\ y.pc = "fetch" /\ y.batch = x.batch /\ y.ns = x.ns
        /\ y.locks = x.locks /\ y.failed = x.failed /\ y.todo = N
        /\ y.docs = e /\ y.writes = x.writes
    BY <1>3, <2>1, <2>2 DEF WorkerState, Pcs
  <2> QED BY <2>1, <2>3
<1>7. WorkerInv(hist, x)
  BY <1>1, WorkerIs
<1>8. PlaceInv(hist, y)
  BY <1>3, <1>5, <1>6, <1>7, NoNames DEF WorkerInv, PlaceInv, Reading
<1>9. DocsInv(hist, y) /\ WritesInv(hist, y)
  BY <1>5, <1>6, <1>7, NoNames DEF WorkerInv, DocsInv, WritesInv
<1>10. Open(y) = Open(x)
  BY <1>5, <1>6 DEF Open
<1>11. WorkerInv(hist, y)
  BY <1>6, <1>7, <1>8, <1>9, <1>10 DEF WorkerInv
<1> QED BY <1>1, <1>5, <1>6, <1>11, SameStore, SameResults, WorkerMoves

LEMMA FetchStep ==
  ASSUME IndInv, NEW k \in Workers, Fetch(k)
  PROVE  IndInv'
<1>0. CASE GetQuotasFails(k)
  BY <1>0, GetQuotasFailsStep DEF Fetch
<1> SUFFICES ASSUME ~GetQuotasFails(k) PROVE IndInv'
  BY <1>0
<1>1. PICK x \in WorkerState : x = w[k]
  BY WorkerIs
<1>2. PICK q \in x.todo : /\ w' = [w EXCEPT ![k].pc = "cache", ![k].q = q,
                                            ![k].got = cache[q]]
                          /\ UNCHANGED result
  BY <1>1 DEF Fetch
<1>3. q \in Quotas /\ cache[q] \in 1..Len(hist[q]) /\ cache[q] \in Nat
  BY <1>1 DEF WorkerState, IndInv, StoreInv
<1>4. PICK y : y = [x EXCEPT !.pc = "cache", !.q = q, !.got = cache[q]]
  OBVIOUS
<1>5. x.pc = "fetch" /\ w' = [w EXCEPT ![k] = y] /\ UNCHANGED <<storeVars, caller, result>>
  BY <1>1, <1>2, <1>4, WorkerIs DEF Fetch
<1>6. /\ y \in WorkerState /\ y.pc = "cache" /\ y.batch = x.batch /\ y.ns = x.ns
      /\ y.locks = x.locks /\ y.failed = x.failed /\ y.todo = x.todo
      /\ y.docs = x.docs /\ y.writes = x.writes /\ y.q = q /\ y.got = cache[q]
  BY <1>3, <1>4 DEF WorkerState, Pcs
<1>7. WorkerInv(hist, x)
  BY <1>1, WorkerIs
<1>8. PlaceInv(hist, y)
  BY <1>2, <1>3, <1>5, <1>6, <1>7 DEF WorkerInv, PlaceInv, Reading
<1>9. DocsInv(hist, y) /\ WritesInv(hist, y)
  BY <1>5, <1>6, <1>7 DEF WorkerInv, DocsInv, WritesInv, Reading
<1>10. Open(y) = Open(x)
  BY <1>5, <1>6 DEF Open
<1>11. WorkerInv(hist, y)
  BY <1>6, <1>7, <1>8, <1>9, <1>10 DEF WorkerInv
<1> QED BY <1>1, <1>5, <1>6, <1>11, SameStore, SameResults, WorkerMoves

\* A document as it is read.
LEMMA ReadDoc ==
  ASSUME HistType(hist), NEW q \in Quotas, NEW i \in 1..Len(hist[q])
  PROVE  /\ Doc(q, i) \in DocState /\ DocInv(hist, Doc(q, i))
         /\ Doc(q, i).name = q /\ Doc(q, i).charging = {}
<1>1. PICK v \in VersionState : v = hist[q][i]
  BY VersionIs
<1>2. /\ v.used \in Usages /\ v.hard \in Limits /\ Scopes[q] \in {Scopes[p] : p \in Quotas}
      /\ i \in Nat
  BY <1>1 DEF VersionState
<1>3. PICK d : d = Doc(q, i)
  OBVIOUS
<1>4. /\ d = [name |-> q, rv |-> i, hard |-> v.hard, used |-> v.used,
              scopes |-> Scopes[q], charging |-> {}]
  BY <1>1, <1>3 DEF Doc
<1>5. /\ d \in DocState /\ d.name = q /\ d.rv = i /\ d.hard = v.hard /\ d.used = v.used
      /\ d.charging = {}
  BY <1>2, <1>4 DEF DocState
<1>6. ExactUsage(d.used, v.used, d.hard, {})
  <2> SUFFICES ASSUME NEW n \in AllTracked
               PROVE  At(d.used, n) = At(v.used, n) + Total([r \in {} |-> Gain(d.hard, r)], n)
    BY DEF ExactUsage
  <2>1. Total([r \in {} |-> Gain(d.hard, r)], n) = 0
    <3> DEFINE f == [r \in {} |-> Gain(d.hard, r)]
    <3>1. DOMAIN f = {} /\ IsFiniteSet({}) /\ \A z \in {} : f[z] \in Usages
      BY FS_EmptySet
    <3> HIDE DEF f
    <3>2. Total(f, n) = 0
      BY <3>1, TotalOf
    <3> QED BY <3>2 DEF f
  <2>2. At(v.used, n) \in Int /\ d.used = v.used
    BY <1>2, <1>5, UsageIs
  <2> QED BY <2>1, <2>2
<1>7. WithinLimits(d.used, d.hard, {})
  BY DEF WithinLimits
<1>8. DocInv(hist, d)
  BY <1>1, <1>5, <1>6, <1>7 DEF DocInv
<1> QED BY <1>3, <1>5, <1>8

\* The documents with one more at the end.
LEMMA AppendDoc ==
  ASSUME NEW s \in Seq(DocState), NEW d \in DocState
  PROVE  /\ Append(s, d) \in Seq(DocState)
         /\ Names(Append(s, d)) = Names(s) \cup {d.name}
         /\ Distinct(s) /\ d.name \notin Names(s) => Distinct(Append(s, d))
         /\ \A i \in 1..Len(Append(s, d)) :
              Append(s, d)[i] = d \/ \E j \in 1..Len(s) : Append(s, d)[i] = s[j]
<1>1. PICK t : t = Append(s, d)
  OBVIOUS
<1>2. PICK n \in Nat : n = Len(s)
  BY LenProperties
<1>3. /\ t \in Seq(DocState) /\ Len(t) = n + 1 /\ t[n + 1] = d
      /\ \A i \in 1..n : t[i] = s[i]
  BY <1>1, <1>2
<1>4. \A i \in 1..(n + 1) : i = n + 1 \/ i \in 1..n
  OBVIOUS
<1>7. n + 1 \in 1..(n + 1) /\ \A i \in 1..n : i \in 1..(n + 1)
  OBVIOUS
<1>5. Names(t) = Names(s) \cup {d.name}
  <2>1. Names(t) = {t[i].name : i \in 1..(n + 1)} /\ Names(s) = {s[i].name : i \in 1..n}
    BY <1>2, <1>3 DEF Names
  <2> QED BY <1>3, <1>4, <1>7, <2>1
<1>6. ASSUME Distinct(s), d.name \notin Names(s) PROVE Distinct(t)
  <2>1. \A i \in 1..n : t[i].name # d.name
    BY <1>2, <1>3, <1>6 DEF Names
  <2>2. \A i, j \in 1..n : t[i].name = t[j].name => i = j
    BY <1>2, <1>3, <1>6 DEF Distinct
  <2> QED BY <1>3, <1>4, <2>1, <2>2 DEF Distinct
<1> QED BY <1>1, <1>2, <1>3, <1>4, <1>5, <1>6

\* checkCache returned version i.
LEMMA ProceedStep ==
  ASSUME IndInv, NEW k \in Workers, w[k].pc \in {"cache", "evict"},
         NEW i \in 1..Len(hist[w[k].q]), Proceed(k, i),
         UNCHANGED <<hist, caller, members, result>>, StoreInv'
  PROVE  IndInv'
<1>1. PICK x \in WorkerState : x = w[k]
  BY WorkerIs
<1>2. WorkerInv(hist, x) /\ HistType(hist) /\ w \in [Workers -> WorkerState]
  BY <1>1, WorkerIs
<1>3. /\ x.pc \in {"cache", "evict"} /\ x.q \in Quotas
      /\ IF x.writes = <<>> THEN x.q \in x.todo ELSE x.q = Head(x.writes).name
  BY <1>1, <1>2 DEF WorkerInv, PlaceInv
<1>4. i \in Nat /\ i \in 1..Len(hist[x.q])
  BY <1>1
<1>5. CASE x.writes = <<>>
  <2>1. PICK d \in DocState : /\ d = Doc(x.q, i) /\ DocInv(hist, d)
                              /\ d.name = x.q /\ d.charging = {}
    BY <1>2, <1>3, <1>4, ReadDoc
  <2>2. PICK t : t = Append(x.docs, d)
    OBVIOUS
  <2>3. x.docs \in Seq(DocState)
    BY DEF WorkerState
  <2>4. /\ t \in Seq(DocState) /\ Names(t) = Names(x.docs) \cup {x.q}
        /\ Distinct(x.docs) /\ x.q \notin Names(x.docs) => Distinct(t)
        /\ \A j \in 1..Len(t) : t[j] = d \/ \E m \in 1..Len(x.docs) : t[j] = x.docs[m]
    BY <2>1, <2>2, <2>3, AppendDoc
  <2>5. PICK y : y = [x EXCEPT !.pc = "fetch", !.got = 0, !.todo = x.todo \ {x.q},
                               !.docs = t]
    OBVIOUS
  <2>6. w' = [w EXCEPT ![k] = y]
    BY <1>1, <1>2, <1>5, <2>1, <2>2, <2>5 DEF Proceed
  <2>7. /\ y \in WorkerState /\ y.pc = "fetch" /\ y.batch = x.batch /\ y.ns = x.ns
        /\ y.locks = x.locks /\ y.failed = x.failed /\ y.todo = x.todo \ {x.q}
        /\ y.docs = t /\ y.writes = x.writes
    BY <2>4, <2>5 DEF WorkerState, Pcs
  <2>8. Reading(x) /\ Reading(y)
    BY <1>3, <1>5, <2>7 DEF Reading
  <2>9. /\ x.todo \cap Native = {} /\ Names(x.docs) \cap (x.todo \cup Native) = {}
        /\ x.q \in x.todo
    BY <1>2, <1>3, <1>5, <2>8 DEF WorkerInv, PlaceInv
  <2>10. PlaceInv(hist, y)
    BY <1>2, <1>3, <1>5, <2>4, <2>7, <2>9 DEF WorkerInv, PlaceInv
  <2>11. DocsInv(hist, y)
    <3>1. /\ \A j \in 1..Len(x.docs) : DocInv(hist, x.docs[j]) /\ x.docs[j].charging = {}
          /\ Distinct(x.docs)
      BY <1>2, <2>8 DEF WorkerInv, DocsInv
    <3>2. \A j \in 1..Len(t) : DocInv(hist, t[j]) /\ t[j].charging = {}
      BY <2>1, <2>4, <3>1
    <3>3. Distinct(t)
      BY <2>4, <2>9, <3>1
    <3> QED BY <2>7, <3>2, <3>3 DEF DocsInv
  <2>12. WritesInv(hist, y)
    BY <1>2, <2>7 DEF WorkerInv, WritesInv
  <2>13. Open(y) = Open(x)
    BY <1>3, <2>7 DEF Open
  <2>14. WorkerInv(hist, y)
    BY <1>2, <2>7, <2>10, <2>11, <2>12, <2>13 DEF WorkerInv
  <2> QED BY <1>1, <2>6, <2>7, <2>14, SameResults, WorkerMoves
<1>6. CASE x.writes # <<>>
  <2>1. PICK y : y = [x EXCEPT !.pc = "write", !.got = i]
    OBVIOUS
  <2>2. w' = [w EXCEPT ![k] = y]
    BY <1>1, <1>2, <1>6, <2>1 DEF Proceed
  <2>3. /\ y \in WorkerState /\ y.pc = "write" /\ y.batch = x.batch /\ y.ns = x.ns
        /\ y.locks = x.locks /\ y.failed = x.failed /\ y.todo = x.todo
        /\ y.docs = x.docs /\ y.writes = x.writes /\ y.got = i
    BY <1>4, <2>1 DEF WorkerState, Pcs
  <2>4. PlaceInv(hist, y)
    BY <1>2, <1>3, <1>4, <1>6, <2>3 DEF WorkerInv, PlaceInv, Reading
  <2>5. DocsInv(hist, y) /\ WritesInv(hist, y)
    BY <1>2, <2>3 DEF WorkerInv, DocsInv, WritesInv, Reading
  <2>6. Open(y) = Open(x)
    BY <1>3, <2>3 DEF Open
  <2>7. WorkerInv(hist, y)
    BY <1>2, <2>3, <2>4, <2>5, <2>6 DEF WorkerInv
  <2> QED BY <1>1, <2>2, <2>3, <2>7, SameResults, WorkerMoves
<1> QED BY <1>5, <1>6

LEMMA CheckCacheStep ==
  ASSUME IndInv, NEW k \in Workers, CheckCache(k)
  PROVE  IndInv'
<1>1. PICK x \in WorkerState : x = w[k]
  BY WorkerIs
<1>2. WorkerInv(hist, x) /\ HistType(hist) /\ w \in [Workers -> WorkerState]
  BY <1>1, WorkerIs
<1>3. x.pc = "cache" /\ UNCHANGED <<storeVars, result, caller>>
  BY <1>1 DEF CheckCache
<1>4. x.q \in Quotas /\ x.got \in 1..Len(hist[x.q])
  BY <1>2, <1>3 DEF WorkerInv, PlaceInv
<1>5. lru[x.q] \in 0..Len(hist[x.q]) /\ Len(hist[x.q]) \in Nat
  <2>1. hist[x.q] \in Seq(VersionState)
    BY <1>2, <1>4 DEF HistType
  <2> QED BY <1>4, <2>1, LenProperties DEF IndInv, StoreInv
<1>6. CASE lru[x.q] # 0 /\ x.got >= lru[x.q]
  <2>1. PICK y : y = [x EXCEPT !.pc = "evict"]
    OBVIOUS
  <2>2. w' = [w EXCEPT ![k] = y]
    BY <1>1, <1>2, <1>6, <2>1 DEF CheckCache
  <2>3. /\ y \in WorkerState /\ y.pc = "evict" /\ y.batch = x.batch /\ y.ns = x.ns
        /\ y.locks = x.locks /\ y.failed = x.failed /\ y.todo = x.todo
        /\ y.docs = x.docs /\ y.writes = x.writes /\ y.got = x.got /\ y.q = x.q
    BY <2>1 DEF WorkerState, Pcs
  <2>4. PlaceInv(hist, y)
    BY <1>2, <1>3, <2>3 DEF WorkerInv, PlaceInv, Reading
  <2>5. DocsInv(hist, y) /\ WritesInv(hist, y)
    BY <1>2, <1>3, <2>3 DEF WorkerInv, DocsInv, WritesInv, Reading
  <2>6. Open(y) = Open(x)
    BY <1>3, <2>3 DEF Open
  <2>7. WorkerInv(hist, y)
    BY <1>2, <2>3, <2>4, <2>5, <2>6 DEF WorkerInv
  <2> QED BY <1>1, <1>3, <2>2, <2>3, <2>7, SameStore, SameResults, WorkerMoves
<1>7. CASE ~(lru[x.q] # 0 /\ x.got >= lru[x.q])
  <2>1. PICK i : i = IF lru[x.q] = 0 THEN x.got ELSE lru[x.q]
    OBVIOUS
  <2>2. i \in 1..Len(hist[x.q])
    BY <1>4, <1>5, <2>1
  <2>3. Proceed(k, i)
    BY <1>1, <1>7, <2>1 DEF CheckCache
  <2> QED BY <1>1, <1>3, <2>2, <2>3, SameStore, ProceedStep
<1> QED BY <1>6, <1>7

LEMMA EvictStep ==
  ASSUME IndInv, NEW k \in Workers, Evict(k)
  PROVE  IndInv'
<1>1. PICK x \in WorkerState : x = w[k]
  BY WorkerIs
<1>2. WorkerInv(hist, x) /\ HistType(hist)
  BY <1>1, WorkerIs
<1>3. /\ x.pc = "evict" /\ UNCHANGED <<hist, cache, members, result, caller>>
      /\ lru' = [lru EXCEPT ![x.q] = 0] /\ Proceed(k, x.got)
  BY <1>1 DEF Evict
<1>4. x.got \in 1..Len(hist[x.q])
  BY <1>2, <1>3 DEF WorkerInv, PlaceInv
<1>5. StoreInv'
  <2>1. \A q \in Quotas : Len(hist[q]) \in Nat
    <3> TAKE q \in Quotas
    <3>1. hist[q] \in Seq(VersionState)
      BY <1>2 DEF HistType
    <3> QED BY <3>1, LenProperties
  <2>2. lru' \in [Quotas -> Nat] /\ \A q \in Quotas : lru'[q] = 0 \/ lru'[q] = lru[q]
    BY <1>3 DEF IndInv, StoreInv
  <2> QED BY <1>3, <2>1, <2>2 DEF IndInv, StoreInv
<1> QED BY <1>1, <1>3, <1>4, <1>5, ProceedStep

-----------------------------------------------------------------------------
(* UpdateQuotaStatus and the end of checkQuotas.                             *)

LEMMA TailNames ==
  ASSUME NEW s \in Seq(DocState), s # <<>>
  PROVE  /\ Tail(s) \in Seq(DocState) /\ Head(s) \in DocState
         /\ Names(s) = Names(Tail(s)) \cup {Head(s).name}
         /\ Distinct(s) => Distinct(Tail(s)) /\ Head(s).name \notin Names(Tail(s))
         /\ \A i \in 1..Len(Tail(s)) : \E j \in 1..Len(s) : Tail(s)[i] = s[j]
         /\ \E j \in 1..Len(s) : Head(s) = s[j]
<1>1. PICK t : t = Tail(s)
  OBVIOUS
<1>2. PICK d : d = Head(s)
  OBVIOUS
<1>3. PICK n \in Nat : n = Len(s) /\ n # 0
  BY LenProperties, EmptySeq
<1>4. /\ t \in Seq(DocState) /\ Len(t) = n - 1 /\ d = s[1] /\ d \in DocState
      /\ \A i \in 1..(n - 1) : t[i] = s[i + 1]
  BY <1>1, <1>2, <1>3
<1>5. /\ 1 \in 1..n /\ \A i \in 1..(n - 1) : i + 1 \in 1..n /\ i + 1 # 1
      /\ \A i \in 1..n : i = 1 \/ (i - 1 \in 1..(n - 1) /\ (i - 1) + 1 = i)
      /\ \A i, j \in 1..(n - 1) : i + 1 = j + 1 => i = j
  <2>1. n \in Nat /\ n # 0
    BY <1>3
  <2> QED BY ONLY <2>1
<1>6. Names(s) = {s[i].name : i \in 1..n} /\ Names(t) = {t[i].name : i \in 1..(n - 1)}
  BY <1>3, <1>4 DEF Names
<1>7. Names(s) = Names(t) \cup {d.name}
  <2>1. ASSUME NEW i \in 1..n PROVE s[i].name \in Names(t) \cup {d.name}
    <3>1. CASE i = 1
      BY <1>4, <3>1
    <3>2. CASE i # 1
      <4>1. i - 1 \in 1..(n - 1) /\ t[i - 1] = s[i]
        BY <1>4, <1>5, <3>2
      <4> QED BY <1>6, <4>1
    <3> QED BY <3>1, <3>2
  <2>2. ASSUME NEW i \in 1..(n - 1) PROVE t[i].name \in Names(s)
    <3>1. i + 1 \in 1..n /\ t[i] = s[i + 1]
      BY <1>4, <1>5
    <3> QED BY <1>6, <3>1
  <2>3. d.name \in Names(s)
    BY <1>4, <1>5, <1>6
  <2> QED BY <1>6, <2>1, <2>2, <2>3
<1>8. ASSUME Distinct(s) PROVE Distinct(t) /\ d.name \notin Names(t)
  <2>1. \A i, j \in 1..n : s[i].name = s[j].name => i = j
    BY <1>3, <1>8 DEF Distinct
  <2>2. \A i, j \in 1..(n - 1) : t[i].name = t[j].name => i = j
    BY <1>4, <1>5, <2>1
  <2>3. \A i \in 1..(n - 1) : t[i].name # d.name
    BY <1>4, <1>5, <2>1
  <2> QED BY <1>4, <1>6, <2>2, <2>3 DEF Distinct
<1>9. /\ \A i \in 1..(n - 1) : \E j \in 1..n : t[i] = s[j]
      /\ \E j \in 1..n : d = s[j]
  BY <1>4, <1>5
<1> QED BY <1>1, <1>2, <1>3, <1>4, <1>7, <1>8, <1>9

\* A worker done with the first of its writes; F are the failed ones.
DoneWrite(x, F) ==
  [x EXCEPT !.pc = "update", !.writes = Tail(x.writes), !.got = 0, !.failed = F]

LEMMA WriteDone ==
  ASSUME NEW h, NEW x \in WorkerState, WorkerInv(h, x), x.writes # <<>>,
         NEW F, \/ x.pc = "add" /\ F = x.failed
                \/ /\ x.pc \in {"update", "write"}
                   /\ F = x.failed \cup {Head(x.writes).name},
         NEW y, y = DoneWrite(x, F)
  PROVE  WorkerInv(h, y) /\ y.batch = x.batch /\ y.pc = "update"
<1>1. PICK t \in Seq(DocState) :
        /\ t = Tail(x.writes)
        /\ Names(x.writes) = Names(t) \cup {Head(x.writes).name}
        /\ Distinct(x.writes) => Distinct(t) /\ Head(x.writes).name \notin Names(t)
        /\ \A i \in 1..Len(t) : \E j \in 1..Len(x.writes) : t[i] = x.writes[j]
  <2>1. x.writes \in Seq(DocState)
    BY DEF WorkerState
  <2>2. /\ Tail(x.writes) \in Seq(DocState)
        /\ Names(x.writes) = Names(Tail(x.writes)) \cup {Head(x.writes).name}
        /\ Distinct(x.writes) => /\ Distinct(Tail(x.writes))
                                /\ Head(x.writes).name \notin Names(Tail(x.writes))
        /\ \A i \in 1..Len(Tail(x.writes)) :
             \E j \in 1..Len(x.writes) : Tail(x.writes)[i] = x.writes[j]
    BY <2>1, TailNames
  <2> QED BY <2>2
<1>2. Head(x.writes).name \in Quotas
  <2>1. x.writes \in Seq(DocState)
    BY DEF WorkerState
  <2>2. Head(x.writes) \in DocState
    BY <2>1, TailNames
  <2> QED BY <2>2 DEF DocState
<1>3. /\ y \in WorkerState /\ y.pc = "update" /\ y.batch = x.batch /\ y.ns = x.ns
      /\ y.locks = x.locks /\ y.failed = F /\ y.docs = x.docs /\ y.writes = t
  <2>1. F \in SUBSET Quotas /\ y = [x EXCEPT !.pc = "update", !.writes = t, !.got = 0,
                                             !.failed = F]
    BY <1>1, <1>2 DEF WorkerState, DoneWrite
  <2>2. t \in Seq(DocState)
    BY <1>1
  <2>3. x \in WorkerState
    OBVIOUS
  <2> QED BY ONLY <2>1, <2>2, <2>3 DEF WorkerState, Pcs
<1>4. /\ PlaceInv(h, x) /\ DocsInv(h, x) /\ WritesInv(h, x)
      /\ x.locks # {} /\ x.pc \in {"add", "update", "write"}
  BY DEF WorkerInv, PlaceInv
<1>5. PlaceInv(h, y)
  BY <1>3, <1>4 DEF PlaceInv, Reading
<1>6. DocsInv(h, y)
  BY <1>3, <1>4 DEF DocsInv, Reading
<1>7. WritesInv(h, y)
  <2>1. /\ Distinct(t) /\ Head(x.writes).name \notin Names(t)
        /\ \A i \in 1..Len(x.writes) :
             /\ DocInv(h, x.writes[i]) /\ x.writes[i].charging \subseteq ToSet(x.batch)
             /\ x.writes[i].name \notin Native \cup x.failed
    BY <1>1, <1>4 DEF WritesInv
  <2>2. \A i \in 1..Len(t) : t[i].name \in Names(t)
    BY DEF Names
  <2>3. \A i \in 1..Len(t) :
             /\ DocInv(h, t[i]) /\ t[i].charging \subseteq ToSet(x.batch)
             /\ t[i].name \notin Native \cup F
    BY <1>1, <2>1, <2>2
  <2> QED BY <1>3, <2>1, <2>3 DEF WritesInv
<1>8. Open(y) \subseteq Open(x)
  <2>1. Open(y) = F \cup Names(t)
    BY <1>3, <1>4 DEF Open
  <2>2. CASE x.pc = "add" /\ F = x.failed
    BY <1>1, <1>4, <2>1, <2>2 DEF Open
  <2>3. CASE x.pc \in {"update", "write"} /\ F = x.failed \cup {Head(x.writes).name}
    <3>1. Open(x) = x.failed \cup Names(x.writes)
      BY <1>4, <2>3 DEF Open
    <3> QED BY <1>1, <2>1, <2>3, <3>1
  <2> QED BY <2>2, <2>3
<1> QED BY <1>3, <1>5, <1>6, <1>7, <1>8 DEF WorkerInv

LEMMA WrittenStep ==
  ASSUME IndInv, NEW k \in Workers, w[k].writes # <<>>, NEW ok \in BOOLEAN,
         \/ w[k].pc = "add" /\ ok
         \/ w[k].pc \in {"update", "write"} /\ ~ok,
         Written(k, ok), UNCHANGED <<hist, caller, members, result>>, StoreInv'
  PROVE  IndInv'
<1>1. PICK x \in WorkerState : x = w[k]
  BY WorkerIs
<1>2. WorkerInv(hist, x) /\ w \in [Workers -> WorkerState]
  BY <1>1, WorkerIs
<1>3. PICK F : F = IF ok THEN x.failed ELSE x.failed \cup {Head(x.writes).name}
  OBVIOUS
<1>4. PICK y : y = DoneWrite(x, F)
  OBVIOUS
<1>5. w' = [w EXCEPT ![k] = y]
  BY <1>1, <1>2, <1>3, <1>4 DEF Written, DoneWrite
<1>6. WorkerInv(hist, y) /\ y.batch = x.batch /\ y.pc = "update"
  <2>1. \/ x.pc = "add" /\ F = x.failed
        \/ x.pc \in {"update", "write"} /\ F = x.failed \cup {Head(x.writes).name}
    BY <1>1, <1>3
  <2>2. x.writes # <<>>
    BY <1>1
  <2> QED BY <1>2, <1>4, <2>1, <2>2, WriteDone
<1> QED BY <1>1, <1>5, <1>6, SameResults, WorkerMoves

LEMMA UpdateReadStep ==
  ASSUME IndInv, NEW k \in Workers, UpdateRead(k)
  PROVE  IndInv'
<1>1. PICK x \in WorkerState : x = w[k]
  BY WorkerIs
<1>2. WorkerInv(hist, x) /\ w \in [Workers -> WorkerState]
  BY <1>1, WorkerIs
<1>3. PICK q : q = Head(x.writes).name
  OBVIOUS
<1>4. x.pc = "update" /\ x.writes # <<>> /\ UNCHANGED <<storeVars, result, caller>>
  BY <1>1 DEF UpdateRead
<1>5. CASE Live(q, cache[q])
  <2>1. q \in Quotas
    <3>1. x.writes \in Seq(DocState)
      BY DEF WorkerState
    <3>2. Head(x.writes) \in DocState
      BY <1>4, <3>1, TailNames
    <3> QED BY <1>3, <3>2 DEF DocState
  <2>2. cache[q] \in 1..Len(hist[q]) /\ cache[q] \in Nat
    BY <2>1 DEF IndInv, StoreInv
  <2>3. PICK y : y = [x EXCEPT !.pc = "cache", !.q = q, !.got = cache[q]]
    OBVIOUS
  <2>4. w' = [w EXCEPT ![k] = y]
    BY <1>1, <1>2, <1>3, <1>5, <2>3 DEF UpdateRead
  <2>5. /\ y \in WorkerState /\ y.pc = "cache" /\ y.batch = x.batch /\ y.ns = x.ns
        /\ y.locks = x.locks /\ y.failed = x.failed /\ y.todo = x.todo
        /\ y.docs = x.docs /\ y.writes = x.writes /\ y.q = q /\ y.got = cache[q]
    BY <2>1, <2>2, <2>3 DEF WorkerState, Pcs
  <2>6. PlaceInv(hist, y)
    BY <1>2, <1>3, <1>4, <2>1, <2>2, <2>5 DEF WorkerInv, PlaceInv, Reading
  <2>7. DocsInv(hist, y) /\ WritesInv(hist, y)
    BY <1>2, <1>4, <2>5 DEF WorkerInv, DocsInv, WritesInv, Reading
  <2>8. Open(y) = Open(x)
    BY <1>4, <2>5 DEF Open
  <2>9. WorkerInv(hist, y)
    BY <1>2, <2>5, <2>6, <2>7, <2>8 DEF WorkerInv
  <2> QED BY <1>1, <1>4, <2>4, <2>5, <2>9, SameStore, SameResults, WorkerMoves
<1>6. CASE ~Live(q, cache[q])
  <2>1. Written(k, FALSE)
    BY <1>1, <1>3, <1>6 DEF UpdateRead
  <2> QED BY <1>1, <1>4, <2>1, SameStore, WrittenStep
<1> QED BY <1>5, <1>6

LEMMA CacheAddStep ==
  ASSUME IndInv, NEW k \in Workers, CacheAdd(k)
  PROVE  IndInv'
<1>1. PICK x \in WorkerState : x = w[k]
  BY WorkerIs
<1>2. WorkerInv(hist, x) /\ HistType(hist)
  BY <1>1, WorkerIs
<1>3. PICK d : d = Head(x.writes)
  OBVIOUS
<1>4. /\ x.pc = "add" /\ lru' = [lru EXCEPT ![d.name] = d.rv + 1] /\ Written(k, TRUE)
      /\ UNCHANGED <<hist, cache, members, result, caller>>
  BY <1>1, <1>3 DEF CacheAdd
<1>5. x.writes # <<>> /\ d.rv < Len(hist[d.name])
  BY <1>2, <1>3, <1>4 DEF WorkerInv, PlaceInv
<1>6. d.name \in Quotas /\ d.rv \in Nat
  <2>1. x.writes \in Seq(DocState)
    BY DEF WorkerState
  <2>2. d \in DocState
    BY <1>3, <1>5, <2>1, TailNames
  <2> QED BY <2>2 DEF DocState
<1>7. StoreInv'
  <2>1. \A q \in Quotas : Len(hist[q]) \in Nat
    <3> TAKE q \in Quotas
    <3>1. hist[q] \in Seq(VersionState)
      BY <1>2 DEF HistType
    <3> QED BY <3>1, LenProperties
  <2>2. d.rv + 1 \in 0..Len(hist[d.name]) /\ d.rv + 1 \in Nat
    BY <1>5, <1>6, <2>1
  <2>3. /\ lru' \in [Quotas -> Nat] /\ lru'[d.name] = d.rv + 1
        /\ \A q \in Quotas : q # d.name => lru'[q] = lru[q]
    BY <1>4, <1>6, <2>2 DEF IndInv, StoreInv
  <2> QED BY <1>4, <2>2, <2>3 DEF IndInv, StoreInv
<1> QED BY <1>1, <1>4, <1>5, <1>7, WrittenStep

LEMMA DecideStep ==
  ASSUME IndInv, NEW k \in Workers, Decide(k)
  PROVE  IndInv'
<1>1. PICK x \in WorkerState : x = w[k]
  BY WorkerIs
<1>2. WorkerInv(hist, x) /\ w \in [Workers -> WorkerState]
  BY <1>1, WorkerIs
<1>3. x.pc = "update" /\ x.writes = <<>> /\ UNCHANGED <<storeVars, caller>>
  BY <1>1 DEF Decide
<1>a. x.retries \in 0..Retries /\ x.retries \in Nat
  <2>1. Retries \in Nat
    BY StatusAssumption
  <2>2. x.retries \in 0..Retries
    BY DEF WorkerState
  <2> QED BY <2>1, <2>2
<1>4. ASSUME NEW res \in Results, res # DefaultDeny, Settle(k, res),
             w' = [w EXCEPT ![k].pc = "answer"]
      PROVE  IndInv'
  <2>1. PICK y : y = [x EXCEPT !.pc = "answer"]
    OBVIOUS
  <2>2. w' = [w EXCEPT ![k] = y]
    BY <1>1, <1>2, <1>4, <2>1
  <2>3. WorkerInv(hist, y) /\ y.batch = x.batch /\ y.pc = "answer"
    BY <1>2, <1>3, <2>1, ToAnswer
  <2>4. /\ result' \in [Requests -> Results]
        /\ \A r \in Requests : result[r] # DefaultDeny => result'[r] # DefaultDeny
        /\ \A r \in Batch(k) : result'[r] # DefaultDeny
    BY <1>4, Settled
  <2> QED BY <1>1, <1>3, <2>2, <2>3, <2>4, SameStore, WorkerMoves DEF Batch
<1>5. CASE x.failed = {} \/ x.retries = 0
  <2>1. \/ Settle(k, "nil") /\ w' = [w EXCEPT ![k].pc = "answer"]
        \/ Settle(k, "failed") /\ w' = [w EXCEPT ![k].pc = "answer"]
    BY <1>1, <1>5 DEF Decide
  <2> QED BY <1>4, <2>1, Marks
<1>6. CASE x.failed # {} /\ x.retries > 0
  <2>1. PICK y : y = [x EXCEPT !.pc = "list", !.retries = x.retries - 1]
    OBVIOUS
  <2>2. w' = [w EXCEPT ![k] = y] /\ UNCHANGED result
    <3>1. w' = [w EXCEPT ![k].pc = "list", ![k].retries = @ - 1] /\ UNCHANGED result
      BY <1>1, <1>6, <1>a DEF Decide
    <3> QED BY <1>1, <1>2, <2>1, <3>1
  <2>3. x.retries - 1 \in 0..Retries
    BY <1>6, <1>a, StatusAssumption
  <2>4. /\ y \in WorkerState /\ y.pc = "list" /\ y.batch = x.batch /\ y.ns = x.ns
        /\ y.locks = x.locks /\ y.failed = x.failed /\ y.todo = x.todo
        /\ y.docs = x.docs /\ y.writes = x.writes
    BY <2>1, <2>3 DEF WorkerState, Pcs
  <2>5. PlaceInv(hist, y)
    BY <1>2, <1>3, <2>4 DEF WorkerInv, PlaceInv, Reading
  <2>6. DocsInv(hist, y) /\ WritesInv(hist, y)
    BY <1>2, <1>3, <2>4 DEF WorkerInv, DocsInv, WritesInv, Reading
  <2>7. Open(y) = Open(x)
    BY <1>3, <2>4 DEF Open
  <2>8. WorkerInv(hist, y)
    BY <1>2, <2>4, <2>5, <2>6, <2>7 DEF WorkerInv
  <2> QED BY <1>1, <1>3, <2>2, <2>4, <2>8, SameStore, SameResults, WorkerMoves
<1>7. x.failed # {} /\ x.retries # 0 => x.retries > 0
  BY <1>a
<1> QED BY <1>5, <1>6, <1>7

-----------------------------------------------------------------------------
(* Status().Update.                                                          *)

\* g is h with one more version v of q.
Grows(h, g, q, v) ==
  /\ g \in [Quotas -> Seq(VersionState)]
  /\ \A p \in Quotas : Len(h[p]) \in Nat /\ Len(g[p]) \in Nat /\ Len(h[p]) <= Len(g[p])
  /\ \A p \in Quotas : \A i \in 1..Len(h[p]) : g[p][i] = h[p][i]
  /\ \A p \in Quotas : p # q => g[p] = h[p]
  /\ Len(g[q]) = Len(h[q]) + 1 /\ g[q][Len(h[q]) + 1] = v

LEMMA OneMore ==
  ASSUME NEW h, HistType(h), NEW q \in Quotas, NEW v \in VersionState,
         NEW g, g = [h EXCEPT ![q] = Append(h[q], v)]
  PROVE  Grows(h, g, q, v) /\ HistType(g)
<1>1. h \in [Quotas -> Seq(VersionState)] /\ \A p \in Quotas : h[p] # <<>>
  BY DEF HistType
<1>2. PICK t : t = Append(h[q], v)
  OBVIOUS
<1>3. PICK n \in Nat : n = Len(h[q])
  BY <1>1, LenProperties
<1>4. /\ t \in Seq(VersionState) /\ Len(t) = n + 1 /\ t[n + 1] = v
      /\ \A i \in 1..n : t[i] = h[q][i]
  <2>1. h[q] \in Seq(VersionState)
    BY <1>1
  <2> QED BY <1>2, <1>3, <2>1, AppendProperties
<1>5. /\ g \in [Quotas -> Seq(VersionState)] /\ g[q] = t
      /\ \A p \in Quotas : p # q => g[p] = h[p]
  BY <1>1, <1>2, <1>4
<1>6. \A p \in Quotas : /\ Len(h[p]) \in Nat /\ Len(g[p]) \in Nat /\ Len(h[p]) <= Len(g[p])
                        /\ \A i \in 1..Len(h[p]) : g[p][i] = h[p][i]
  <2> TAKE p \in Quotas
  <2>1. Len(h[p]) \in Nat /\ Len(g[p]) \in Nat
    BY <1>1, <1>5, LenProperties
  <2>2. CASE p = q
    BY <1>3, <1>4, <1>5, <2>1, <2>2
  <2>3. CASE p # q
    BY <1>5, <2>1, <2>3
  <2> QED BY <2>1, <2>2, <2>3
<1>7. t # <<>>
  BY <1>4, EmptySeq
<1>8. \A p \in Quotas : g[p] # <<>>
  BY <1>1, <1>5, <1>7
<1>9. Len(g[q]) = Len(h[q]) + 1 /\ g[q][Len(h[q]) + 1] = v
  BY <1>3, <1>4, <1>5
<1> QED BY <1>5, <1>6, <1>8, <1>9 DEF Grows, HistType

\* Running documents stay what they are.
LEMMA DocStays ==
  ASSUME NEW h, NEW g, NEW q, NEW v, Grows(h, g, q, v), NEW d, DocInv(h, d)
  PROVE  DocInv(g, d)
<1>1. d.name \in Quotas /\ d.rv \in 1..Len(h[d.name])
  BY DEF DocInv, DocState
<1>2. /\ g[d.name][d.rv] = h[d.name][d.rv]
      /\ Len(h[d.name]) \in Nat /\ Len(g[d.name]) \in Nat /\ Len(h[d.name]) <= Len(g[d.name])
  BY <1>1 DEF Grows
<1>3. d.rv \in 1..Len(g[d.name])
  BY <1>1, <1>2
<1> QED BY <1>2, <1>3 DEF DocInv

\* So does a worker, if the version is not for its batch or not one of those
\* it can still charge.
LEMMA WorkerStays ==
  ASSUME NEW h, NEW g, NEW q, NEW v, Grows(h, g, q, v), NEW x, WorkerInv(h, x),
         v.lost \/ q \notin Open(x) \/ v.charged \cap ToSet(x.batch) = {}
  PROVE  WorkerInv(g, x)
<1>1. /\ x \in WorkerState /\ PlaceInv(h, x) /\ DocsInv(h, x) /\ WritesInv(h, x)
      /\ \A p \in Open(x) : OnlyLost(h, p, ToSet(x.batch))
  BY DEF WorkerInv
<1>2. \A p \in Quotas : /\ Len(h[p]) \in Nat /\ Len(g[p]) \in Nat
                        /\ \A i \in 1..Len(h[p]) : i \in 1..Len(g[p])
  BY DEF Grows
<1>3. x.writes # <<>> => Head(x.writes).name \in Quotas /\ Head(x.writes).rv \in Nat
  <2>1. x.writes \in Seq(DocState)
    BY <1>1 DEF WorkerState
  <2>2. x.writes # <<>> => Head(x.writes) \in DocState
    BY <2>1, TailNames
  <2> QED BY <2>2 DEF DocState
<1>4. x.pc \in {"cache", "evict"} => x.q \in Quotas /\ x.got \in 1..Len(g[x.q])
  BY <1>1, <1>2 DEF PlaceInv
<1>5. x.pc = "write" => x.got \in 1..Len(g[Head(x.writes).name])
  BY <1>1, <1>2, <1>3 DEF PlaceInv
<1>6. x.pc = "add" => Head(x.writes).rv < Len(g[Head(x.writes).name])
  <2> SUFFICES ASSUME x.pc = "add"
               PROVE  Head(x.writes).rv < Len(g[Head(x.writes).name])
    OBVIOUS
  <2>1. PICK d : d = Head(x.writes)
    OBVIOUS
  <2>2. d.name \in Quotas /\ d.rv \in Nat /\ d.rv < Len(h[d.name])
    BY <1>1, <1>3, <2>1 DEF PlaceInv
  <2>3. Len(h[d.name]) \in Nat /\ Len(g[d.name]) \in Nat /\ Len(h[d.name]) <= Len(g[d.name])
    BY <2>2 DEF Grows
  <2>4. d.rv < Len(g[d.name])
    BY <2>2, <2>3
  <2> QED BY <2>1, <2>4
<1>7. PlaceInv(g, x)
  BY <1>1, <1>4, <1>5, <1>6 DEF PlaceInv
<1>8. DocsInv(g, x)
  BY <1>1, DocStays DEF DocsInv
<1>9. WritesInv(g, x)
  BY <1>1, DocStays DEF WritesInv
<1>10. \A p \in Open(x) : OnlyLost(g, p, ToSet(x.batch))
  <2> SUFFICES ASSUME NEW p \in Open(x), NEW i \in 1..Len(g[p]),
                      g[p][i].charged \cap ToSet(x.batch) # {}
               PROVE  g[p][i].lost
    BY DEF OnlyLost
  <2>1. p \in Quotas
    <3>1. x.writes \in Seq(DocState) /\ x.docs \in Seq(DocState) /\ x.failed \in SUBSET Quotas
      BY <1>1 DEF WorkerState
    <3>2. \A s \in Seq(DocState) : Names(s) \subseteq Quotas
      <4> TAKE s \in Seq(DocState)
      <4>1. \A j \in 1..Len(s) : s[j] \in DocState
        BY ElementOfSeq
      <4> QED BY <4>1 DEF Names, DocState
    <3>3. x.pc = "add" => Tail(x.writes) \in Seq(DocState)
      BY <1>1, <3>1, TailNames DEF PlaceInv
    <3>4. Names(x.writes) \subseteq Quotas /\ Names(x.docs) \subseteq Quotas
      BY <3>1, <3>2
    <3>5. x.pc = "add" => Names(Tail(x.writes)) \subseteq Quotas
      BY <3>2, <3>3
    <3> QED BY <3>1, <3>4, <3>5 DEF Open
  <2>2. OnlyLost(h, p, ToSet(x.batch)) /\ Len(h[p]) \in Nat
    BY <1>1, <1>2, <2>1
  <2>3. CASE i \in 1..Len(h[p])
    <3>1. g[p][i] = h[p][i]
      BY <2>1, <2>3 DEF Grows
    <3> QED BY <2>2, <2>3, <3>1 DEF OnlyLost
  <2>4. CASE i \notin 1..Len(h[p])
    <3>1. g[p] # h[p]
      BY <2>4
    <3>2. p = q
      BY <2>1, <3>1 DEF Grows
    <3>3. Len(g[p]) = Len(h[p]) + 1 /\ g[p][Len(h[p]) + 1] = v
      BY <3>2 DEF Grows
    <3>4. i = Len(h[p]) + 1
      BY <2>2, <2>4, <3>3
    <3> QED BY <3>2, <3>3, <3>4
  <2> QED BY <2>3, <2>4
<1> QED BY <1>1, <1>7, <1>8, <1>9, <1>10 DEF WorkerInv

LEMMA SharesAre ==
  ASSUME NEW f \in Shares
  PROVE  /\ DOMAIN f \subseteq Namespaces /\ IsFiniteSet(DOMAIN f)
         /\ f = [m \in DOMAIN f |-> f[m]] /\ \A m \in DOMAIN f : f[m] \in Usages
<1>1. PICK S \in SUBSET Namespaces : f \in [S -> Usages]
  BY DEF Shares
<1>2. IsFiniteSet(S)
  BY StatusAssumption, FS_Subset
<1> QED BY <1>1, <1>2

LEMMA NothingIs == Nothing \in Usages /\ \A n : At(Nothing, n) = 0
<1>1. DOMAIN Nothing = {} /\ Nothing = [n \in {} |-> Nothing[n]] /\ \A n \in {} : Nothing[n] \in Int
  BY DEF Nothing
<1>2. {} \in SUBSET AllTracked
  OBVIOUS
<1>3. Nothing \in Usages
  BY <1>1, <1>2, UsageMade
<1> QED BY <1>1, <1>3 DEF At

\* The shares with that of ns replaced or added.
LEMMA ShareInserted ==
  ASSUME NEW b \in VersionState, NEW ns \in Namespaces, NEW u \in Usages,
         NEW f, f = InsertShare(b.byNs, ns, u)
  PROVE  /\ f \in Shares /\ Share(b, ns) \in Usages
         /\ \A n : \E t \in Int : /\ Total(f, n) = t + At(u, n)
                                  /\ Total(b.byNs, n) = t + At(Share(b, ns), n)
<1> DEFINE s == Share(b, ns)  c == b.byNs  D == DOMAIN c \cup {ns}
           e == [m \in D \ {ns} |-> c[m]]
<1>1. c \in Shares
  BY DEF VersionState
<1>2. /\ DOMAIN c \subseteq Namespaces /\ IsFiniteSet(DOMAIN c)
      /\ c = [m \in DOMAIN c |-> c[m]] /\ \A m \in DOMAIN c : c[m] \in Usages
  BY <1>1, SharesAre
<1>4. s = IF ns \in DOMAIN c THEN c[ns] ELSE Nothing
  BY DEF Share
<1> HIDE DEF s
<1>5. s \in Usages
  BY <1>2, <1>4, NothingIs
<1> HIDE DEF c
<1>8. f = [m \in D |-> IF m = ns THEN u ELSE c[m]]
  BY DEF InsertShare, c
<1>9. IsFiniteSet(D) /\ D \in SUBSET Namespaces /\ ns \in D
  BY <1>2, StatusAssumption, FS_Subset
<1>10. /\ DOMAIN f = D /\ f[ns] = u /\ \A m \in D \ {ns} : f[m] = c[m]
       /\ \A m \in D : f[m] \in Usages
  BY <1>2, <1>8
<1>11. f \in Shares
  <2>1. f \in [D -> Usages]
    BY <1>8, <1>10
  <2> QED BY <1>9, <2>1 DEF Shares
<1>12. /\ DOMAIN e = D \ {ns} /\ \A m \in D \ {ns} : e[m] = f[m] /\ e[m] = c[m]
  BY <1>10
<1>13. ns \notin DOMAIN c => c = e
  BY <1>2
<1>14. ns \in DOMAIN c => D = DOMAIN c
  OBVIOUS
<1> HIDE DEF D, e
<1>15. ASSUME NEW n PROVE \E t \in Int : /\ Total(f, n) = t + At(u, n)
                                         /\ Total(c, n) = t + At(s, n)
  <2>1. Total(f, n) = Total(e, n) + At(u, n)
    BY <1>9, <1>10, <1>12, TotalTakes
  <2>2. Total(c, n) = Total(e, n) + At(s, n)
    <3>1. CASE ns \in DOMAIN c
      <4>1. /\ DOMAIN c = D /\ DOMAIN e = DOMAIN c \ {ns} /\ \A m \in DOMAIN c \ {ns} : e[m] = c[m]
        BY <1>12, <1>14, <3>1
      <4>2. Total(c, n) = Total(e, n) + At(c[ns], n)
        BY <1>2, <3>1, <4>1, TotalTakes
      <4> QED BY <1>4, <3>1, <4>2
    <3>2. CASE ns \notin DOMAIN c
      <4>1. Total(c, n) \in Int
        BY <1>2, TotalOf
      <4> QED BY <1>4, <1>13, <3>2, <4>1, NothingIs
    <3> QED BY <3>1, <3>2
  <2>5. Total(e, n) \in Int
    <3>1. IsFiniteSet(D \ {ns}) /\ \A m \in D \ {ns} : e[m] \in Usages
      BY <1>9, <1>10, <1>12, FS_Subset
    <3> QED BY <1>12, <3>1, TotalOf
  <2> QED BY <2>1, <2>2, <2>5
<1> QED BY <1>5, <1>11, <1>15 DEF s, c

\* The shares with the difference of two usages added to that of ns.
LEMMA ShareAdded ==
  ASSUME NEW b \in VersionState, SharesInv(b), NEW used \in Usages, NEW ns \in Namespaces,
         NEW f, f = InsertShare(b.byNs, ns, Add(Share(b, ns), Subtract(used, b.used)))
  PROVE  f \in Shares /\ \A n \in AllTracked : At(used, n) = Total(f, n)
<1>1. PICK s : s = Share(b, ns)
  OBVIOUS
<1>2. PICK diff : diff = Subtract(used, b.used)
  OBVIOUS
<1>3. PICK u : u = Add(s, diff)
  OBVIOUS
<1>4. b.used \in Usages
  BY DEF VersionState
<1>5. s \in Usages
  BY <1>1, <1>4, ShareInserted
<1>6. diff \in Usages /\ \A n : At(diff, n) = At(used, n) - At(b.used, n)
  <2>1. IsDifference(diff, used, b.used)
    BY <1>2, <1>4, Sums
  <2> QED BY <2>1 DEF IsDifference
<1>7. u \in Usages /\ \A n : At(u, n) = At(s, n) + At(diff, n)
  <2>1. IsSumOf(u, s, diff)
    BY <1>3, <1>5, <1>6, Sums
  <2> QED BY <2>1 DEF IsSumOf
<1>8. f = InsertShare(b.byNs, ns, u)
  BY <1>1, <1>2, <1>3
<1>9. ASSUME NEW n \in AllTracked PROVE At(used, n) = Total(f, n)
  <2>1. PICK t \in Int : Total(f, n) = t + At(u, n) /\ Total(b.byNs, n) = t + At(s, n)
    BY <1>1, <1>7, <1>8, ShareInserted
  <2>2. At(b.used, n) = Total(b.byNs, n)
    BY DEF SharesInv
  <2>3. At(used, n) \in Int /\ At(s, n) \in Int /\ At(b.used, n) \in Int
    BY <1>4, <1>5, UsageIs
  <2> QED BY <1>6, <1>7, <2>1, <2>2, <2>3
<1> QED BY <1>7, <1>8, <1>9, ShareInserted

\* A write that is made: worker k becomes y.
LEMMA HistoryGrows ==
  ASSUME IndInv, NEW k \in Workers, NEW q \in Quotas, NEW v \in VersionState,
         hist' = [hist EXCEPT ![q] = Append(hist[q], v)], HistInv(hist'),
         v.charged \subseteq Batch(k),
         NEW y, w' = [w EXCEPT ![k] = y], WorkerInv(hist', y),
         y.batch = w[k].batch, y.pc # "answer",
         UNCHANGED <<cache, lru, members, result, caller>>
  PROVE  IndInv'
<1>1. PICK g : g = hist'
  OBVIOUS
<1>2. /\ w \in [Workers -> WorkerState] /\ \A l \in Workers : WorkerInv(hist, w[l])
      /\ HistType(hist)
  BY WorkerIs DEF IndInv, WorkersInv
<1>3. Grows(hist, g, q, v)
  BY <1>1, <1>2, OneMore
<1>4. /\ w' \in [Workers -> WorkerState] /\ w'[k] = y
      /\ \A l \in Workers : l # k => w'[l] = w[l]
  BY <1>2 DEF WorkerInv
<1>5. \A l \in Workers : w'[l].batch = w[l].batch
  BY <1>4
<1>6. \A l \in Workers : Batch(l)' = Batch(l)
  BY <1>5 DEF Batch
<1>7. \A l \in Workers : WorkerInv(g, w'[l])
  <2> TAKE l \in Workers
  <2>1. CASE l = k
    BY <1>1, <1>4, <2>1
  <2>2. CASE l # k
    <3>1. v.charged \cap ToSet(w[l].batch) = {}
      BY <2>2 DEF IndInv, CallersInv, Batch
    <3>2. WorkerInv(g, w[l])
      BY <1>2, <1>3, <3>1, WorkerStays
    <3> QED BY <1>4, <2>2, <3>2
  <2> QED BY <2>1, <2>2
<1>8. WorkersInv'
  BY <1>1, <1>4, <1>7 DEF WorkersInv
<1>9. \A p \in Quotas : /\ Len(hist[p]) \in Nat /\ Len(g[p]) \in Nat
                        /\ Len(hist[p]) <= Len(g[p])
  BY <1>3 DEF Grows
<1>10. StoreInv'
  <2>1. \A p \in Quotas : cache[p] \in 1..Len(g[p]) /\ lru[p] \in 0..Len(g[p])
    <3> TAKE p \in Quotas
    <3>1. cache[p] \in 1..Len(hist[p]) /\ lru[p] \in 0..Len(hist[p])
      BY DEF IndInv, StoreInv
    <3> QED BY <1>9, <3>1
  <2> QED BY <1>1, <2>1 DEF IndInv, StoreInv
<1>11. CallersInv'
  <2>1. ASSUME NEW p \in Quotas, NEW i \in 1..Len(g[p]), NEW r \in g[p][i].charged
        PROVE  caller[r] # "new"
    <3>1. CASE i \in 1..Len(hist[p])
      <4>1. g[p][i] = hist[p][i]
        BY <1>3, <3>1 DEF Grows
      <4> QED BY <2>1, <3>1, <4>1 DEF IndInv, CallersInv
    <3>2. CASE i \notin 1..Len(hist[p])
      <4>1. g[p] # hist[p]
        BY <3>2
      <4>2. p = q /\ Len(g[p]) = Len(hist[p]) + 1 /\ g[p][Len(hist[p]) + 1] = v
        BY <1>3, <4>1 DEF Grows
      <4>3. i = Len(hist[p]) + 1
        BY <1>9, <3>2, <4>2
      <4>4. r \in Batch(k)
        BY <2>1, <4>2, <4>3
      <4> QED BY <4>4 DEF IndInv, CallersInv
    <3> QED BY <3>1, <3>2
  <2> QED BY <1>1, <1>6, <2>1 DEF IndInv, CallersInv
<1>12. Decided'
  <2> SUFFICES ASSUME NEW l \in Workers, w'[l].pc = "answer", NEW r \in Batch(l)
               PROVE  result[r] # DefaultDeny
    BY <1>6 DEF Decided
  <2>1. l # k
    BY <1>4
  <2> QED BY <1>4, <2>1 DEF IndInv, Decided
<1> QED BY <1>8, <1>10, <1>11, <1>12 DEF IndInv

LEMMA VersionAdded ==
  ASSUME NEW h, HistInv(h), NEW g, NEW q \in Quotas, NEW v, Grows(h, g, q, v), HistType(g),
         SharesInv(v), ChargeInv(h[q][Len(h[q])], v),
         \A i \in 1..Len(h[q]) : h[q][i].charged \cap v.charged # {} => h[q][i].lost
  PROVE  HistInv(g)
<1> DEFINE Good(f, p, i) ==
      /\ p \notin Native => SharesInv(f[p][i])
      /\ i > 1 => ChargeInv(f[p][i - 1], f[p][i])
      /\ \A j \in 1..Len(f[p]) :
           i < j /\ f[p][i].charged \cap f[p][j].charged # {} => f[p][i].lost
<1> SUFFICES ASSUME NEW p \in Quotas, NEW i \in 1..Len(g[p]) PROVE Good(g, p, i)
  BY DEF HistInv
<1>1. \A j \in 1..Len(h[p]) : Good(h, p, j)
  BY DEF HistInv
<1>2. CASE p # q
  <2>1. g[p] = h[p]
    BY <1>2 DEF Grows
  <2> QED BY <1>1, <2>1
<1>3. CASE p = q
  <2>1. PICK n \in Nat : n = Len(h[q])
    BY DEF Grows
  <2>2. PICK s : s = h[q]
    OBVIOUS
  <2>3. PICK t : t = g[q]
    OBVIOUS
  <2>4. Len(s) = n /\ Len(t) = n + 1 /\ t[n + 1] = v /\ \A j \in 1..n : t[j] = s[j]
    BY <2>1, <2>2, <2>3 DEF Grows
  <2>5. /\ ChargeInv(s[n], v)
        /\ \A j \in 1..n : s[j].charged \cap v.charged # {} => s[j].lost
    BY <2>1, <2>2
  <2>6. \A j \in 1..n :
          /\ q \notin Native => SharesInv(s[j])
          /\ j > 1 => ChargeInv(s[j - 1], s[j])
          /\ \A m \in 1..n : j < m /\ s[j].charged \cap s[m].charged # {} => s[j].lost
    BY <1>1, <1>3, <2>1, <2>2
  <2>7. n # 0
    BY <2>1, <2>2, EmptySeq DEF HistInv, HistType
  <2>8. i \in 1..(n + 1)
    BY <1>3, <2>3, <2>4
  <2>9. \A j \in 1..(n + 1) : j = n + 1 \/ j \in 1..n
    OBVIOUS
  <2>10. q \notin Native => SharesInv(t[i])
    BY <2>4, <2>6, <2>8, <2>9
  <2>11. i > 1 => ChargeInv(t[i - 1], t[i])
    <3> SUFFICES ASSUME i > 1 PROVE ChargeInv(t[i - 1], t[i])
      OBVIOUS
    <3>1. i - 1 \in 1..n
      BY <2>8
    <3>2. CASE i = n + 1
      <4>1. i - 1 = n
        BY <3>2
      <4> QED BY <2>4, <2>5, <3>1, <3>2, <4>1
    <3>3. CASE i \in 1..n
      BY <2>4, <2>6, <3>1, <3>3
    <3> QED BY <2>8, <2>9, <3>2, <3>3
  <2>12. ASSUME NEW j \in 1..(n + 1), i < j, t[i].charged \cap t[j].charged # {}
         PROVE  t[i].lost
    <3>1. i \in 1..n
      BY <2>8, <2>12
    <3>2. CASE j = n + 1
      BY <2>4, <2>5, <2>12, <3>1, <3>2
    <3>3. CASE j \in 1..n
      BY <2>4, <2>6, <2>12, <3>1, <3>3
    <3> QED BY <2>9, <3>2, <3>3
  <2> QED BY <1>3, <2>3, <2>4, <2>10, <2>11, <2>12
<1> QED BY <1>2, <1>3

\* The version a write makes, whether its answer is lost or not.
UpdatedNow(b, d, ns, limit) == [Updated(b, d, ns) EXCEPT !.limit = limit]
WithVersion(h, q, v) == [h EXCEPT ![q] = Append(h[q], v)]
WrittenVersion(b, d, ns, limit, l) == [UpdatedNow(b, d, ns, limit) EXCEPT !.lost = l]

MadeWell(x, d, g, v, l) ==
  /\ d.name \in Quotas /\ v \in VersionState /\ v.lost = l
  /\ v.charged \subseteq ToSet(x.batch) /\ HistInv(g) /\ Grows(hist, g, d.name, v)
  /\ ~l => v = UpdatedNow(hist[d.name][x.got], d, x.ns, Last(hist[d.name]).limit)

LEMMA VersionMade ==
  ASSUME IndInv, NEW k \in Workers, NEW x \in WorkerState, x = w[k], x.pc = "write",
         NEW d, d = Head(x.writes), d.rv = Len(hist[d.name]), NEW l \in BOOLEAN,
         NEW v, v = WrittenVersion(hist[d.name][x.got], d, x.ns, Last(hist[d.name]).limit, l),
         NEW g, g = WithVersion(hist, d.name, v)
  PROVE  MadeWell(x, d, g, v, l)
<1>1. /\ WorkerInv(hist, x) /\ HistInv(hist) /\ HistType(hist)
      /\ PlaceInv(hist, x) /\ WritesInv(hist, x)
  BY WorkerIs DEF WorkerInv
<1>2. /\ x.writes # <<>> /\ x.writes \in Seq(DocState) /\ x.ns \in Namespaces
      /\ x.got \in 1..Len(hist[d.name]) /\ x.locks # {}
  BY <1>1 DEF PlaceInv, WorkerState
<1>3. d \in DocState /\ \E j \in 1..Len(x.writes) : d = x.writes[j]
  BY <1>2, TailNames
<1>4. /\ DocInv(hist, d) /\ d.charging \subseteq ToSet(x.batch) /\ d.name \notin Native
      /\ d.name \in Names(x.writes)
  BY <1>1, <1>3 DEF WritesInv, Names
<1>5. PICK q \in Quotas : q = d.name
  BY <1>3 DEF DocState
<1>6. PICK n : n = Len(hist[q]) /\ n \in 1..Len(hist[q])
  <2>1. hist[q] \in Seq(VersionState) /\ hist[q] # <<>>
    BY <1>1 DEF HistType
  <2>2. PICK m : m = Len(hist[q])
    OBVIOUS
  <2>3. m \in Nat /\ m # 0
    BY <2>1, <2>2, LenProperties, EmptySeq
  <2>4. m \in 1..m
    BY ONLY <2>3
  <2> QED BY <2>2, <2>4
<1>7. PICK b \in VersionState : b = hist[q][x.got]
  BY <1>1, <1>2, <1>5, VersionIs
<1>8. PICK u \in VersionState : u = hist[q][n]
  BY <1>1, <1>6, VersionIs
<1>9. Last(hist[q]) = u
  BY <1>6, <1>8 DEF Last
<1>10. PICK f : f = InsertShare(b.byNs, x.ns, Add(Share(b, x.ns), Subtract(d.used, b.used)))
  OBVIOUS
<1>11. SharesInv(b)
  BY <1>1, <1>2, <1>4, <1>5, <1>7 DEF HistInv
<1>12. d.used \in Usages /\ d.charging \in SUBSET Requests
  BY <1>3 DEF DocState
<1>13. f \in Shares /\ \A m \in AllTracked : At(d.used, m) = Total(f, m)
  <2>1. x.ns \in Namespaces /\ d.used \in Usages
    BY <1>2, <1>12
  <2> QED BY ONLY <1>10, <1>11, <2>1, b \in VersionState, ShareAdded
<1>14. PICK c : c = Updated(b, d, x.ns)
  OBVIOUS
<1>a. PICK admit \in Writers : admit = "admit"
  BY DEF Writers
<1>15. c = [b EXCEPT !.used = d.used, !.byNs = f, !.by = admit, !.charged = d.charging,
                     !.lost = FALSE]
  BY <1>10, <1>14, <1>a DEF Updated
<1>16. v = [c EXCEPT !.limit = u.limit, !.lost = l]
  BY <1>5, <1>7, <1>9, <1>14 DEF WrittenVersion, UpdatedNow
<1>17. /\ v \in VersionState /\ v.used = d.used /\ v.byNs = f /\ v.by = "admit"
       /\ v.charged = d.charging /\ v.lost = l
       /\ ~l => v = [c EXCEPT !.limit = u.limit]
  <2>1. u.limit \in Limits
    BY DEF VersionState
  <2>2. /\ c \in VersionState /\ c.used = d.used /\ c.byNs = f /\ c.by = admit
        /\ c.charged = d.charging /\ c.lost = FALSE
    <3>1. f \in Shares /\ admit \in Writers
      BY <1>13
    <3> QED BY ONLY <1>12, <1>15, <3>1, b \in VersionState DEF VersionState
  <2>3. /\ v \in VersionState /\ v.used = c.used /\ v.byNs = c.byNs /\ v.by = c.by
        /\ v.charged = c.charged /\ v.lost = l
    BY ONLY <1>16, <2>1, <2>2, l \in BOOLEAN DEF VersionState
  <2>4. ~l => v = [c EXCEPT !.limit = u.limit]
    BY ONLY <1>16, <2>1, <2>2, l \in BOOLEAN DEF VersionState
  <2> QED BY <1>a, <2>2, <2>3, <2>4
<1>18. Grows(hist, g, q, v) /\ HistType(g)
  BY <1>1, <1>5, <1>17, OneMore DEF WithVersion
<1>19. SharesInv(v)
  BY <1>13, <1>17 DEF SharesInv
<1>20. ChargeInv(u, v)
  <2>1. d.rv = n /\ d.name = q
    BY <1>5, <1>6
  <2>2. /\ d.hard = u.hard /\ ExactUsage(d.used, u.used, d.hard, d.charging)
        /\ WithinLimits(d.used, d.hard, d.charging)
    BY <1>4, <1>8, <2>1 DEF DocInv
  <2> QED BY <1>17, <2>2 DEF ChargeInv
<1>21. \A i \in 1..Len(hist[q]) :
         hist[q][i].charged \cap v.charged # {} => hist[q][i].lost
  <2>1. q \in Open(x)
    BY <1>2, <1>4, <1>5 DEF Open
  <2>2. OnlyLost(hist, q, ToSet(x.batch))
    BY <1>1, <2>1 DEF WorkerInv
  <2> QED BY <1>4, <1>17, <2>2 DEF OnlyLost
<1>22. HistInv(g)
  BY <1>1, <1>6, <1>8, <1>18, <1>19, <1>20, <1>21, VersionAdded
<1>23. ~l => v = UpdatedNow(hist[q][x.got], d, x.ns, Last(hist[q]).limit)
  BY <1>7, <1>9, <1>14, <1>17 DEF UpdatedNow
<1> QED BY <1>4, <1>5, <1>17, <1>18, <1>22, <1>23 DEF MadeWell

LEMMA WriteStep ==
  ASSUME IndInv, NEW k \in Workers, Write(k)
  PROVE  IndInv'
<1>1. PICK x \in WorkerState : x = w[k]
  BY WorkerIs
<1>2. WorkerInv(hist, x) /\ HistType(hist) /\ w \in [Workers -> WorkerState]
  BY <1>1, WorkerIs
<1>3. PICK d : d = Head(x.writes)
  OBVIOUS
<1>4. PICK u : u = UpdatedNow(hist[d.name][x.got], d, x.ns, Last(hist[d.name]).limit)
  OBVIOUS
<1>5. PICK v : v = WrittenVersion(hist[d.name][x.got], d, x.ns, Last(hist[d.name]).limit, FALSE)
  OBVIOUS
<1>6. PICK z : z = WrittenVersion(hist[d.name][x.got], d, x.ns, Last(hist[d.name]).limit, TRUE)
  OBVIOUS
<1>7. /\ x.pc = "write" /\ UNCHANGED <<cache, lru, members, result, caller>>
      /\ \/ /\ d.rv = Len(hist[d.name])
            /\ hist' = [hist EXCEPT ![d.name] = Append(@, u)]
            /\ w' = [w EXCEPT ![k].pc = "add"]
         \/ /\ d.rv = Len(hist[d.name])
            /\ hist' = [hist EXCEPT ![d.name] = Append(@, z)]
            /\ Written(k, FALSE)
         \/ Written(k, FALSE) /\ UNCHANGED hist
  BY <1>1, <1>3, <1>4, <1>6 DEF Write, UpdatedNow, WrittenVersion, Current
<1>8. x.writes # <<>> /\ x.locks # {}
  BY <1>2, <1>7 DEF WorkerInv, PlaceInv
<1>9. CASE /\ d.rv = Len(hist[d.name])
           /\ hist' = [hist EXCEPT ![d.name] = Append(@, u)]
           /\ w' = [w EXCEPT ![k].pc = "add"]
  <2>1. PICK g : g = WithVersion(hist, d.name, v)
    OBVIOUS
  <2>a. PICK no \in BOOLEAN : no = FALSE
    OBVIOUS
  <2>b. v = WrittenVersion(hist[d.name][x.got], d, x.ns, Last(hist[d.name]).limit, no)
    BY <1>5, <2>a
  <2>c. IndInv /\ k \in Workers /\ x \in WorkerState /\ no \in BOOLEAN /\ d.rv = Len(hist[d.name])
    BY <1>9
  <2>2. /\ d.name \in Quotas /\ v \in VersionState /\ v.lost = FALSE /\ v = u
        /\ v.charged \subseteq ToSet(x.batch) /\ HistInv(g) /\ Grows(hist, g, d.name, v)
    <3>1. x.pc = "write"
      BY <1>7
    <3>2. MadeWell(x, d, g, v, no)
      BY ONLY <1>1, <1>3, <2>1, <2>b, <2>c, <3>1, VersionMade
    <3> QED BY <1>4, <2>a, <3>2 DEF MadeWell
  <2>3. hist' = g
    BY <1>9, <2>1, <2>2 DEF WithVersion
  <2>4. PICK y : y = [x EXCEPT !.pc = "add"]
    OBVIOUS
  <2>5. w' = [w EXCEPT ![k] = y]
    BY <1>1, <1>2, <1>9, <2>4
  <2>6. /\ y \in WorkerState /\ y.pc = "add" /\ y.batch = x.batch /\ y.ns = x.ns
        /\ y.locks = x.locks /\ y.failed = x.failed /\ y.todo = x.todo
        /\ y.docs = x.docs /\ y.writes = x.writes /\ y.got = x.got
    BY ONLY <2>4, x \in WorkerState DEF WorkerState, Pcs
  <2>7. /\ Tail(x.writes) \in Seq(DocState) /\ d \in DocState
        /\ Names(x.writes) = Names(Tail(x.writes)) \cup {d.name}
        /\ Distinct(x.writes) => d.name \notin Names(Tail(x.writes))
        /\ \E j \in 1..Len(x.writes) : d = x.writes[j]
    <3>1. x.writes \in Seq(DocState)
      BY DEF WorkerState
    <3> QED BY <1>3, <1>8, <3>1, TailNames
  <2>8. Distinct(x.writes) /\ d.name \notin x.failed
    BY <1>2, <2>7 DEF WorkerInv, WritesInv
  <2>9. Open(y) \subseteq Open(x) /\ d.name \notin Open(y)
    <3>1. Open(y) = x.failed \cup Names(Tail(x.writes))
      BY <1>8, <2>6 DEF Open
    <3>2. Open(x) = x.failed \cup Names(x.writes)
      BY <1>7, <1>8 DEF Open
    <3> QED BY <2>7, <2>8, <3>1, <3>2
  <2>10. d.name \in Open(x)
    BY <1>7, <1>8, <2>7 DEF Open
  <2>11. \A p \in Open(y) : OnlyLost(g, p, ToSet(x.batch))
    <3> TAKE p \in Open(y)
    <3>1. OnlyLost(hist, p, ToSet(x.batch)) /\ p # d.name
      BY <1>2, <2>9 DEF WorkerInv
    <3>2. p \in Quotas
      <4>1. \A s \in Seq(DocState) : Names(s) \subseteq Quotas
        <5> TAKE s \in Seq(DocState)
        <5>1. \A j \in 1..Len(s) : s[j] \in DocState
          BY ElementOfSeq
        <5> QED BY <5>1 DEF Names, DocState
      <4>2. Names(Tail(x.writes)) \subseteq Quotas /\ x.failed \subseteq Quotas
        BY <2>7, <4>1 DEF WorkerState
      <4> QED BY <1>8, <2>6, <4>2 DEF Open
    <3>3. g[p] = hist[p]
      BY <2>2, <3>1, <3>2 DEF Grows
    <3> QED BY <3>1, <3>3 DEF OnlyLost
  <2>12. PlaceInv(g, y)
    <3>1. d.rv < Len(g[d.name])
      <4>1. Len(g[d.name]) = Len(hist[d.name]) + 1 /\ Len(hist[d.name]) \in Nat
        BY <2>2 DEF Grows
      <4> QED BY <1>9, <4>1
    <3> QED BY <1>2, <1>3, <1>7, <1>8, <2>6, <3>1 DEF WorkerInv, PlaceInv, Reading
  <2>13. DocsInv(g, y) /\ WritesInv(g, y)
    <3>1. \A e : DocInv(hist, e) => DocInv(g, e)
      BY <2>2, DocStays
    <3> QED BY <1>2, <1>7, <2>6, <3>1 DEF WorkerInv, DocsInv, WritesInv, Reading
  <2>14. WorkerInv(g, y)
    BY <2>6, <2>11, <2>12, <2>13 DEF WorkerInv
  <2> QED BY <1>1, <1>7, <2>1, <2>2, <2>3, <2>5, <2>6, <2>14, HistoryGrows DEF Batch, WithVersion
<1>10. CASE /\ d.rv = Len(hist[d.name])
            /\ hist' = [hist EXCEPT ![d.name] = Append(@, z)]
            /\ Written(k, FALSE)
  <2>1. PICK g : g = WithVersion(hist, d.name, z)
    OBVIOUS
  <2>a. PICK yes \in BOOLEAN : yes = TRUE
    OBVIOUS
  <2>b. z = WrittenVersion(hist[d.name][x.got], d, x.ns, Last(hist[d.name]).limit, yes)
    BY <1>6, <2>a
  <2>c. IndInv /\ k \in Workers /\ x \in WorkerState /\ yes \in BOOLEAN /\ d.rv = Len(hist[d.name])
    BY <1>10
  <2>2. /\ d.name \in Quotas /\ z \in VersionState /\ z.lost = TRUE
        /\ z.charged \subseteq ToSet(x.batch) /\ HistInv(g) /\ Grows(hist, g, d.name, z)
    <3>1. x.pc = "write"
      BY <1>7
    <3>2. MadeWell(x, d, g, z, yes)
      BY ONLY <1>1, <1>3, <2>1, <2>b, <2>c, <3>1, VersionMade
    <3> QED BY <2>a, <3>2 DEF MadeWell
  <2>3. hist' = g
    BY <1>10, <2>1 DEF WithVersion
  <2>4. PICK y : y = DoneWrite(x, x.failed \cup {d.name})
    OBVIOUS
  <2>5. w' = [w EXCEPT ![k] = y]
    BY <1>1, <1>2, <1>3, <1>10, <2>4 DEF Written, DoneWrite
  <2>6. WorkerInv(g, x)
    BY <1>2, <2>2, WorkerStays
  <2>7. WorkerInv(g, y) /\ y.batch = x.batch /\ y.pc = "update"
    <3>1. PICK F : F = x.failed \cup {d.name}
      OBVIOUS
    <3>2. x.pc \in {"update", "write"} /\ F = x.failed \cup {Head(x.writes).name}
      BY <1>3, <1>7, <3>1
    <3> QED BY <1>8, <2>4, <2>6, <3>1, <3>2, WriteDone
  <2> QED BY <1>1, <1>7, <2>1, <2>2, <2>3, <2>5, <2>7, HistoryGrows DEF Batch, WithVersion
<1>11. CASE Written(k, FALSE) /\ UNCHANGED hist
  <2>1. UNCHANGED storeVars
    BY <1>7, <1>11 DEF storeVars
  <2> QED BY <1>1, <1>7, <1>8, <1>11, <2>1, SameStore, WrittenStep
<1> QED BY <1>7, <1>9, <1>10, <1>11

-----------------------------------------------------------------------------
(* Begin, Answer, Timeout and Informer.                                      *)

LEMMA IdleIs ==
  /\ Idle \in WorkerState /\ Idle.pc = "idle" /\ Idle.ns = "" /\ Idle.batch = <<>>
  /\ Idle.retries = 0 /\ Idle.failed = {} /\ Idle.locks = {} /\ Idle.todo = {}
  /\ Idle.docs = <<>> /\ Idle.writes = <<>> /\ Idle.q = "" /\ Idle.got = 0
<1>1. PICK a : a = <<>> /\ a \in Seq(Requests)
  BY EmptySeq
<1>2. PICK d : d = <<>> /\ d \in Seq(DocState)
  BY EmptySeq
<1>3. PICK i : i = Idle
  OBVIOUS
<1>4. i = [pc |-> "idle", ns |-> "", batch |-> a, retries |-> 0, failed |-> {},
           locks |-> {}, todo |-> {}, docs |-> d, writes |-> d, q |-> "", got |-> 0]
  BY <1>1, <1>2, <1>3 DEF Idle
<1>5. 0 \in 0..Retries
  BY StatusAssumption
<1>6. /\ i \in WorkerState /\ i.pc = "idle" /\ i.ns = "" /\ i.batch = a
      /\ i.retries = 0 /\ i.failed = {} /\ i.locks = {} /\ i.todo = {}
      /\ i.docs = d /\ i.writes = d /\ i.q = "" /\ i.got = 0
  BY <1>1, <1>2, <1>4, <1>5 DEF WorkerState, Pcs
<1> QED BY <1>1, <1>2, <1>3, <1>6

LEMMA NothingListed == IsInjective(<<>>) /\ ToSet(<<>>) = {}
BY DEF IsInjective, ToSet

\* A worker that has no documents and nothing to write.
LEMMA EmptyWorker ==
  ASSUME NEW h, NEW y \in WorkerState, y.pc \in {"idle", "list"},
         y.pc = "idle" => y.batch = <<>>, y.pc # "idle" => y.ns \in Namespaces,
         IsInjective(y.batch), y.failed = {}, y.locks = {}, y.docs = <<>>, y.writes = <<>>,
         y.pc = "list" => \A q \in Quotas : OnlyLost(h, q, ToSet(y.batch))
  PROVE  WorkerInv(h, y)
<1>1. PlaceInv(h, y)
  BY DEF PlaceInv, Reading
<1>2. DocsInv(h, y) /\ WritesInv(h, y)
  BY NoNames DEF DocsInv, WritesInv, Reading
<1>3. Open(y) = IF y.pc = "idle" THEN {} ELSE Quotas
  BY DEF Open
<1> QED BY <1>1, <1>2, <1>3 DEF WorkerInv

\* A permutation of some of the elements of a finite set.
LEMMA SomeOrder ==
  ASSUME NEW S, IsFiniteSet(S), NEW b \in SetToAllKPermutations(S)
  PROVE  b \in Seq(S) /\ IsInjective(b)
<1>1. PICK s \in SUBSET S : b \in SetToSeqs(s)
  BY DEF SetToAllKPermutations
<1>2. PICK n \in Nat : n = Cardinality(s)
  BY FS_Subset, FS_CardinalityType
<1>3. b \in [1..n -> s] /\ \A i, j \in 1..n : i # j => b[i] # b[j]
  BY <1>1, <1>2 DEF SetToSeqs
<1>4. b \in Seq(S)
  BY <1>1, <1>3
<1>5. DOMAIN b = 1..n
  BY <1>3
<1> QED BY ONLY <1>3, <1>4, <1>5 DEF IsInjective

LEMMA BeginStep ==
  ASSUME IndInv, NEW k \in Workers, Begin(k)
  PROVE  IndInv'
<1> DEFINE New(ns) == {r \in Requests : caller[r] = "new" /\ Attr[r].ns = ns}
<1>a. PICK ns \in Namespaces : \E b \in SetToAllKPermutations(New(ns)) :
        /\ w' = [w EXCEPT ![k] = [Idle EXCEPT !.pc = "list", !.ns = ns,
                                    !.batch = b, !.retries = Retries]]
        /\ caller' = [r \in Requests |->
                        IF r \in ToSet(b) THEN "waiting" ELSE caller[r]]
  BY DEF Begin
<1>1. PICK b \in SetToAllKPermutations(New(ns)) :
        /\ w' = [w EXCEPT ![k] = [Idle EXCEPT !.pc = "list", !.ns = ns,
                                    !.batch = b, !.retries = Retries]]
        /\ caller' = [r \in Requests |->
                        IF r \in ToSet(b) THEN "waiting" ELSE caller[r]]
  BY <1>a
<1>2. UNCHANGED <<storeVars, result>>
  BY DEF Begin
<1>3. b \in Seq(New(ns)) /\ IsInjective(b)
  <2>1. PICK N : N = New(ns)
    OBVIOUS
  <2>2. N \in SUBSET Requests
    BY <2>1
  <2>3. IsFiniteSet(N)
    BY <2>2, StatusAssumption, FS_Subset
  <2>4. b \in SetToAllKPermutations(N)
    BY <2>1
  <2>5. b \in Seq(N) /\ IsInjective(b)
    BY <2>3, <2>4, SomeOrder
  <2> HIDE DEF New
  <2> QED BY <2>1, <2>5
<1>4. b \in Seq(Requests) /\ ToSet(b) \in SUBSET Requests /\ \A r \in ToSet(b) : caller[r] = "new"
  <2>1. ToSet(b) \in SUBSET New(ns)
    BY <1>3, MembersOf
  <2>2. New(ns) \subseteq Requests
    OBVIOUS
  <2>3. b \in Seq(Requests)
    <3> HIDE DEF New
    <3> QED BY <1>3, <2>2
  <2> QED BY <2>1, <2>3
<1> HIDE DEF New
<1>5. PICK i \in WorkerState : i = Idle
  BY IdleIs
<1>6. PICK y : y = [i EXCEPT !.pc = "list", !.ns = ns, !.batch = b, !.retries = Retries]
  OBVIOUS
<1>7. /\ w \in [Workers -> WorkerState] /\ \A l \in Workers : WorkerInv(hist, w[l])
      /\ HistType(hist)
  BY WorkerIs DEF IndInv, WorkersInv
<1>8. w' = [w EXCEPT ![k] = y]
  BY <1>1, <1>5, <1>6
<1>9. /\ y \in WorkerState /\ y.pc = "list" /\ y.ns = ns /\ y.batch = b
      /\ y.failed = i.failed /\ y.locks = i.locks /\ y.docs = i.docs /\ y.writes = i.writes
  <2>1. Retries \in 0..Retries
    BY StatusAssumption
  <2> QED BY <1>4, <1>6, <2>1 DEF WorkerState, Pcs
<1>10. y.failed = {} /\ y.locks = {} /\ y.docs = <<>> /\ y.writes = <<>>
  BY <1>5, <1>9, IdleIs
<1>11. \A q \in Quotas : OnlyLost(hist, q, ToSet(b))
  <2>1. \A q \in Quotas : \A j \in 1..Len(hist[q]) : hist[q][j].charged \cap ToSet(b) = {}
    BY <1>4 DEF IndInv, CallersInv
  <2> QED BY <2>1 DEF OnlyLost
<1>12. WorkerInv(hist, y)
  BY <1>3, <1>9, <1>10, <1>11, EmptyWorker
<1>13. /\ w' \in [Workers -> WorkerState] /\ w'[k] = y
       /\ \A l \in Workers : l # k => w'[l] = w[l]
  BY <1>7, <1>8, <1>9
<1>14. /\ Batch(k)' = ToSet(b)
       /\ \A l \in Workers : l # k => Batch(l)' = Batch(l)
  BY <1>9, <1>13 DEF Batch
<1>15. UNCHANGED <<hist, cache, lru, members, result>>
  BY <1>2 DEF storeVars
<1>16. WorkersInv'
  BY <1>7, <1>12, <1>13, <1>15 DEF WorkersInv
<1>17. CallersInv'
  <2>1. /\ result \in [Requests -> Results] /\ caller \in [Requests -> Answers]
        /\ \A l \in Workers : \A r \in Batch(l) : caller[r] # "new"
        /\ \A l, m \in Workers : l # m => Batch(l) \cap Batch(m) = {}
        /\ \A q \in Quotas : \A j \in 1..Len(hist[q]) :
             \A r \in hist[q][j].charged : caller[r] # "new"
    BY DEF IndInv, CallersInv
  <2>2. caller' \in [Requests -> Answers]
    BY <1>1, <2>1 DEF Answers
  <2>3. \A r \in Requests : caller[r] # "new" \/ r \in ToSet(b) => caller'[r] # "new"
    BY <1>1
  <2>4. \A l \in Workers : Batch(l) \in SUBSET Requests
    BY WorkerIs
  <2>5. \A l \in Workers : \A r \in Batch(l)' : caller'[r] # "new"
    BY <1>4, <1>14, <2>1, <2>3, <2>4
  <2>6. \A l \in Workers : Batch(l) \cap ToSet(b) = {}
    BY <1>4, <2>1
  <2>7. \A l, m \in Workers : l # m => Batch(l)' \cap Batch(m)' = {}
    BY <1>14, <2>1, <2>6
  <2>8. \A q \in Quotas : \A j \in 1..Len(hist[q]) :
             \A r \in hist[q][j].charged : caller'[r] # "new"
    <3> TAKE q \in Quotas
    <3> TAKE j \in 1..Len(hist[q])
    <3>1. hist[q][j].charged \in SUBSET Requests
      BY <1>7, VersionIs
    <3> QED BY <2>1, <2>3, <3>1
  <2> QED BY <1>15, <2>1, <2>2, <2>5, <2>7, <2>8 DEF CallersInv
<1>18. Decided'
  <2>1. \A l \in Workers : w'[l].pc = "answer" => l # k
    BY <1>9, <1>13
  <2> QED BY <1>13, <1>14, <1>15, <2>1 DEF IndInv, Decided
<1> QED BY <1>2, <1>15, <1>16, <1>17, <1>18, SameStore DEF IndInv

\* Nobody becomes new again; the documents and their caches stay.
LEMMA CallersMove ==
  ASSUME IndInv, caller' \in [Requests -> Answers],
         \A r \in Requests : caller[r] # "new" => caller'[r] # "new",
         UNCHANGED <<hist, cache, lru, members, result>>, WorkersInv',
         \A l \in Workers : Batch(l)' \subseteq Batch(l),
         \A l \in Workers : w'[l].pc = "answer" => w[l].pc = "answer"
  PROVE  IndInv'
<1>1. /\ result \in [Requests -> Results] /\ caller \in [Requests -> Answers]
      /\ \A l \in Workers : \A r \in Batch(l) : caller[r] # "new"
      /\ \A l, m \in Workers : l # m => Batch(l) \cap Batch(m) = {}
      /\ \A q \in Quotas : \A j \in 1..Len(hist[q]) :
           \A r \in hist[q][j].charged : caller[r] # "new"
  BY DEF IndInv, CallersInv
<1>2. \A l \in Workers : Batch(l) \in SUBSET Requests
  BY WorkerIs
<1>3. \A l \in Workers : \A r \in Batch(l)' : caller'[r] # "new"
  BY <1>1, <1>2
<1>4. \A l, m \in Workers : l # m => Batch(l)' \cap Batch(m)' = {}
  BY <1>1
<1>5. \A q \in Quotas : \A j \in 1..Len(hist[q]) :
           \A r \in hist[q][j].charged : caller'[r] # "new"
  <2> TAKE q \in Quotas
  <2> TAKE j \in 1..Len(hist[q])
  <2>1. hist[q][j].charged \in SUBSET Requests
    BY VersionIs DEF IndInv, HistInv
  <2> QED BY <1>1, <2>1
<1>6. CallersInv'
  BY <1>1, <1>3, <1>4, <1>5 DEF CallersInv
<1>7. Decided'
  BY DEF IndInv, Decided
<1>8. StoreInv' /\ HistInv(hist)'
  BY DEF IndInv, StoreInv
<1> QED BY <1>6, <1>7, <1>8 DEF IndInv

LEMMA AnswerStep ==
  ASSUME IndInv, NEW k \in Workers, Answer(k)
  PROVE  IndInv'
<1>1. /\ caller' = [r \in Requests |->
                      IF r \in Batch(k) /\ caller[r] = "waiting"
                      THEN IF result[r] = "nil" THEN "admitted" ELSE "refused"
                      ELSE caller[r]]
      /\ w' = [w EXCEPT ![k] = Idle] /\ UNCHANGED <<hist, cache, lru, members, result>>
  BY DEF Answer, storeVars
<1>2. caller \in [Requests -> Answers]
  BY DEF IndInv, CallersInv
<1>3. /\ caller' \in [Requests -> Answers]
      /\ \A r \in Requests : caller[r] # "new" => caller'[r] # "new"
  BY <1>1, <1>2 DEF Answers
<1>4. /\ w \in [Workers -> WorkerState] /\ \A l \in Workers : WorkerInv(hist, w[l])
  BY WorkerIs DEF IndInv, WorkersInv
<1>5. /\ w' \in [Workers -> WorkerState] /\ w'[k] = Idle
      /\ \A l \in Workers : l # k => w'[l] = w[l]
  BY <1>1, <1>4, IdleIs
<1>6. WorkerInv(hist, Idle)
  BY IdleIs, NothingListed, EmptyWorker
<1>7. WorkersInv'
  BY <1>1, <1>4, <1>5, <1>6 DEF WorkersInv
<1>8. \A l \in Workers : Batch(l)' \subseteq Batch(l)
  <2>1. Batch(k)' = {}
    BY <1>5, IdleIs, NothingListed DEF Batch
  <2>2. \A l \in Workers : l # k => Batch(l)' = Batch(l)
    BY <1>5 DEF Batch
  <2> QED BY <2>1, <2>2
<1>9. \A l \in Workers : w'[l].pc = "answer" => w[l].pc = "answer"
  BY <1>5, IdleIs
<1> QED BY <1>1, <1>3, <1>7, <1>8, <1>9, CallersMove

LEMMA TimeoutStep ==
  ASSUME IndInv, NEW r \in Requests, Timeout(r)
  PROVE  IndInv'
<1>1. /\ caller' = [caller EXCEPT ![r] = "timedOut"]
      /\ UNCHANGED <<hist, cache, lru, members, w, result>>
  BY DEF Timeout, storeVars
<1>2. caller \in [Requests -> Answers]
  BY DEF IndInv, CallersInv
<1>3. /\ caller' \in [Requests -> Answers]
      /\ \A s \in Requests : caller[s] # "new" => caller'[s] # "new"
  BY <1>1, <1>2 DEF Answers
<1>4. WorkersInv' /\ \A l \in Workers : Batch(l)' = Batch(l)
  BY <1>1 DEF IndInv, WorkersInv, Batch
<1> QED BY <1>1, <1>3, <1>4, CallersMove

LEMMA InformerStep ==
  ASSUME IndInv, NEW q \in Quotas, Informer(q)
  PROVE  IndInv'
<1>1. /\ cache[q] < Len(hist[q]) /\ cache' = [cache EXCEPT ![q] = @ + 1]
      /\ UNCHANGED <<hist, lru, members, w, result, caller>>
  BY DEF Informer, Current
<1>2. /\ cache \in [Quotas -> Nat] /\ hist[q] \in Seq(VersionState)
      /\ \A p \in Quotas : cache[p] \in 1..Len(hist[p])
  BY DEF IndInv, HistInv, HistType, StoreInv
<1>3. cache[q] \in Nat /\ Len(hist[q]) \in Nat
  BY <1>2, LenProperties
<1>4. cache[q] + 1 \in 1..Len(hist[q]) /\ cache[q] + 1 \in Nat
  BY <1>1, <1>3
<1>5. /\ cache' \in [Quotas -> Nat] /\ cache'[q] = cache[q] + 1
      /\ \A p \in Quotas : p # q => cache'[p] = cache[p]
  BY <1>1, <1>2, <1>4
<1>6. StoreInv'
  BY <1>1, <1>2, <1>4, <1>5 DEF IndInv, StoreInv
<1>7. \A l \in Workers : Batch(l)' = Batch(l)
  BY <1>1 DEF Batch
<1>8. WorkersInv' /\ CallersInv' /\ Decided'
  BY <1>1, <1>7 DEF IndInv, WorkersInv, CallersInv, Decided
<1> QED BY <1>1, <1>6, <1>8 DEF IndInv

-----------------------------------------------------------------------------
(* Check, Lock and Listed.                                                   *)

\* Some of the documents.
LEMMA SomeDocs ==
  ASSUME NEW D \in Seq(DocState), NEW S \in SUBSET (1..Len(D)),
         NEW W, W = Subsequence(D, S)
  PROVE  /\ W \in Seq(DocState)
         /\ \A i \in 1..Len(W) : \E m \in S : W[i] = D[m]
         /\ Distinct(D) => Distinct(W)
<1>1. W \in Seq(DocState) /\ TakenFrom(W, D, S)
  BY SubsequencePlaces
<1>2. PICK a : \A i \in 1..Len(W) :
                 /\ a[i] \in S /\ W[i] = D[a[i]]
                 /\ \A j \in 1..Len(W) : a[i] = a[j] => i = j
  BY <1>1 DEF TakenFrom
<1>3. ASSUME Distinct(D), NEW i \in 1..Len(W), NEW j \in 1..Len(W), W[i].name = W[j].name
      PROVE  i = j
  <2>1. a[i] \in 1..Len(D) /\ a[j] \in 1..Len(D) /\ W[i] = D[a[i]] /\ W[j] = D[a[j]]
    BY <1>2
  <2>2. a[i] = a[j]
    BY <1>3, <2>1 DEF Distinct
  <2> QED BY <1>2, <2>2
<1>4. Distinct(D) => Distinct(W)
  BY <1>3 DEF Distinct
<1> QED BY <1>1, <1>2, <1>4

LEMMA CheckStep ==
  ASSUME IndInv, NEW k \in Workers, Check(k)
  PROVE  IndInv'
<1>1. PICK x \in WorkerState : x = w[k]
  BY WorkerIs
<1>2. /\ WorkerInv(hist, x) /\ HistType(hist) /\ w \in [Workers -> WorkerState]
      /\ result \in [Requests -> Results]
  BY <1>1, WorkerIs
<1>3. PICK st : st = CheckBatch(x.docs, x.batch, result, Attr)
  OBVIOUS
<1>4. PICK D, R : D = st.docs /\ R = st.result
  OBVIOUS
<1>5. x.pc = "check" /\ UNCHANGED <<storeVars, caller>>
  BY <1>1 DEF Check
<1>6. /\ x.docs \in Seq(DocState) /\ Distinct(x.docs) /\ x.batch \in Seq(Requests)
      /\ \A n \in 1..Len(x.docs) : DocInv(hist, x.docs[n]) /\ x.docs[n].charging = {}
      /\ IsInjective(x.batch) /\ x.failed = {} /\ x.locks # {} /\ x.ns \in Namespaces
  BY <1>2, <1>5 DEF WorkerInv, PlaceInv, DocsInv, WorkerState
<1>7. LoopInv(hist, x.docs, result, x.batch, Len(x.batch), st)
  BY <1>2, <1>3, <1>6, BatchChecked
<1>8. /\ R \in [Requests -> Results]
      /\ \A r \in Requests : result[r] # DefaultDeny => R[r] # DefaultDeny
      /\ D \in Seq(DocState) /\ Len(D) = Len(x.docs)
      /\ \A n \in 1..Len(D) : /\ DocInv(hist, D[n]) /\ D[n].name = x.docs[n].name
                              /\ D[n].charging \subseteq {x.batch[j] : j \in 1..Len(x.batch)}
      /\ \A j \in 1..Len(x.batch) : R[x.batch[j]] # DefaultDeny \/ Charging(D)
  BY <1>4, <1>7 DEF LoopInv
<1>9. Distinct(D) /\ Names(D) = Names(x.docs)
  BY <1>6, <1>8 DEF Distinct, Names
<1>10. {x.batch[j] : j \in 1..Len(x.batch)} = ToSet(x.batch)
  BY <1>6, MembersOf
<1>11. PICK changed \in BOOLEAN : changed = \E d \in ToSet(D) : d.charging # {}
  OBVIOUS
<1>12. changed = Charging(D)
  <2>1. /\ \A i \in 1..Len(D) : D[i] \in ToSet(D)
        /\ \A d \in ToSet(D) : \E i \in 1..Len(D) : D[i] = d
    BY <1>8, MembersOf
  <2> QED BY <1>11, <2>1 DEF Charging
<1>13. PICK S : S = {i \in DOMAIN D : NeedsWrite(D[i])}
  OBVIOUS
<1>14. S \in SUBSET (1..Len(D)) /\ \A i \in S : D[i].name \notin Native
  <2>1. DOMAIN D = 1..Len(D)
    BY <1>8, LenProperties
  <2> QED BY <1>13, <2>1 DEF NeedsWrite
<1>15. PICK W : W = Subsequence(D, S)
  OBVIOUS
<1>16. /\ W \in Seq(DocState) /\ Distinct(W)
       /\ \A i \in 1..Len(W) : \E m \in S : W[i] = D[m]
  BY <1>8, <1>9, <1>14, <1>15, SomeDocs
<1>17. PICK to : to = IF changed THEN "update" ELSE "answer"
  OBVIOUS
<1>18. PICK y : y = [x EXCEPT !.pc = to, !.docs = D, !.writes = W]
  OBVIOUS
<1>19. w' = [w EXCEPT ![k] = y] /\ result' = R
  BY <1>1, <1>2, <1>3, <1>4, <1>11, <1>13, <1>15, <1>17, <1>18 DEF Check
<1>20. /\ y \in WorkerState /\ y.pc = to /\ y.batch = x.batch /\ y.ns = x.ns
       /\ y.locks = x.locks /\ y.failed = x.failed /\ y.docs = D /\ y.writes = W
  <2>1. to \in Pcs /\ D \in Seq(DocState) /\ W \in Seq(DocState)
    BY <1>8, <1>16, <1>17 DEF Pcs
  <2> QED BY <1>18, <2>1 DEF WorkerState
<1>21. to = "update" \/ to = "answer"
  BY <1>17
<1>22. PlaceInv(hist, y)
  BY <1>6, <1>20, <1>21 DEF PlaceInv, Reading
<1>23. DocsInv(hist, y)
  BY <1>8, <1>20, <1>21 DEF DocsInv, Reading
<1>24. WritesInv(hist, y)
  <2>1. ASSUME NEW i \in 1..Len(W)
        PROVE  /\ DocInv(hist, W[i]) /\ W[i].charging \subseteq ToSet(x.batch)
               /\ W[i].name \notin Native \cup x.failed
    <3>1. PICK m \in S : W[i] = D[m]
      BY <1>16
    <3> QED BY <1>6, <1>8, <1>10, <1>14, <3>1
  <2> QED BY <1>16, <1>20, <2>1 DEF WritesInv
<1>25. Open(y) \subseteq Open(x)
  <2>1. Open(x) = Names(x.docs)
    BY <1>5, <1>6 DEF Open
  <2>2. Names(W) \subseteq Names(D)
    BY <1>14, <1>16 DEF Names
  <2>3. Open(y) \subseteq Names(W)
    BY <1>6, <1>20, <1>21 DEF Open
  <2> QED BY <1>9, <2>1, <2>2, <2>3
<1>26. WorkerInv(hist, y)
  BY <1>2, <1>20, <1>22, <1>23, <1>24, <1>25 DEF WorkerInv
<1>27. y.pc = "answer" => \A r \in ToSet(y.batch) : R[r] # DefaultDeny
  <2>1. y.pc = "answer" => ~Charging(D)
    BY <1>12, <1>17, <1>20
  <2> QED BY <1>8, <1>10, <1>20, <2>1
<1> QED BY <1>1, <1>5, <1>8, <1>19, <1>20, <1>26, <1>27, SameStore, WorkerMoves

LEMMA LockStep ==
  ASSUME IndInv, NEW k \in Workers, Lock(k)
  PROVE  IndInv'
<1>1. PICK x \in WorkerState : x = w[k]
  BY WorkerIs
<1>2. /\ WorkerInv(hist, x) /\ HistType(hist) /\ w \in [Workers -> WorkerState]
  BY <1>1, WorkerIs
<1> DEFINE names == {d.name : d \in ToSet(w[k].docs)}
           doc(q) == CHOOSE d \in ToSet(w[k].docs) : d.name = q
           S == {i \in DOMAIN ByName : ByName[i] \in names}
           s == Subsequence(ByName, S)
           D == [i \in DOMAIN s |-> doc(s[i])]
<1>0. /\ w[k].pc = "lock" /\ UNCHANGED <<storeVars, result, caller>>
      /\ w' = [w EXCEPT ![k].pc = "check", ![k].locks = names, ![k].docs = D]
  BY DEF Lock
<1>3. names = {d.name : d \in ToSet(x.docs)}
  BY <1>1
<1>18. \A q \in names : doc(q) \in ToSet(x.docs) /\ doc(q).name = q
  BY <1>1
<1> HIDE DEF names, doc
<1>4. S = {i \in DOMAIN ByName : ByName[i] \in names}
  OBVIOUS
<1> HIDE DEF S
<1>5. s = Subsequence(ByName, S)
  OBVIOUS
<1> HIDE DEF s
<1>6. D = [i \in DOMAIN s |-> doc(s[i])]
  OBVIOUS
<1> HIDE DEF D
<1>7. PICK y : y = [x EXCEPT !.pc = "check", !.locks = names, !.docs = D]
  OBVIOUS
<1>8. /\ x.pc = "lock" /\ UNCHANGED <<storeVars, result, caller>>
      /\ w' = [w EXCEPT ![k] = y]
  BY <1>0, <1>1, <1>2, <1>7
<1>9. /\ x.docs \in Seq(DocState) /\ x.docs # <<>>
      /\ \A i \in 1..Len(x.docs) : DocInv(hist, x.docs[i]) /\ x.docs[i].charging = {}
      /\ x.locks = {} /\ x.failed = {} /\ x.writes = <<>> /\ x.ns \in Namespaces
      /\ IsInjective(x.batch)
  BY <1>2, <1>8 DEF WorkerInv, PlaceInv, DocsInv, WorkerState
<1>10. /\ ToSet(x.docs) # {}
       /\ \A d \in ToSet(x.docs) : /\ DocInv(hist, d) /\ d.charging = {} /\ d \in DocState
    BY <1>9, MembersOf
<1>11. names \in SUBSET Quotas /\ names # {}
  BY <1>3, <1>10 DEF DocState
<1>12. S \in SUBSET (1..Len(ByName)) /\ ByName \in Seq(Quotas) /\ IsInjective(ByName)
       /\ DOMAIN ByName = 1..Len(ByName)
  <2>1. ByName \in Seq(Quotas) /\ IsInjective(ByName)
    BY StatusAssumption
  <2> QED BY <1>4, <2>1, LenProperties
<1>13. s \in Seq(Quotas) /\ TakenFrom(s, ByName, S)
  BY <1>5, <1>12, SubsequencePlaces
<1>14. PICK a : \A i \in 1..Len(s) :
                  /\ a[i] \in S /\ s[i] = ByName[a[i]]
                  /\ \A j \in 1..Len(s) : a[i] = a[j] => i = j
  BY <1>13 DEF TakenFrom
<1>15. \A i, j \in 1..Len(s) : s[i] = s[j] => i = j
  <2> SUFFICES ASSUME NEW i \in 1..Len(s), NEW j \in 1..Len(s), s[i] = s[j] PROVE i = j
    OBVIOUS
  <2>1. a[i] \in DOMAIN ByName /\ a[j] \in DOMAIN ByName /\ ByName[a[i]] = ByName[a[j]]
    BY <1>12, <1>14
  <2>2. a[i] = a[j]
    BY <1>12, <2>1 DEF IsInjective
  <2> QED BY <1>14, <2>2
<1>16. \A i \in 1..Len(s) : s[i] \in names
  BY <1>4, <1>14
<1>17. DOMAIN s = 1..Len(s) /\ Len(s) \in Nat
  BY <1>13, LenProperties
<1>19. /\ \A i \in 1..Len(s) : D[i] = doc(s[i]) /\ D[i] \in DocState /\ D[i].name = s[i]
                               /\ DocInv(hist, D[i]) /\ D[i].charging = {}
       /\ D = [i \in 1..Len(s) |-> D[i]]
  BY <1>6, <1>10, <1>16, <1>17, <1>18
<1>20. D \in Seq(DocState) /\ Len(D) = Len(s)
  <2>1. \A i \in 1..Len(s) : D[i] \in DocState
    BY <1>19
  <2>2. PICK n \in Nat : n = Len(s)
    BY <1>17
  <2>3. D = [i \in 1..n |-> D[i]] /\ \A i \in 1..n : D[i] \in DocState
    BY <1>19, <2>1, <2>2
  <2>4. D \in Seq(DocState) /\ Len(D) = n
    BY ONLY n \in Nat, <2>3
  <2> QED BY <2>2, <2>4
<1>21. Distinct(D)
  BY <1>15, <1>19, <1>20 DEF Distinct
<1>22. /\ y \in WorkerState /\ y.pc = "check" /\ y.batch = x.batch /\ y.ns = x.ns
       /\ y.locks = names /\ y.failed = x.failed /\ y.docs = D /\ y.writes = x.writes
  <2>1. names \in SUBSET Quotas /\ D \in Seq(DocState)
    BY <1>11, <1>20
  <2> QED BY ONLY <1>7, <2>1, x \in WorkerState DEF WorkerState, Pcs
<1>23. PlaceInv(hist, y)
  BY <1>9, <1>11, <1>22 DEF PlaceInv, Reading
<1>24. DocsInv(hist, y)
  BY <1>19, <1>20, <1>21, <1>22 DEF DocsInv
<1>25. WritesInv(hist, y)
  BY <1>9, <1>22, NoNames DEF WritesInv
<1>26. Open(y) \subseteq Open(x)
  <2>1. Open(x) = Quotas
    BY <1>8, <1>9 DEF Open
  <2>2. Open(y) = Names(D)
    BY <1>11, <1>22 DEF Open
  <2>3. Names(D) \subseteq Quotas
    BY <1>19, <1>20 DEF Names, DocState
  <2> QED BY <2>1, <2>2, <2>3
<1>27. WorkerInv(hist, y)
  BY <1>2, <1>22, <1>23, <1>24, <1>25, <1>26 DEF WorkerInv
<1> QED BY <1>1, <1>8, <1>22, <1>27, SameStore, SameResults, WorkerMoves

LEMMA FiniteQuotas == IsFiniteSet(Quotas)
<1>1. ByName \in Seq(Quotas) /\ ToSet(ByName) = Quotas
  BY StatusAssumption
<1>2. PICK n \in Nat : n = Len(ByName)
  BY <1>1, LenProperties
<1>3. ByName \in [1..n -> Quotas]
  BY <1>1, <1>2, LenProperties
<1>4. \A q \in Quotas : \E i \in 1..n : ByName[i] = q
  BY <1>1, <1>2, MembersOf
<1>5. ByName \in Surjection(1..n, Quotas)
  BY <1>3, <1>4 DEF Surjection
<1>6. IsFiniteSet(1..n)
  BY FS_Interval
<1> QED BY <1>5, <1>6, FS_Surjection

\* The elements of a finite set in some order.
LEMMA SetInOrder ==
  ASSUME NEW S, IsFiniteSet(S)
  PROVE  SetToSeq(S) \in Seq(S) /\ IsInjective(SetToSeq(S))
<1>1. PICK n \in Nat : n = Cardinality(S) /\ ExistsBijection(1..n, S)
  BY FS_CardinalityType
<1>2. PICK f : f \in [1..n -> S] /\ IsInjective(f)
  BY <1>1 DEF ExistsBijection, Bijection, Injection
<1>3. SetToSeq(S) \in [1..n -> S] /\ IsInjective(SetToSeq(S))
  BY <1>1, <1>2 DEF SetToSeq
<1> QED BY <1>3

\* The documents of the core ResourceQuotas.
LEMMA NativeDocs ==
  ASSUME HistType(hist), NEW ns, NEW N, N = NamespacedResourceQuotas(ns)
  PROVE  /\ N \in Seq(DocState) /\ Distinct(N) /\ Names(N) \subseteq Native
         /\ \A i \in 1..Len(N) : DocInv(hist, N[i]) /\ N[i].charging = {}
<1>1. PICK S : S = {q \in Native : ns \in members[q]}
  OBVIOUS
<1>2. S \in SUBSET Quotas /\ S \subseteq Native /\ IsFiniteSet(S)
  <2>1. S \in SUBSET Quotas /\ S \subseteq Native
    BY <1>1, StatusAssumption
  <2> QED BY <2>1, FiniteQuotas, FS_Subset
<1>3. PICK s : s = SetToSeq(S)
  OBVIOUS
<1>4. s \in Seq(S) /\ IsInjective(s)
  BY <1>2, <1>3, SetInOrder
<1>5. PICK n \in Nat : n = Len(s) /\ DOMAIN s = 1..n
  BY <1>4, LenProperties
<1>6. N = [i \in 1..n |-> Doc(s[i], 1)]
  <2>1. N = [i \in DOMAIN s |-> Doc(s[i], 1)]
    BY <1>1, <1>3 DEF NamespacedResourceQuotas
  <2> QED BY <1>5, <2>1
<1>7. \A i \in 1..n : s[i] \in S
  BY <1>4, <1>5, ElementOfSeq
<1>8. \A i \in 1..n : /\ N[i] \in DocState /\ DocInv(hist, N[i]) /\ N[i].name = s[i]
                      /\ N[i].charging = {}
  <2> TAKE i \in 1..n
  <2>1. s[i] \in Quotas /\ N[i] = Doc(s[i], 1)
    BY <1>2, <1>6, <1>7
  <2>2. hist[s[i]] \in Seq(VersionState) /\ hist[s[i]] # <<>>
    BY <2>1 DEF HistType
  <2>3. PICK m : m = Len(hist[s[i]])
    OBVIOUS
  <2>4. m \in Nat /\ m # 0
    BY <2>2, <2>3, LenProperties, EmptySeq
  <2>5. 1 \in 1..m
    BY ONLY <2>4
  <2> QED BY <2>1, <2>3, <2>5, ReadDoc
<1>9. N \in Seq(DocState) /\ Len(N) = n
  <2>1. N = [i \in 1..n |-> N[i]] /\ \A i \in 1..n : N[i] \in DocState
    BY <1>6, <1>8
  <2> QED BY ONLY n \in Nat, <2>1
<1>10. Distinct(N)
  <2>1. \A i, j \in 1..n : s[i] = s[j] => i = j
    BY <1>4, <1>5 DEF IsInjective
  <2> QED BY <1>8, <1>9, <2>1 DEF Distinct
<1>11. Names(N) \subseteq Native
  BY <1>2, <1>7, <1>8, <1>9 DEF Names
<1> QED BY <1>8, <1>9, <1>10, <1>11

\* Two lists of documents, one after the other.
Joined(s, t) == s \o t
JoinsWell(s, t, u) ==
  /\ u \in Seq(DocState)
  /\ \A i \in 1..Len(u) : \/ \E j \in 1..Len(s) : u[i] = s[j]
                          \/ \E j \in 1..Len(t) : u[i] = t[j]
  /\ /\ Distinct(s) /\ Distinct(t) /\ Names(s) \cap Names(t) = {}
     => Distinct(u)

LEMMA ConcatDocs ==
  ASSUME NEW s \in Seq(DocState), NEW t \in Seq(DocState), NEW u, u = Joined(s, t)
  PROVE  JoinsWell(s, t, u)
<1>1. PICK m \in Nat : m = Len(s)
  BY LenProperties
<1>2. PICK n \in Nat : n = Len(t)
  BY LenProperties
<1>3. /\ u \in Seq(DocState) /\ Len(u) = m + n
      /\ \A i \in 1..(m + n) : u[i] = IF i <= m THEN s[i] ELSE t[i - m]
  BY <1>1, <1>2, ConcatProperties DEF Joined
<1>4. /\ \A i \in 1..(m + n) : IF i <= m THEN i \in 1..m ELSE i - m \in 1..n
      /\ \A i, j \in 1..(m + n) : i - m = j - m => i = j
  BY ONLY m \in Nat, n \in Nat
<1>5. \A i \in 1..(m + n) : \/ \E j \in 1..m : u[i] = s[j]
                            \/ \E j \in 1..n : u[i] = t[j]
  BY ONLY <1>3, <1>4
<1>6. ASSUME Distinct(s), Distinct(t), Names(s) \cap Names(t) = {} PROVE Distinct(u)
  <2>1. /\ \A i, j \in 1..m : s[i].name = s[j].name => i = j
        /\ \A i, j \in 1..n : t[i].name = t[j].name => i = j
    BY <1>1, <1>2, <1>6 DEF Distinct
  <2>2. \A i \in 1..m : \A j \in 1..n : s[i].name # t[j].name
    BY <1>1, <1>2, <1>6 DEF Names
  <2>3. \A i, j \in 1..(m + n) : u[i].name = u[j].name => i = j
    <3> SUFFICES ASSUME NEW i \in 1..(m + n), NEW j \in 1..(m + n), u[i].name = u[j].name
                 PROVE  i = j
      OBVIOUS
    <3>1. CASE i <= m /\ j <= m
      BY ONLY <1>3, <1>4, <2>1, <3>1, u[i].name = u[j].name, i \in 1..(m + n), j \in 1..(m + n)
    <3>2. CASE ~(i <= m) /\ ~(j <= m)
      BY ONLY <1>3, <1>4, <2>1, <3>2, u[i].name = u[j].name, i \in 1..(m + n), j \in 1..(m + n)
    <3>3. CASE i <= m /\ ~(j <= m)
      BY ONLY <1>3, <1>4, <2>2, <3>3, u[i].name = u[j].name, i \in 1..(m + n), j \in 1..(m + n)
    <3>4. CASE ~(i <= m) /\ j <= m
      BY ONLY <1>3, <1>4, <2>2, <3>4, u[i].name = u[j].name, i \in 1..(m + n), j \in 1..(m + n)
    <3> QED BY <3>1, <3>2, <3>3, <3>4
  <2> QED BY <1>3, <2>3 DEF Distinct
<1> QED BY <1>1, <1>2, <1>3, <1>5, <1>6 DEF JoinsWell

LEMMA ListedStep ==
  ASSUME IndInv, NEW k \in Workers, Listed(k)
  PROVE  IndInv'
<1>1. PICK x \in WorkerState : x = w[k]
  BY WorkerIs
<1>2. /\ WorkerInv(hist, x) /\ HistType(hist) /\ w \in [Workers -> WorkerState]
  BY <1>1, WorkerIs
<1>3. x.pc = "fetch" /\ x.todo = {} /\ UNCHANGED <<storeVars, caller>>
  BY <1>1 DEF Listed
<1>4. /\ x.docs \in Seq(DocState) /\ Distinct(x.docs) /\ Names(x.docs) \cap Native = {}
      /\ \A i \in 1..Len(x.docs) : DocInv(hist, x.docs[i]) /\ x.docs[i].charging = {}
      /\ x.writes = <<>> /\ x.ns \in Namespaces /\ IsInjective(x.batch)
      /\ x.failed \in SUBSET Quotas
  BY <1>2, <1>3 DEF WorkerInv, PlaceInv, DocsInv, Reading, WorkerState
<1>5. PICK N : N = NamespacedResourceQuotas(x.ns)
  OBVIOUS
<1>6. /\ N \in Seq(DocState) /\ Distinct(N) /\ Names(N) \subseteq Native
      /\ \A i \in 1..Len(N) : DocInv(hist, N[i]) /\ N[i].charging = {}
  BY <1>2, <1>5, NativeDocs
<1>7. PICK D : D = Joined(x.docs, N)
  OBVIOUS
<1>8. /\ D \in Seq(DocState)
      /\ \A i \in 1..Len(D) : \/ \E j \in 1..Len(x.docs) : D[i] = x.docs[j]
                              \/ \E j \in 1..Len(N) : D[i] = N[j]
      /\ /\ Distinct(x.docs) /\ Distinct(N) /\ Names(x.docs) \cap Names(N) = {}
         => Distinct(D)
  <2>1. x.docs \in Seq(DocState) /\ N \in Seq(DocState)
    BY <1>4, <1>6
  <2>2. JoinsWell(x.docs, N, D)
    BY ONLY <1>7, <2>1, ConcatDocs
  <2> QED BY <2>2 DEF JoinsWell
<1>9. /\ Distinct(D)
      /\ \A i \in 1..Len(D) : DocInv(hist, D[i]) /\ D[i].charging = {}
  <2>1. Names(x.docs) \cap Names(N) = {}
    BY <1>4, <1>6
  <2>2. ASSUME NEW i \in 1..Len(D) PROVE DocInv(hist, D[i]) /\ D[i].charging = {}
    <3>1. CASE \E j \in 1..Len(x.docs) : D[i] = x.docs[j]
      BY <1>4, <3>1
    <3>2. CASE \E j \in 1..Len(N) : D[i] = N[j]
      BY <1>6, <3>2
    <3> QED BY <1>8, <3>1, <3>2
  <2> QED BY <1>4, <1>6, <1>8, <2>1, <2>2
<1>10. PICK S : S = {i \in DOMAIN D : D[i].name \in x.failed}
  OBVIOUS
<1>11. \/ /\ x.locks = {} /\ w' = [w EXCEPT ![k].pc = "answer"]
          /\ result' = [r \in Requests |-> IF r \in Batch(k) THEN "nil" ELSE result[r]]
       \/ /\ D # <<>> /\ x.locks = {}
          /\ w' = [w EXCEPT ![k].pc = "lock", ![k].docs = D] /\ UNCHANGED result
       \/ /\ x.locks # {} /\ UNCHANGED result
          /\ w' = [w EXCEPT ![k].pc = "check", ![k].failed = {},
                            ![k].docs = Subsequence(D, S)]
       \/ GetQuotasFails(k)
  <2>1. D = w[k].docs \o NamespacedResourceQuotas(w[k].ns)
    BY <1>1, <1>5, <1>7 DEF Joined
  <2>2. S = {i \in DOMAIN D : D[i].name \in w[k].failed}
    BY <1>1, <1>10
  <2> QED BY ONLY <1>1, <2>1, <2>2, Listed(k) DEF Listed
<1>12. CASE GetQuotasFails(k)
  BY <1>1, <1>3, <1>12, GetQuotasFailsStep
<1>13. CASE /\ x.locks = {} /\ w' = [w EXCEPT ![k].pc = "answer"]
            /\ result' = [r \in Requests |-> IF r \in Batch(k) THEN "nil" ELSE result[r]]
  <2>1. PICK y : y = [x EXCEPT !.pc = "answer"]
    OBVIOUS
  <2>2. w' = [w EXCEPT ![k] = y]
    BY <1>1, <1>2, <1>13, <2>1
  <2>3. WorkerInv(hist, y) /\ y.batch = x.batch /\ y.pc = "answer"
    BY <1>2, <1>3, <2>1, ToAnswer
  <2>4. /\ result' \in [Requests -> Results]
        /\ \A r \in Requests : result[r] # DefaultDeny => result'[r] # DefaultDeny
        /\ \A r \in Batch(k) : result'[r] # DefaultDeny
    BY <1>13, Marks, Settled
  <2> QED BY <1>1, <1>3, <2>2, <2>3, <2>4, SameStore, WorkerMoves DEF Batch
<1>14. CASE /\ D # <<>> /\ x.locks = {}
            /\ w' = [w EXCEPT ![k].pc = "lock", ![k].docs = D] /\ UNCHANGED result
  <2>1. PICK y : y = [x EXCEPT !.pc = "lock", !.docs = D]
    OBVIOUS
  <2>2. w' = [w EXCEPT ![k] = y]
    BY <1>1, <1>2, <1>14, <2>1
  <2>3. /\ y \in WorkerState /\ y.pc = "lock" /\ y.batch = x.batch /\ y.ns = x.ns
        /\ y.locks = x.locks /\ y.failed = x.failed /\ y.docs = D /\ y.writes = x.writes
    <3>1. D \in Seq(DocState)
      BY <1>8
    <3> QED BY ONLY <2>1, <3>1, x \in WorkerState DEF WorkerState, Pcs
  <2>4. PlaceInv(hist, y)
    <3>1. x.failed = {}
      BY <1>2, <1>14 DEF WorkerInv, PlaceInv
    <3> QED BY <1>4, <1>14, <2>3, <3>1 DEF PlaceInv, Reading
  <2>5. DocsInv(hist, y)
    BY <1>9, <2>3 DEF DocsInv
  <2>6. WritesInv(hist, y)
    BY <1>4, <2>3, NoNames DEF WritesInv
  <2>7. Open(y) = Open(x)
    BY <1>3, <1>14, <2>3 DEF Open
  <2>8. WorkerInv(hist, y)
    BY <1>2, <2>3, <2>4, <2>5, <2>6, <2>7 DEF WorkerInv
  <2> QED BY <1>1, <1>3, <1>14, <2>2, <2>3, <2>8, SameStore, SameResults, WorkerMoves
<1>15. CASE /\ x.locks # {} /\ UNCHANGED result
            /\ w' = [w EXCEPT ![k].pc = "check", ![k].failed = {},
                              ![k].docs = Subsequence(D, S)]
  <2>1. PICK W : W = Subsequence(D, S)
    OBVIOUS
  <2>2. S \in SUBSET (1..Len(D)) /\ \A i \in S : D[i].name \in x.failed
    <3>1. DOMAIN D = 1..Len(D)
      BY <1>8, LenProperties
    <3> QED BY <1>10, <3>1
  <2>3. /\ W \in Seq(DocState) /\ Distinct(W)
        /\ \A i \in 1..Len(W) : \E m \in S : W[i] = D[m]
    BY <1>8, <1>9, <2>1, <2>2, SomeDocs
  <2>4. PICK y : y = [x EXCEPT !.pc = "check", !.failed = {}, !.docs = W]
    OBVIOUS
  <2>5. w' = [w EXCEPT ![k] = y]
    BY <1>1, <1>2, <1>15, <2>1, <2>4
  <2>6. /\ y \in WorkerState /\ y.pc = "check" /\ y.batch = x.batch /\ y.ns = x.ns
        /\ y.locks = x.locks /\ y.failed = {} /\ y.docs = W /\ y.writes = x.writes
    <3>1. W \in Seq(DocState)
      BY <2>3
    <3> QED BY ONLY <2>4, <3>1, x \in WorkerState DEF WorkerState, Pcs
  <2>7. PlaceInv(hist, y)
    BY <1>4, <1>15, <2>6 DEF PlaceInv, Reading
  <2>8. \A i \in 1..Len(W) : /\ DocInv(hist, W[i]) /\ W[i].charging = {}
                             /\ W[i].name \in x.failed
    <3> TAKE i \in 1..Len(W)
    <3>1. PICK m \in S : W[i] = D[m]
      BY <2>3
    <3> QED BY <1>9, <2>2, <3>1
  <2>9. DocsInv(hist, y)
    BY <2>3, <2>6, <2>8 DEF DocsInv
  <2>10. WritesInv(hist, y)
    BY <1>4, <2>6, NoNames DEF WritesInv
  <2>11. Open(y) \subseteq Open(x)
    <3>1. Open(y) = Names(W)
      BY <1>15, <2>6 DEF Open
    <3>2. x.failed \subseteq Open(x)
      BY <1>3, <1>15 DEF Open
    <3> QED BY <2>8, <3>1, <3>2 DEF Names
  <2>12. WorkerInv(hist, y)
    BY <1>2, <2>6, <2>7, <2>9, <2>10, <2>11 DEF WorkerInv
  <2> QED BY <1>1, <1>3, <1>15, <2>5, <2>6, <2>12, SameStore, SameResults, WorkerMoves
<1> QED BY <1>11, <1>12, <1>13, <1>14, <1>15

-----------------------------------------------------------------------------
(* The invariant holds at first and is kept.                                 *)

LEMMA CreatedIs ==
  ASSUME NEW q \in Quotas
  PROVE  /\ Created(q) \in VersionState /\ Created(q).charged = {}
         /\ q \notin Native => SharesInv(Created(q))
<1> DEFINE T == DOMAIN Hard[q] \cap AllTracked
           zero == [n \in T |-> 0]
           hard == IF q \in Fresh THEN Nothing ELSE Hard[q]
           used == IF q \in Fresh THEN Nothing ELSE zero
           none == [ns \in {} |-> Nothing]
           each == [ns \in Members[q] |-> zero]
           byNs == IF q \in Fresh \cup Native THEN none ELSE each
<1>1. Created(q) = [alive |-> TRUE, limit |-> Hard[q], by |-> "create", charged |-> {},
                    lost |-> FALSE, hard |-> hard, used |-> used, byNs |-> byNs]
  BY DEF Created
<1>2. zero \in Usages /\ \A n : At(zero, n) = 0
  <2>1. DOMAIN zero = T /\ zero = [n \in T |-> zero[n]] /\ \A n \in T : zero[n] = 0 /\ zero[n] \in Int
    OBVIOUS
  <2>2. T \in SUBSET AllTracked
    OBVIOUS
  <2> HIDE DEF zero, T
  <2>3. zero \in Usages
    BY <2>1, <2>2, UsageMade
  <2> QED BY <2>1, <2>3 DEF At
<1>3. Nothing \in Usages /\ Nothing \in Limits /\ \A n : At(Nothing, n) = 0
  <2>1. DOMAIN Nothing = {} /\ Nothing = [n \in {} |-> Nothing[n]] /\ \A n \in {} : Nothing[n] \in Int
    BY DEF Nothing
  <2>2. {} \in SUBSET AllTracked
    OBVIOUS
  <2>3. Nothing \in Usages
    BY <2>1, <2>2, UsageMade
  <2>4. IsResourceList(Nothing, STRING)
    BY <2>1 DEF IsResourceList
  <2>5. Nothing \in Limits
    BY <2>4, ListsAre DEF Limits
  <2> QED BY <2>1, <2>3, <2>5 DEF At
<1>4. Hard[q] \in Limits
  <2>1. IsResourceList(Hard[q], STRING)
    BY StatusAssumption
  <2> QED BY <2>1, ListsAre DEF Limits
<1> HIDE DEF zero
<1>5. hard \in Limits /\ used \in Usages /\ \A n : At(used, n) = 0
  BY <1>2, <1>3, <1>4
<1>6. Members[q] \in SUBSET Namespaces
  BY StatusAssumption
<1>7. none \in Shares /\ each \in Shares
  <2>1. none \in [{} -> Usages] /\ each \in [Members[q] -> Usages]
    BY <1>2
  <2>2. {} \in SUBSET Namespaces
    OBVIOUS
  <2> HIDE DEF none, each
  <2> QED BY <1>6, <2>1, <2>2 DEF Shares
<1>8. /\ \A ns \in DOMAIN none : none[ns] = zero
      /\ \A ns \in DOMAIN each : each[ns] = zero
  OBVIOUS
<1> HIDE DEF none, each
<1>9. byNs \in Shares /\ \A ns \in DOMAIN byNs : byNs[ns] = zero
  BY <1>7, <1>8
<1> HIDE DEF hard, used, byNs
<1>10. PICK v : v = Created(q)
  OBVIOUS
<1>11. PICK create \in Writers : create = "create"
  BY DEF Writers
<1>12. v = [alive |-> TRUE, limit |-> Hard[q], by |-> create, charged |-> {},
            lost |-> FALSE, hard |-> hard, used |-> used, byNs |-> byNs]
  BY <1>1, <1>10, <1>11
<1>13. v \in VersionState /\ v.charged = {} /\ v.used = used /\ v.byNs = byNs
  BY ONLY <1>4, <1>5, <1>9, <1>12, create \in Writers DEF VersionState
<1>14. SharesInv(v)
  <2> SUFFICES ASSUME NEW n \in AllTracked PROVE At(used, n) = Total(byNs, n)
    BY <1>13 DEF SharesInv
  <2>1. /\ IsFiniteSet(DOMAIN byNs) /\ \A ns \in DOMAIN byNs : byNs[ns] \in Usages
    BY <1>9, SharesAre
  <2>2. \A ns \in DOMAIN byNs : At(byNs[ns], n) = 0
    BY <1>2, <1>9
  <2>3. Total(byNs, n) = 0
    BY <2>1, <2>2, TotalOf
  <2> QED BY <1>5, <2>3
<1> QED BY <1>10, <1>13, <1>14

LEMMA InitInv == Init => IndInv
<1> SUFFICES ASSUME Init PROVE IndInv
  OBVIOUS
<1>1. /\ hist = [q \in Quotas |-> <<Created(q)>>]
      /\ cache = [q \in Quotas |-> 1] /\ lru = [q \in Quotas |-> 0] /\ members = Members
      /\ w = [k \in Workers |-> Idle]
      /\ result = [r \in Requests |-> DefaultDeny] /\ caller = [r \in Requests |-> "new"]
  BY DEF Init
<1>2. \A q \in Quotas : /\ hist[q] \in Seq(VersionState) /\ Len(hist[q]) = 1
                        /\ hist[q][1] = Created(q) /\ hist[q] # <<>>
  <2> TAKE q \in Quotas
  <2>1. PICK v \in VersionState : v = Created(q)
    BY CreatedIs
  <2>2. hist[q] = <<v>>
    BY <1>1, <2>1
  <2>3. <<v>> \in Seq(VersionState) /\ Len(<<v>>) = 1 /\ <<v>>[1] = v /\ <<v>> # <<>>
    BY ONLY v \in VersionState
  <2> QED BY <2>1, <2>2, <2>3
<1>3. hist = [q \in Quotas |-> hist[q]]
  BY <1>1
<1>4. HistType(hist)
  <2>1. hist \in [Quotas -> Seq(VersionState)]
    BY <1>2, <1>3
  <2> QED BY <1>2, <2>1 DEF HistType
<1>5. \A i \in 1..1 : i = 1 /\ ~(i > 1)
  OBVIOUS
<1>6. ASSUME NEW q \in Quotas, NEW i \in 1..Len(hist[q])
      PROVE  i = 1 /\ ~(i > 1) /\ hist[q][i] = Created(q)
  BY <1>2, <1>5
<1>7. HistInv(hist)
  <2>1. \A q \in Quotas : q \notin Native => SharesInv(Created(q))
    BY CreatedIs
  <2>2. ASSUME NEW q \in Quotas, NEW i \in 1..Len(hist[q]), NEW j \in 1..Len(hist[q])
        PROVE  ~(i < j)
    BY <1>6
  <2> QED BY <1>4, <1>6, <2>1, <2>2 DEF HistInv
<1>8. StoreInv
  <2>1. cache \in [Quotas -> Nat] /\ lru \in [Quotas -> Nat]
    BY <1>1
  <2>2. \A q \in Quotas : cache[q] \in 1..Len(hist[q]) /\ lru[q] \in 0..Len(hist[q])
    BY <1>1, <1>2
  <2>3. members \in [Quotas -> SUBSET Namespaces]
    BY <1>1, StatusAssumption
  <2> QED BY <2>1, <2>2, <2>3 DEF StoreInv
<1>9. \A k \in Workers : w[k] = Idle /\ Batch(k) = {}
  BY <1>1, IdleIs, NothingListed DEF Batch
<1>10. WorkersInv
  <2>1. WorkerInv(hist, Idle)
    BY IdleIs, NothingListed, EmptyWorker
  <2>2. w \in [Workers -> WorkerState]
    BY <1>1, IdleIs
  <2> QED BY <1>9, <2>1, <2>2 DEF WorkersInv
<1>11. CallersInv
  <2>1. result \in [Requests -> Results] /\ caller \in [Requests -> Answers]
    BY <1>1 DEF Results, Answers
  <2>2. \A q \in Quotas : \A i \in 1..Len(hist[q]) : hist[q][i].charged = {}
    BY <1>6, CreatedIs
  <2> QED BY <1>9, <2>1, <2>2 DEF CallersInv
<1>12. Decided
  BY <1>9, IdleIs DEF Decided
<1> QED BY <1>7, <1>8, <1>10, <1>11, <1>12 DEF IndInv

LEMMA NextInv == IndInv /\ [Next]_vars => IndInv'
<1> SUFFICES ASSUME IndInv, [Next]_vars PROVE IndInv'
  OBVIOUS
<1>1. ASSUME NEW k \in Workers, Begin(k) \/ Lock(k) \/ WorkerStep(k) PROVE IndInv'
  BY <1>1, BeginStep, LockStep, ListNamesStep, FetchStep, CheckCacheStep, EvictStep,
     ListedStep, CheckStep, UpdateReadStep, WriteStep, CacheAddStep, DecideStep,
     AnswerStep DEF WorkerStep
<1>2. CASE UNCHANGED vars
  <2>1. UNCHANGED <<hist, cache, lru, members, w, result, caller>>
    BY <1>2 DEF vars, storeVars
  <2>2. \A l \in Workers : Batch(l)' = Batch(l)
    BY <2>1 DEF Batch
  <2> QED BY <2>1, <2>2 DEF IndInv, StoreInv, WorkersInv, CallersInv, Decided
<1> QED BY <1>1, <1>2, TimeoutStep, InformerStep DEF Next

-----------------------------------------------------------------------------
(* What the invariant says of the documents and the answers.                 *)

LEMMA IndImplies ==
  ASSUME IndInv
  PROVE  TotalIsSum /\ ExactCharges /\ AdmissionFits /\ ChargeOnce
<1>1. HistInv(hist) /\ HistType(hist)
  BY DEF IndInv, HistInv
<1>2. TotalIsSum
  BY <1>1 DEF TotalIsSum, Current, HistInv, SharesInv
<1>3. ASSUME NEW q \in Quotas, NEW i \in Versions(q)
      PROVE  /\ i \in 1..Len(hist[q]) /\ i > 1 /\ i - 1 \in 1..Len(hist[q])
             /\ ChargeInv(hist[q][i - 1], hist[q][i])
             /\ \A r \in Requests : Added(q, i, r) = Gain(hist[q][i - 1].hard, r)
             /\ hist[q][i].charged \in SUBSET Requests
  <2>1. hist[q] \in Seq(VersionState)
    BY <1>1 DEF HistType
  <2>2. PICK n \in Nat : n = Len(hist[q])
    BY <2>1, LenProperties
  <2>3. i \in 2..n
    BY <2>2 DEF Versions, Current
  <2>4. i \in 1..n /\ i > 1 /\ i - 1 \in 1..n
    BY <2>3
  <2>5. ChargeInv(hist[q][i - 1], hist[q][i])
    BY <1>1, <2>2, <2>4 DEF HistInv
  <2>6. hist[q][i].charged \in SUBSET Requests
    BY <1>1, <2>2, <2>4, VersionIs
  <2> QED BY <2>2, <2>4, <2>5, <2>6 DEF Added, Gain
<1>4. ExactCharges
  <2> SUFFICES ASSUME NEW q \in Quotas, NEW i \in Versions(q), hist[q][i].by = "admit",
                      NEW n \in AllTracked
               PROVE  At(hist[q][i].used, n) = At(hist[q][i - 1].used, n)
                        + Total([r \in hist[q][i].charged |-> Added(q, i, r)], n)
    BY DEF ExactCharges
  <2>1. ExactUsage(hist[q][i].used, hist[q][i - 1].used, hist[q][i - 1].hard,
                   hist[q][i].charged)
    BY <1>3 DEF ChargeInv
  <2>2. At(hist[q][i].used, n) = At(hist[q][i - 1].used, n)
          + Total([r \in hist[q][i].charged |-> Gain(hist[q][i - 1].hard, r)], n)
    BY <2>1 DEF ExactUsage
  <2>3. [r \in hist[q][i].charged |-> Gain(hist[q][i - 1].hard, r)]
          = [r \in hist[q][i].charged |-> Added(q, i, r)]
    BY <1>3
  <2> QED BY <2>2, <2>3
<1>5. AdmissionFits
  <2> SUFFICES ASSUME NEW q \in Quotas, NEW i \in Versions(q), hist[q][i].by = "admit",
                      NEW r \in hist[q][i].charged, NEW n \in DOMAIN Added(q, i, r)
               PROVE  hist[q][i].used[n] <= hist[q][i - 1].hard[n]
    BY DEF AdmissionFits
  <2>1. WithinLimits(hist[q][i].used, hist[q][i - 1].hard, hist[q][i].charged)
    BY <1>3 DEF ChargeInv
  <2>2. n \in DOMAIN Gain(hist[q][i - 1].hard, r)
    BY <1>3
  <2> QED BY <2>1, <2>2 DEF WithinLimits
<1>6. ChargeOnce
  BY <1>1, <1>3 DEF ChargeOnce, HistInv
<1> QED BY <1>2, <1>4, <1>5, <1>6

LEMMA IndTypes ==
  ASSUME IndInv
  PROVE  TypeOK
<1>1. HistType(hist) /\ StoreInv
  BY DEF IndInv, HistInv
<1>2. ASSUME NEW q \in Quotas
      PROVE  /\ cache[q] \in 1..Current(q) /\ lru[q] \in 0..Current(q)
             /\ members[q] \subseteq Namespaces
             /\ \A i \in 1..Current(q) :
                  /\ IsResourceList(hist[q][i].used, AllTracked)
                  /\ DOMAIN hist[q][i].byNs \subseteq Namespaces
                  /\ hist[q][i].charged \subseteq Requests
  <2>1. ASSUME NEW i \in 1..Len(hist[q])
        PROVE  /\ IsResourceList(hist[q][i].used, AllTracked)
               /\ DOMAIN hist[q][i].byNs \subseteq Namespaces
               /\ hist[q][i].charged \subseteq Requests
    <3>1. /\ hist[q][i].used \in Usages /\ hist[q][i].byNs \in Shares
          /\ hist[q][i].charged \in SUBSET Requests
      BY <1>1, VersionIs
    <3> QED BY <3>1, ListsAre, SharesAre DEF Usages
  <2> QED BY <1>1, <2>1 DEF StoreInv, Current
<1>3. ASSUME NEW k \in Workers
      PROVE  /\ w[k].pc \in Pcs /\ Batch(k) \subseteq Requests
             /\ w[k].retries \in 0..Retries
             /\ w[k].locks \subseteq Quotas /\ w[k].failed \subseteq Quotas
             /\ \A d \in ToSet(w[k].docs) : d.rv \in 1..Current(d.name)
  <2>1. w[k] \in WorkerState /\ WorkerInv(hist, w[k]) /\ Batch(k) \in SUBSET Requests
    BY WorkerIs
  <2>2. w[k].docs \in Seq(DocState) /\ \A i \in 1..Len(w[k].docs) : DocInv(hist, w[k].docs[i])
    BY <2>1 DEF WorkerInv, DocsInv, WorkerState
  <2>3. \A d \in ToSet(w[k].docs) : DocInv(hist, d)
    BY <2>2, MembersOf
  <2>4. \A d \in ToSet(w[k].docs) : d.rv \in 1..Current(d.name)
    BY <2>3 DEF DocInv, Current
  <2> QED BY <2>1, <2>4 DEF WorkerState
<1>4. \A r \in Requests : /\ result[r] \in {DefaultDeny, "nil", "denied", "failed"}
                          /\ caller[r] \in {"new", "waiting", "timedOut", "admitted", "refused"}
  BY DEF IndInv, CallersInv, Results, Answers
<1> QED BY <1>2, <1>3, <1>4 DEF TypeOK

\* IndInv is an invariant of the evaluator's charging, whatever the documents,
\* the requests, the faults and the number of retries are.
THEOREM StatusInvariant == Spec => []IndInv
<1> QED BY InitInv, NextInv, PTL DEF Spec

\* The types: every version a cache holds or a worker works from exists.
THEOREM StatusTypes == Spec => []TypeOK
<1>1. IndInv => TypeOK
  BY IndTypes
<1> QED BY <1>1, StatusInvariant, PTL

\* UpdateQuotaStatus keeps the total the sum of the namespaces' shares.
THEOREM TotalsAreSums == Spec => []TotalIsSum
<1>1. IndInv => TotalIsSum
  BY IndImplies
<1> QED BY <1>1, StatusInvariant, PTL

\* A status update adds exactly the usage of the requests it is made for to
\* the version it replaces.
THEOREM ChargesAreExact == Spec => []ExactCharges
<1>1. IndInv => ExactCharges
  BY IndImplies
<1> QED BY <1>1, StatusInvariant, PTL

\* No status update of the evaluator takes a resource it charges beyond the
\* limit of the version it replaces.
THEOREM AdmissionsFit == Spec => []AdmissionFits
<1>1. IndInv => AdmissionFits
  BY IndImplies
<1> QED BY <1>1, StatusInvariant, PTL

\* The retries of checkQuotas charge a request to a document again only after
\* the answer to a write that charged it was lost.
THEOREM ChargedOnce == Spec => []ChargeOnce
<1>1. IndInv => ChargeOnce
  BY IndImplies
<1> QED BY <1>1, StatusInvariant, PTL

\* No way out of checkAttributes leaves a waiter with the default deny.
THEOREM EveryoneDecided == Spec => []Decided
<1>1. IndInv => Decided
  BY DEF IndInv
<1> QED BY <1>1, StatusInvariant, PTL

-----------------------------------------------------------------------------
(* That an admitted request was charged everywhere needs more: every cluster *)
(* quota has its status, and a request adds to all the cluster quotas of its *)
(* namespace or to none.  Without that a request that one quota denied is    *)
(* admitted by a retry against others (run status_apart).                    *)

CountedAlike ==
  /\ Fresh = {}
  /\ \A r \in Requests : \A p, q \in Quotas \ Native :
       Attr[r].ns \in Members[p] /\ ~IsZero(Delta(q, r)) => ~IsZero(Delta(p, r))

\* Request r has to be charged to q before it is admitted.
Owes(q, r) == q \in Quotas \ Native /\ ~Attr[r].dryRun /\ ~IsZero(Delta(q, r))

HasCharge(h, q, r) == \E i \in 1..Len(h[q]) : i > 1 /\ r \in h[q][i].charged

\* The request takes nothing away.
Growing(r) == \A n \in AllTracked : At(DeltaUsage(Attr[r]), n) >= 0

Selecting(ns) == {q \in Quotas \ Native : ns \in Members[q]}

\* Without the controller and users, documents stay, keep their limits, start
\* without any usage and are written by the evaluator alone.
VersionsInv(h) ==
  \A q \in Quotas : \A i \in 1..Len(h[q]) :
    /\ h[q][i].alive /\ h[q][i].hard = Hard[q]
    /\ \A r \in h[q][i].charged : Growing(r)
    /\ IF i = 1 THEN \A n : At(h[q][i].used, n) = 0 ELSE h[q][i].by = "admit"

\* GetQuotas finds all the quotas that select the namespace, a retry those
\* that failed.
ListInv(x) ==
  /\ \A r \in ToSet(x.batch) : Attr[r].ns = x.ns
  /\ x.failed \subseteq Selecting(x.ns) /\ Names(x.writes) \subseteq Selecting(x.ns)
  /\ \A i \in 1..Len(x.writes) : \A r \in x.writes[i].charging : Growing(r)
  /\ Reading(x) \/ x.pc \in {"lock", "check"} =>
       \A i \in 1..Len(x.docs) : /\ x.docs[i].name \in Native \cup Selecting(x.ns)
                                 /\ x.docs[i].scopes = Scopes[x.docs[i].name]
  /\ Reading(x) => /\ x.todo \subseteq Selecting(x.ns)
                   /\ Selecting(x.ns) \subseteq Names(x.docs) \cup x.todo
  /\ x.pc = "lock" => Selecting(x.ns) \subseteq Names(x.docs)
  /\ x.pc = "check" /\ Selecting(x.ns) # {} => Names(x.docs) \cap Selecting(x.ns) # {}
  /\ x.locks # {} /\ (x.pc = "list" \/ Reading(x)) => x.failed # {}

\* What a request without a decision owes can still be charged, or was.
OwedInv(h, res, x) ==
  \A r \in ToSet(x.batch) : res[r] = DefaultDeny =>
    /\ \A q \in Quotas : Owes(q, r) => q \in Open(x) \/ HasCharge(h, q, r)
    /\ \A i \in 1..Len(x.writes) :
         Owes(x.writes[i].name, r) => r \in x.writes[i].charging

AnswersInv ==
  \A r \in Requests : \A q \in Quotas :
    Owes(q, r) /\ (result[r] = "nil" \/ caller[r] = "admitted") => HasCharge(hist, q, r)

DueInv ==
  /\ members = Members /\ VersionsInv(hist) /\ AnswersInv
  /\ \A k \in Workers : ListInv(w[k]) /\ OwedInv(hist, result, w[k])

\* What a request that owes q is.
LEMMA OwesWhat ==
  ASSUME NEW q, NEW r \in Requests, Owes(q, r)
  PROVE  /\ q \in Selecting(Attr[r].ns) /\ q \in Quotas
         /\ Handles(Attr[r]) /\ ~Attr[r].dryRun /\ ~IsZero(DeltaUsage(Attr[r]))
         /\ MatchingResources(Attr[r], DOMAIN Hard[q]) # {}
         /\ Scopes[q] \subseteq Attr[r].scopes
         /\ \E n \in AllTracked : At(Gain(Hard[q], r), n) # 0
<1>1. q \in Quotas \ Native /\ ~Attr[r].dryRun /\ ~IsZero(Delta(q, r))
  BY DEF Owes
<1>2. IsZero(Nothing)
  BY DEF IsZero, Nothing
<1>3. Counts(q, r) /\ Delta(q, r) = Mask(DeltaUsage(Attr[r]), DOMAIN Hard[q])
  BY <1>1, <1>2 DEF Delta
<1>4. PICK g \in Usages : g = Gain(Hard[q], r) /\ ~IsZero(g)
  BY <1>1, <1>3, Gains DEF Gain
<1>5. PICK n \in DOMAIN g : g[n] # 0
  BY <1>4 DEF IsZero
<1>6. n \in AllTracked /\ At(g, n) # 0
  BY <1>5, UsageIs DEF At
<1>7. PICK u : u = DeltaUsage(Attr[r])
  OBVIOUS
<1>8. ~IsZero(u)
  <2>1. n \in DOMAIN u /\ u[n] = g[n]
    BY <1>4, <1>5, <1>7 DEF Gain, Mask
  <2> QED BY <1>5, <2>1 DEF IsZero
<1>9. /\ Attr[r].ns \in Members[q] /\ Handles(Attr[r])
      /\ MatchingResources(Attr[r], DOMAIN Hard[q]) # {} /\ Scopes[q] \subseteq Attr[r].scopes
  <2>1. PICK d : d = [hard |-> Hard[q], scopes |-> Scopes[q]]
    OBVIOUS
  <2>2. d.hard = Hard[q] /\ d.scopes = Scopes[q]
    BY <2>1
  <2>3. Attr[r].ns \in Members[q] /\ Handles(Attr[r]) /\ Matches(d, Attr[r])
    BY <1>3, <2>1 DEF Counts
  <2> QED BY <2>2, <2>3 DEF Matches
<1> QED BY <1>1, <1>4, <1>6, <1>7, <1>8, <1>9 DEF Selecting

\* It changes a document it owes.
LEMMA DueDoc ==
  ASSUME NEW ds \in Seq(DocState), NEW n \in 1..Len(ds), NEW r \in Requests,
         ds[n].hard = Hard[ds[n].name], ds[n].scopes = Scopes[ds[n].name],
         Owes(ds[n].name, r)
  PROVE  ~Equals(ds[n].used, CheckRequest(ds, Attr[r])[n].used)
<1>1. PICK d \in DocState : d = ds[n]
  BY ElementOfSeq
<1>2. PICK a : a = Attr[r]
  OBVIOUS
<1>3. PICK g \in Usages : g = Gain(d.hard, r)
  BY Gains
<1>4. Handles(a) /\ ~IsZero(DeltaUsage(a)) /\ Matches(d, a)
  BY <1>1, <1>2, OwesWhat DEF Matches
<1>5. PICK u : u = NewUsage(d, a)
  OBVIOUS
<1>6. u = Add(d.used, g)
  BY <1>2, <1>3, <1>5 DEF NewUsage, Gain
<1>7. d.used \in Usages
  BY DEF DocState
<1>8. u \in Usages /\ \A m : At(u, m) = At(d.used, m) + At(g, m)
  BY <1>6, <1>7, Sums DEF IsSumOf
<1>9. PICK m \in AllTracked : At(g, m) # 0
  BY <1>1, <1>3, OwesWhat
<1>10. At(u, m) # At(d.used, m)
  <2>1. At(u, m) \in Int /\ At(d.used, m) \in Int /\ At(g, m) \in Int
    BY <1>7, <1>8, UsageIs
  <2> QED BY <1>8, <1>9, <2>1
<1>11. u # d.used
  BY <1>10
<1>12. ~Equals(d.used, u)
  BY <1>7, <1>8, <1>11, EqualLists
<1>13. n \in DOMAIN ds
  OBVIOUS
<1>14. CheckRequest(ds, a)[n] = [d EXCEPT !.used = u]
  BY <1>1, <1>4, <1>5, <1>13 DEF CheckRequest
<1>15. CheckRequest(ds, a)[n].used = u
  BY <1>14 DEF DocState
<1> QED BY <1>1, <1>2, <1>12, <1>15

\* An evaluator that is not negative about a request has nothing taken away.
LEMMA NotRefused ==
  ASSUME NEW ds, NEW r \in Requests, Handles(Attr[r]), ~Refuses(ds, Attr[r])
  PROVE  Growing(r)
<1>1. PICK a : a = Attr[r].usage
  OBVIOUS
<1>2. PICK b : b = Attr[r].old
  OBVIOUS
<1>3. a \in Usages /\ b \in Usages
  BY <1>1, <1>2, StatusAssumption, ListsAre DEF Usages
<1>4. IsNegative(a) = {}
  BY <1>1 DEF Refuses
<1>5. \A n \in DOMAIN a : a[n] \in Int /\ a[n] >= 0
  BY <1>3, <1>4, UsageIs DEF IsNegative
<1>6. PICK c : c = SubtractWithNonNegativeResult(a, b)
  OBVIOUS
<1>7. \A n \in DOMAIN c : c[n] >= 0
  <2>1. \A n : At(b, n) \in Int
    BY <1>3, UsageIs
  <2>2. DOMAIN c = DOMAIN a \cup DOMAIN b
    BY <1>6 DEF SubtractWithNonNegativeResult
  <2> TAKE n \in DOMAIN c
  <2>3. c[n] = IF n \in DOMAIN a /\ a[n] > At(b, n) THEN a[n] - At(b, n) ELSE 0
    BY <1>6, <2>2 DEF SubtractWithNonNegativeResult
  <2> QED BY <1>5, <2>1, <2>3
<1>8. DeltaUsage(Attr[r]) = a \/ DeltaUsage(Attr[r]) = c
  BY <1>1, <1>2, <1>6 DEF DeltaUsage
<1>9. \A n \in DOMAIN DeltaUsage(Attr[r]) : DeltaUsage(Attr[r])[n] >= 0
  BY <1>5, <1>7, <1>8
<1>10. PICK u : u = DeltaUsage(Attr[r])
  OBVIOUS
<1>11. \A n \in AllTracked : At(u, n) >= 0
  BY <1>9, <1>10 DEF At
<1> QED BY <1>10, <1>11 DEF Growing

-----------------------------------------------------------------------------
(* checkQuotas, the loop over the waiters, again.                            *)

\* After waiters 1..i of batch b: who owes a document is charged to it, or denied.
DueLoop(ds, res, b, i, st) ==
  /\ \A n \in 1..Len(ds) : /\ st.docs[n].scopes = ds[n].scopes
                           /\ \A r \in st.docs[n].charging : Growing(r)
  /\ \A r \in Requests : r \notin {b[j] : j \in 1..i} => st.result[r] = res[r]
  /\ \A j \in 1..i : \A n \in 1..Len(ds) : Owes(ds[n].name, b[j]) =>
       /\ st.result[b[j]] = DefaultDeny => b[j] \in st.docs[n].charging
       /\ st.result[b[j]] = "nil" => res[b[j]] = "nil"

\* What one iteration leaves of a document.
KeptWell(ds, r, n) ==
  LET e == CheckedDoc(ds, r, n)
      same == Equals(ds[n].used, CheckRequest(ds, Attr[r])[n].used)
  IN  /\ e.scopes = ds[n].scopes
      /\ e.charging = IF same THEN ds[n].charging ELSE ds[n].charging \cup {r}
      /\ ~same => Handles(Attr[r])

LEMMA CheckedKeeps ==
  ASSUME NEW ds \in Seq(DocState), NEW n \in 1..Len(ds), NEW r \in Requests
  PROVE  KeptWell(ds, r, n)
<1>0. PICK e : e = CheckedDoc(ds, r, n)
  OBVIOUS
<1>1. PICK d \in DocState : d = ds[n]
  BY ElementOfSeq
<1>2. PICK a : a = Attr[r]
  OBVIOUS
<1>3. PICK u : u = NewUsage(d, a)
  OBVIOUS
<1>5. n \in DOMAIN ds
  OBVIOUS
<1>6. PICK c : c = CheckRequest(ds, a)[n]
  OBVIOUS
<1>7. c = IF Handles(a) /\ ~IsZero(DeltaUsage(a)) /\ Matches(d, a)
          THEN [d EXCEPT !.used = u] ELSE d
  BY <1>1, <1>3, <1>5, <1>6 DEF CheckRequest
<1>8. /\ c.scopes = d.scopes /\ c.charging = d.charging
      /\ c = [name |-> c.name, rv |-> c.rv, hard |-> c.hard, used |-> c.used,
              scopes |-> c.scopes, charging |-> c.charging]
  BY <1>7 DEF DocState
<1>9. ~Equals(d.used, c.used) => Handles(a)
  <2> SUFFICES ASSUME ~Handles(a) PROVE Equals(d.used, c.used)
    OBVIOUS
  <2>1. c = d
    BY <1>7
  <2> QED BY <2>1 DEF Equals
<1>10. e = IF ~Equals(d.used, c.used) THEN [c EXCEPT !.charging = @ \cup {r}] ELSE c
  BY <1>0, <1>1, <1>2, <1>6 DEF CheckedDoc
<1>11. /\ e.scopes = d.scopes
       /\ e.charging = IF Equals(d.used, c.used) THEN d.charging ELSE d.charging \cup {r}
  BY <1>8, <1>10
<1> QED BY <1>0, <1>1, <1>2, <1>6, <1>9, <1>11 DEF KeptWell

LEMMA WaiterDue ==
  ASSUME NEW h, VersionsInv(h), NEW ds \in Seq(DocState), NEW res,
         NEW b \in Seq(Requests), IsInjective(b), NEW i \in 1..Len(b), NEW st,
         LoopInv(h, ds, res, b, i - 1, st), DueLoop(ds, res, b, i - 1, st),
         \A n \in 1..Len(ds) : ds[n].scopes = Scopes[ds[n].name]
  PROVE  DueLoop(ds, res, b, i, CheckWaiter(st, b[i], Attr[b[i]]))
<1>1. PICK D, R : st = [docs |-> D, result |-> R]
  BY DEF LoopInv
<1>2. PICK r \in Requests : r = b[i]
  BY ElementOfSeq
<1>3. PICK x : x = CheckWaiter(st, r, Attr[r])
  OBVIOUS
<1>4. /\ R \in [Requests -> Results] /\ D \in Seq(DocState) /\ Len(D) = Len(ds)
      /\ \A n \in 1..Len(ds) : DocInv(h, D[n]) /\ D[n].name = ds[n].name
      /\ \A n \in 1..Len(ds) : /\ D[n].scopes = ds[n].scopes
                               /\ \A s \in D[n].charging : Growing(s)
      /\ \A s \in Requests : s \notin {b[j] : j \in 1..(i - 1)} => R[s] = res[s]
      /\ \A j \in 1..(i - 1) : \A n \in 1..Len(ds) : Owes(ds[n].name, b[j]) =>
           /\ R[b[j]] = DefaultDeny => b[j] \in D[n].charging
           /\ R[b[j]] = "nil" => res[b[j]] = "nil"
  BY <1>1 DEF LoopInv, DueLoop
<1>5. /\ i \in Nat /\ i \in 1..i /\ \A j \in 1..i : j = i \/ j \in 1..(i - 1)
      /\ \A j \in 1..(i - 1) : j \in 1..i
      /\ \A j \in 1..i : j \in 1..Len(b)
  <2>1. Len(b) \in Nat
    BY LenProperties
  <2> QED BY <2>1
<1>6. \A j \in 1..(i - 1) : b[j] # r
  <2>1. DOMAIN b = 1..Len(b) /\ Len(b) \in Nat
    BY LenProperties
  <2> QED BY <1>2, <2>1 DEF IsInjective
<1>7. \A j \in 1..i : b[j] \in Requests
  BY <1>5, ElementOfSeq
<1>8. \A s \in Requests : s \notin {b[j] : j \in 1..i} =>
                            s \notin {b[j] : j \in 1..(i - 1)} /\ s # r
  BY <1>2, <1>5
<1>a. r \notin {b[j] : j \in 1..(i - 1)}
  BY <1>6
\* The result of waiter r is set to v, which is right, and the documents stay.
<1>9. ASSUME NEW v \in Results, v # DefaultDeny, v # "nil" \/ Attr[r].dryRun,
             x = [docs |-> D, result |-> [R EXCEPT ![r] = v]]
      PROVE  DueLoop(ds, res, b, i, x)
  <2>1. PICK Q : Q = [R EXCEPT ![r] = v]
    OBVIOUS
  <2>2. Q[r] = v /\ \A y \in Requests : y # r => Q[y] = R[y]
    BY <1>4, <2>1
  <2>3. x.docs = D /\ x.result = Q
    BY <1>9, <2>1
  <2>4. \A s \in Requests : s \notin {b[j] : j \in 1..i} => Q[s] = res[s]
    BY <1>4, <1>8, <2>2
  <2>5. ASSUME NEW j \in 1..i, NEW n \in 1..Len(ds), Owes(ds[n].name, b[j])
        PROVE  /\ Q[b[j]] = DefaultDeny => b[j] \in D[n].charging
               /\ Q[b[j]] = "nil" => res[b[j]] = "nil"
    <3>1. CASE j = i
      <4>1. b[j] = r
        BY <1>2, <3>1
      <4>2. ~Attr[r].dryRun
        BY <2>5, <4>1 DEF Owes
      <4> QED BY <1>9, <2>2, <4>1, <4>2
    <3>2. CASE j \in 1..(i - 1)
      BY <1>4, <1>6, <1>7, <2>2, <2>5, <3>2
    <3> QED BY <1>5, <3>1, <3>2
  <2> QED BY <1>4, <2>3, <2>4, <2>5 DEF DueLoop
<1>10. CASE Refuses(D, Attr[r])
  <2>1. x = [st EXCEPT !.result = [@ EXCEPT ![r] = "denied"]]
    BY <1>1, <1>3, <1>10 DEF CheckWaiter
  <2>2. x = [docs |-> D, result |-> [R EXCEPT ![r] = "denied"]]
    BY <1>1, <2>1
  <2>3. "denied" \in Results /\ "denied" # DefaultDeny
    BY DEF Results, DefaultDeny
  <2> QED BY <1>2, <1>3, <1>9, <2>2, <2>3
<1>11. CASE ~Refuses(D, Attr[r]) /\ Attr[r].dryRun
  <2>1. x = [st EXCEPT !.result = [@ EXCEPT ![r] = "nil"]]
    BY <1>1, <1>3, <1>11 DEF CheckWaiter
  <2>2. x = [docs |-> D, result |-> [R EXCEPT ![r] = "nil"]]
    BY <1>1, <2>1
  <2>3. "nil" \in Results /\ "nil" # DefaultDeny
    BY DEF Results, DefaultDeny
  <2> QED BY <1>2, <1>3, <1>9, <1>11, <2>2, <2>3
<1>12. CASE ~Refuses(D, Attr[r]) /\ ~Attr[r].dryRun
  <2> DEFINE new == CheckRequest(D, Attr[r])
             changed == {n \in DOMAIN new : ~Equals(D[n].used, new[n].used)}
             E == [n \in DOMAIN new |-> IF n \in changed
                                        THEN [new[n] EXCEPT !.charging = @ \cup {r}]
                                        ELSE new[n]]
             Q == IF changed = {} THEN [R EXCEPT ![r] = "nil"] ELSE R
  <2>1. x = [docs |-> E, result |-> Q]
    BY <1>1, <1>3, <1>12 DEF CheckWaiter
  <2>2. DOMAIN new = 1..Len(D) /\ Len(D) \in Nat
    BY <1>4, LenProperties DEF CheckRequest
  <2>3. \A n \in 1..Len(D) : E[n] = CheckedDoc(D, r, n)
    BY <2>2 DEF CheckedDoc
  <2>4. changed = {n \in 1..Len(D) : ~Equals(D[n].used, new[n].used)}
    BY <2>2
  <2>5. Q = IF changed = {} THEN [R EXCEPT ![r] = "nil"] ELSE R
    OBVIOUS
  <2> HIDE DEF E, Q, changed
  <2>6. \A n \in 1..Len(D) :
          /\ E[n].scopes = D[n].scopes
          /\ E[n].charging = IF n \in changed THEN D[n].charging \cup {r} ELSE D[n].charging
          /\ n \in changed => Handles(Attr[r])
    <3> TAKE n \in 1..Len(D)
    <3>1. D \in Seq(DocState) /\ n \in 1..Len(D) /\ r \in Requests
      BY <1>4
    <3>2. KeptWell(D, r, n)
      BY ONLY <3>1, CheckedKeeps
    <3> QED BY <2>3, <2>4, <3>2 DEF KeptWell
  <2>7. \A n \in 1..Len(ds) : Owes(ds[n].name, r) => n \in changed
    <3> SUFFICES ASSUME NEW n \in 1..Len(ds), Owes(ds[n].name, r) PROVE n \in changed
      OBVIOUS
    <3>1. D \in Seq(DocState) /\ n \in 1..Len(D) /\ Owes(D[n].name, r)
      BY <1>4
    <3>2. D[n].scopes = Scopes[D[n].name]
      BY <1>4
    <3>3. D[n].hard = Hard[D[n].name]
      <4>1. DocInv(h, D[n]) /\ D[n].name \in Quotas
        BY <1>4 DEF DocInv, DocState
      <4> QED BY <4>1 DEF DocInv, VersionsInv
    <3>4. ~Equals(D[n].used, new[n].used)
      BY <3>1, <3>2, <3>3, DueDoc
    <3> QED BY <2>4, <3>1, <3>4
  <2> HIDE DEF new
  <2>8. \A n \in 1..Len(ds) : /\ E[n].scopes = ds[n].scopes
                              /\ \A s \in E[n].charging : Growing(s)
    <3> TAKE n \in 1..Len(ds)
    <3>1. n \in 1..Len(D) /\ D[n].scopes = ds[n].scopes /\ \A s \in D[n].charging : Growing(s)
      BY <1>4
    <3>2. n \in changed => Growing(r)
      BY <1>12, <2>6, <3>1, NotRefused
    <3> QED BY <2>6, <3>1, <3>2
  <2>9. \A y \in Requests : y # r => Q[y] = R[y]
    BY <1>4, <2>5
  <2>10. \A s \in Requests : s \notin {b[j] : j \in 1..i} => Q[s] = res[s]
    BY <1>4, <1>8, <2>9
  <2>11. ASSUME NEW j \in 1..i, NEW n \in 1..Len(ds), Owes(ds[n].name, b[j])
         PROVE  /\ Q[b[j]] = DefaultDeny => b[j] \in E[n].charging
                /\ Q[b[j]] = "nil" => res[b[j]] = "nil"
    <3>0. n \in 1..Len(D)
      BY <1>4
    <3>1. CASE j = i
      <4>1. b[j] = r
        BY <1>2, <3>1
      <4>2. n \in changed
        BY <2>7, <2>11, <4>1
      <4>3. r \in E[n].charging
        BY <2>6, <3>0, <4>2
      <4>4. Q = R
        BY <2>5, <4>2
      <4>5. R[r] = res[r]
        BY <1>4, <1>a
      <4> QED BY <4>1, <4>3, <4>4, <4>5
    <3>2. CASE j \in 1..(i - 1)
      <4>1. /\ R[b[j]] = DefaultDeny => b[j] \in D[n].charging
            /\ R[b[j]] = "nil" => res[b[j]] = "nil"
        BY <1>4, <2>11, <3>2
      <4>2. D[n].charging \subseteq E[n].charging
        BY <2>6, <3>0
      <4>3. Q[b[j]] = R[b[j]]
        BY <1>6, <1>7, <2>9, <3>2
      <4> QED BY <4>1, <4>2, <4>3
    <3> QED BY <1>5, <3>1, <3>2
  <2>12. x.docs = E /\ x.result = Q
    BY <2>1
  <2>13. DueLoop(ds, res, b, i, x)
    BY <2>8, <2>10, <2>11, <2>12 DEF DueLoop
  <2> QED BY <1>2, <1>3, <2>13
<1> QED BY <1>10, <1>11, <1>12

LEMMA BatchDue ==
  ASSUME NEW h, HistType(h), VersionsInv(h), NEW ds \in Seq(DocState),
         \A n \in 1..Len(ds) : DocInv(h, ds[n]) /\ ds[n].charging = {},
         \A n \in 1..Len(ds) : ds[n].scopes = Scopes[ds[n].name],
         NEW res \in [Requests -> Results], NEW b \in Seq(Requests), IsInjective(b)
  PROVE  DueLoop(ds, res, b, Len(b), CheckBatch(ds, b, res, Attr))
<1>1. Len(b) \in Nat
  BY LenProperties
<1> DEFINE g == CHOOSE f : IsRun(ds, res, b, Len(b), f)
<1>2. IsRun(ds, res, b, Len(b), g)
  BY <1>1, RunExists
<1>3. CheckBatch(ds, b, res, Attr) = g[Len(b)]
  BY DEF CheckBatch, IsRun
<1> HIDE DEF g
<1>4. /\ g[0] = [docs |-> ds, result |-> res]
      /\ \A i \in 1..Len(b) : g[i] = CheckWaiter(g[i - 1], b[i], Attr[b[i]])
  <2>1. 0 \in 0..Len(b) /\ \A i \in 1..Len(b) : i \in 0..Len(b) /\ i # 0
    BY <1>1
  <2> QED BY <1>2, <2>1 DEF IsRun
<1> DEFINE Good(i) == LoopInv(h, ds, res, b, i, g[i]) /\ DueLoop(ds, res, b, i, g[i])
           T == {i \in 0..Len(b) : ~Good(i)}
<1>5. Good(0)
  <2>1. PICK st : st = g[0]
    OBVIOUS
  <2>2. st = [docs |-> st.docs, result |-> st.result] /\ st.docs = ds /\ st.result = res
    BY <1>4, <2>1
  <2>3. \A j \in 1..0 : FALSE
    OBVIOUS
  <2>4. LoopInv(h, ds, res, b, 0, st)
    BY <2>2, <2>3 DEF LoopInv
  <2>5. DueLoop(ds, res, b, 0, st)
    BY <2>2, <2>3 DEF DueLoop
  <2> QED BY <2>1, <2>4, <2>5
<1> SUFFICES ASSUME T # {} PROVE FALSE
  <2>1. Len(b) \in 0..Len(b)
    BY <1>1
  <2> QED BY <1>3, <2>1
<1>6. PICK m \in T : \A y \in T : m <= y
  <2> HIDE DEF T
  <2>1. T \subseteq Nat
    BY <1>1 DEF T
  <2> QED BY <2>1, LeastElement
<1>7. m \in 0..Len(b) /\ ~Good(m)
  OBVIOUS
<1>8. m # 0
  BY <1>5, <1>7
<1>9. m - 1 \in 0..Len(b) /\ m \in 1..Len(b) /\ ~(m <= m - 1)
  BY <1>1, <1>7, <1>8
<1>10. Good(m - 1)
  BY <1>6, <1>9
<1> HIDE DEF T
<1>11. LoopInv(h, ds, res, b, m, CheckWaiter(g[m - 1], b[m], Attr[b[m]]))
  BY <1>9, <1>10, WaiterChecked
<1>12. DueLoop(ds, res, b, m, CheckWaiter(g[m - 1], b[m], Attr[b[m]]))
  BY <1>9, <1>10, WaiterDue
<1> QED BY <1>4, <1>7, <1>9, <1>11, <1>12

-----------------------------------------------------------------------------
(* The steps, again.                                                         *)

\* A worker goes from w[k] to y.
LEMMA DueMoves ==
  ASSUME IndInv, DueInv, NEW k \in Workers, NEW y, w' = [w EXCEPT ![k] = y],
         UNCHANGED members, VersionsInv(hist'),
         \A q \in Quotas : \A r \in Requests : HasCharge(hist, q, r) => HasCharge(hist', q, r),
         ListInv(y), OwedInv(hist', result', y),
         \A r \in Requests : r \notin Batch(k) => result'[r] = result[r],
         \A r \in Requests : result'[r] = "nil" =>
           result[r] = "nil" \/ \A q \in Quotas : Owes(q, r) => HasCharge(hist', q, r),
         \A r \in Requests : caller'[r] = "admitted" =>
                               caller[r] = "admitted" \/ result[r] = "nil"
  PROVE  DueInv'
<1>1. /\ w \in [Workers -> WorkerState] /\ w'[k] = y
      /\ \A l \in Workers : l # k => w'[l] = w[l]
  BY DEF IndInv, WorkersInv
<1>2. AnswersInv'
  <2> SUFFICES ASSUME NEW r \in Requests, NEW q \in Quotas, Owes(q, r),
                      result'[r] = "nil" \/ caller'[r] = "admitted"
               PROVE  HasCharge(hist', q, r)
    BY DEF AnswersInv
  <2>1. result[r] = "nil" \/ caller[r] = "admitted" => HasCharge(hist, q, r)
    BY DEF DueInv, AnswersInv
  <2> QED BY <2>1
<1>3. ASSUME NEW l \in Workers PROVE ListInv(w'[l]) /\ OwedInv(hist', result', w'[l])
  <2>1. CASE l = k
    BY <1>1, <2>1
  <2>2. CASE l # k
    <3>1. w'[l] = w[l] /\ ListInv(w[l]) /\ OwedInv(hist, result, w[l])
      BY <1>1, <2>2 DEF DueInv
    <3>2. ToSet(w[l].batch) \in SUBSET Requests /\ ToSet(w[l].batch) \cap Batch(k) = {}
      BY <2>2, WorkerIs DEF Batch, IndInv, CallersInv
    <3>3. OwedInv(hist', result', w[l])
      <4> SUFFICES ASSUME NEW r \in ToSet(w[l].batch), result'[r] = DefaultDeny
                   PROVE  /\ \A q \in Quotas :
                               Owes(q, r) => q \in Open(w[l]) \/ HasCharge(hist', q, r)
                          /\ \A i \in 1..Len(w[l].writes) :
                               Owes(w[l].writes[i].name, r) => r \in w[l].writes[i].charging
        BY DEF OwedInv
      <4>1. r \in Requests /\ result[r] = DefaultDeny
        BY <3>2
      <4> QED BY <3>1, <4>1 DEF OwedInv
    <3> QED BY <3>1, <3>3
  <2> QED BY <2>1, <2>2
<1>4. members' = Members
  BY DEF DueInv
<1> QED BY <1>2, <1>3, <1>4 DEF DueInv

\* The documents, the results and the callers stay.
LEMMA DueStays ==
  ASSUME IndInv, DueInv, NEW k \in Workers, NEW y, w' = [w EXCEPT ![k] = y],
         UNCHANGED <<hist, members, result, caller>>, ListInv(y), OwedInv(hist, result, y)
  PROVE  DueInv'
<1>1. VersionsInv(hist)
  BY DEF DueInv
<1> QED BY <1>1, DueMoves

\* Nothing is charged to fewer documents than before.
LEMMA OwedStays ==
  ASSUME NEW h, NEW res, NEW x, OwedInv(h, res, x), NEW y, y.batch = x.batch,
         y.writes = x.writes, Open(x) \subseteq Open(y)
  PROVE  OwedInv(h, res, y)
BY DEF OwedInv

\* What DueInv says about one worker.
LEMMA DueIs ==
  ASSUME DueInv, NEW k \in Workers
  PROVE  /\ ListInv(w[k]) /\ OwedInv(hist, result, w[k]) /\ VersionsInv(hist)
         /\ members = Members /\ AnswersInv
BY DEF DueInv

\* A worker has its answers.
LEMMA DueAnswered ==
  ASSUME IndInv, DueInv, NEW k \in Workers, w' = [w EXCEPT ![k].pc = "answer"],
         UNCHANGED <<hist, members, caller>>,
         \A r \in Requests : r \notin Batch(k) => result'[r] = result[r],
         \A r \in Batch(k) : result'[r] # DefaultDeny,
         \A r \in Requests : result'[r] = "nil" =>
           result[r] = "nil" \/ \A q \in Quotas : Owes(q, r) => HasCharge(hist, q, r)
  PROVE  DueInv'
<1>1. PICK x \in WorkerState : x = w[k]
  BY WorkerIs
<1>2. PICK y : y = [x EXCEPT !.pc = "answer"]
  OBVIOUS
<1>3. w' = [w EXCEPT ![k] = y]
  BY <1>1, <1>2, WorkerIs
<1>4. /\ y.pc = "answer" /\ y.batch = x.batch /\ y.ns = x.ns
      /\ y.failed = x.failed /\ y.docs = x.docs /\ y.writes = x.writes
  BY <1>2 DEF WorkerState
<1>5. ListInv(x) /\ VersionsInv(hist)
  BY <1>1, DueIs
<1>6. ListInv(y)
  BY <1>4, <1>5 DEF ListInv, Reading
<1>7. OwedInv(hist, result', y)
  BY <1>1, <1>4 DEF OwedInv, Batch
<1>8. VersionsInv(hist')
  BY <1>5
<1> QED BY <1>3, <1>6, <1>7, <1>8, DueMoves

LEMMA GetQuotasFailsDue ==
  ASSUME IndInv, DueInv, NEW k \in Workers, GetQuotasFails(k), UNCHANGED <<storeVars, caller>>
  PROVE  DueInv'
<1>1. \A r \in Batch(k) : result'[r] # DefaultDeny
  BY Marks, Settled DEF GetQuotasFails
<1>2. result \in [Requests -> Results] /\ UNCHANGED <<hist, members, caller>>
  BY WorkerIs DEF storeVars
<1>3. /\ \A r \in Requests : r \notin Batch(k) => result'[r] = result[r]
      /\ \A r \in Requests : result'[r] = "nil" => result[r] = "nil"
  BY <1>2 DEF GetQuotasFails, Settle
<1>4. w' = [w EXCEPT ![k].pc = "answer"]
  BY DEF GetQuotasFails
<1> QED BY <1>1, <1>2, <1>3, <1>4, DueAnswered

LEMMA ListNamesDue ==
  ASSUME IndInv, DueInv, NEW k \in Workers, ListNames(k)
  PROVE  DueInv'
<1>0. CASE GetQuotasFails(k)
  BY <1>0, GetQuotasFailsDue DEF ListNames
<1> SUFFICES ASSUME ~GetQuotasFails(k) PROVE DueInv'
  BY <1>0
<1>1. PICK x \in WorkerState : x = w[k]
  BY WorkerIs
<1>2. PICK N : N = ResourceQuotaNamesFor(x.ns)
  OBVIOUS
<1>3. N = Selecting(x.ns)
  <2>1. \A q \in Quotas : Live(q, cache[q])
    BY DEF DueInv, VersionsInv, IndInv, StoreInv, Live
  <2>2. members = Members
    BY DEF DueInv
  <2> QED BY <1>2, <2>1, <2>2 DEF ResourceQuotaNamesFor, Selecting
<1>4. PICK y : y = [x EXCEPT !.pc = "fetch", !.docs = <<>>, !.todo = N]
  OBVIOUS
<1>5. /\ x.pc = "list" /\ w' = [w EXCEPT ![k] = y]
      /\ UNCHANGED <<hist, members, result, caller>>
  BY <1>1, <1>2, <1>4, WorkerIs DEF ListNames, storeVars
<1>6. /\ y.pc = "fetch" /\ y.batch = x.batch /\ y.ns = x.ns
      /\ y.locks = x.locks /\ y.failed = x.failed /\ y.todo = N
      /\ y.docs = <<>> /\ y.writes = x.writes
  BY <1>4 DEF WorkerState
<1>7. ListInv(x) /\ OwedInv(hist, result, x) /\ x.writes = <<>>
  BY <1>1, <1>5, DueIs, WorkerIs DEF WorkerInv, PlaceInv
<1>8. ListInv(y)
  BY <1>3, <1>5, <1>6, <1>7 DEF ListInv
<1>9. Open(y) = Open(x)
  BY <1>5, <1>6 DEF Open
<1>10. OwedInv(hist, result, y)
  BY <1>6, <1>7, <1>9, OwedStays
<1> QED BY <1>5, <1>8, <1>10, DueStays

LEMMA FetchDue ==
  ASSUME IndInv, DueInv, NEW k \in Workers, Fetch(k)
  PROVE  DueInv'
<1>0. CASE GetQuotasFails(k)
  BY <1>0, GetQuotasFailsDue DEF Fetch
<1> SUFFICES ASSUME ~GetQuotasFails(k) PROVE DueInv'
  BY <1>0
<1>1. PICK x \in WorkerState : x = w[k]
  BY WorkerIs
<1>2. PICK q \in x.todo : /\ w' = [w EXCEPT ![k].pc = "cache", ![k].q = q,
                                            ![k].got = cache[q]]
                          /\ UNCHANGED result
  BY <1>1 DEF Fetch
<1>4. PICK y : y = [x EXCEPT !.pc = "cache", !.q = q, !.got = cache[q]]
  OBVIOUS
<1>5. /\ x.pc = "fetch" /\ w' = [w EXCEPT ![k] = y]
      /\ UNCHANGED <<hist, members, result, caller>>
  BY <1>1, <1>2, <1>4, WorkerIs DEF Fetch, storeVars
<1>6. /\ y.pc = "cache" /\ y.batch = x.batch /\ y.ns = x.ns
      /\ y.locks = x.locks /\ y.failed = x.failed /\ y.todo = x.todo
      /\ y.docs = x.docs /\ y.writes = x.writes
  BY <1>4 DEF WorkerState
<1>7. ListInv(x) /\ OwedInv(hist, result, x) /\ x.writes = <<>>
  BY <1>1, <1>5, DueIs, WorkerIs DEF WorkerInv, PlaceInv
<1>8. ListInv(y)
  BY <1>5, <1>6, <1>7 DEF ListInv, Reading
<1>9. Open(y) = Open(x)
  BY <1>5, <1>6 DEF Open
<1>10. OwedInv(hist, result, y)
  BY <1>6, <1>7, <1>9, OwedStays
<1> QED BY <1>5, <1>8, <1>10, DueStays

LEMMA ProceedDue ==
  ASSUME IndInv, DueInv, NEW k \in Workers, w[k].pc \in {"cache", "evict"},
         NEW i \in 1..Len(hist[w[k].q]), Proceed(k, i),
         UNCHANGED <<hist, caller, members, result>>
  PROVE  DueInv'
<1>1. PICK x \in WorkerState : x = w[k]
  BY WorkerIs
<1>2. /\ WorkerInv(hist, x) /\ HistType(hist) /\ w \in [Workers -> WorkerState]
      /\ ListInv(x) /\ OwedInv(hist, result, x)
  BY <1>1, WorkerIs, DueIs
<1>3. /\ x.pc \in {"cache", "evict"} /\ x.q \in Quotas
      /\ IF x.writes = <<>> THEN x.q \in x.todo ELSE x.q = Head(x.writes).name
  BY <1>1, <1>2 DEF WorkerInv, PlaceInv
<1>4. i \in Nat /\ i \in 1..Len(hist[x.q])
  BY <1>1
<1>5. CASE x.writes = <<>>
  <2>1. PICK d \in DocState : d = Doc(x.q, i) /\ d.name = x.q
    BY <1>2, <1>3, <1>4, ReadDoc
  <2>a. d.scopes = Scopes[x.q]
    BY <2>1 DEF Doc
  <2>2. PICK t : t = Append(x.docs, d)
    OBVIOUS
  <2>3. x.docs \in Seq(DocState)
    BY DEF WorkerState
  <2>4. /\ t \in Seq(DocState) /\ Names(t) = Names(x.docs) \cup {x.q}
        /\ \A j \in 1..Len(t) : t[j] = d \/ \E m \in 1..Len(x.docs) : t[j] = x.docs[m]
    BY <2>1, <2>2, <2>3, AppendDoc
  <2>5. PICK y : y = [x EXCEPT !.pc = "fetch", !.got = 0, !.todo = x.todo \ {x.q},
                               !.docs = t]
    OBVIOUS
  <2>6. w' = [w EXCEPT ![k] = y]
    BY <1>1, <1>2, <1>5, <2>1, <2>2, <2>5 DEF Proceed
  <2>7. /\ y.pc = "fetch" /\ y.batch = x.batch /\ y.ns = x.ns
        /\ y.locks = x.locks /\ y.failed = x.failed /\ y.todo = x.todo \ {x.q}
        /\ y.docs = t /\ y.writes = x.writes
    BY <2>4, <2>5 DEF WorkerState
  <2>8. Reading(x) /\ Reading(y)
    BY <1>3, <1>5, <2>7 DEF Reading
  <2>9. /\ x.todo \subseteq Selecting(x.ns)
        /\ Selecting(x.ns) \subseteq Names(x.docs) \cup x.todo
        /\ \A j \in 1..Len(x.docs) : /\ x.docs[j].name \in Native \cup Selecting(x.ns)
                                     /\ x.docs[j].scopes = Scopes[x.docs[j].name]
        /\ x.locks # {} => x.failed # {}
    BY <1>2, <2>8 DEF ListInv
  <2>10. \A j \in 1..Len(t) : /\ t[j].name \in Native \cup Selecting(x.ns)
                              /\ t[j].scopes = Scopes[t[j].name]
    BY <1>3, <1>5, <2>1, <2>a, <2>4, <2>9
  <2>11. ListInv(y)
    BY <1>2, <2>4, <2>7, <2>8, <2>9, <2>10 DEF ListInv
  <2>12. Open(y) = Open(x)
    BY <1>3, <2>7 DEF Open
  <2>13. OwedInv(hist, result, y)
    BY <1>2, <2>7, <2>12, OwedStays
  <2> QED BY <2>6, <2>11, <2>13, DueStays
<1>6. CASE x.writes # <<>>
  <2>1. PICK y : y = [x EXCEPT !.pc = "write", !.got = i]
    OBVIOUS
  <2>2. w' = [w EXCEPT ![k] = y]
    BY <1>1, <1>2, <1>6, <2>1 DEF Proceed
  <2>3. /\ y.pc = "write" /\ y.batch = x.batch /\ y.ns = x.ns
        /\ y.locks = x.locks /\ y.failed = x.failed /\ y.docs = x.docs /\ y.writes = x.writes
    BY <2>1 DEF WorkerState
  <2>4. ListInv(y)
    BY <1>2, <2>3 DEF ListInv, Reading
  <2>5. Open(y) = Open(x)
    BY <1>3, <2>3 DEF Open
  <2>6. OwedInv(hist, result, y)
    BY <1>2, <2>3, <2>5, OwedStays
  <2> QED BY <2>2, <2>4, <2>6, DueStays
<1> QED BY <1>5, <1>6

LEMMA CheckCacheDue ==
  ASSUME IndInv, DueInv, NEW k \in Workers, CheckCache(k)
  PROVE  DueInv'
<1>1. PICK x \in WorkerState : x = w[k]
  BY WorkerIs
<1>2. /\ WorkerInv(hist, x) /\ HistType(hist) /\ w \in [Workers -> WorkerState]
      /\ ListInv(x) /\ OwedInv(hist, result, x)
  BY <1>1, WorkerIs, DueIs
<1>3. x.pc = "cache" /\ UNCHANGED <<hist, members, result, caller>>
  BY <1>1 DEF CheckCache, storeVars
<1>4. x.q \in Quotas /\ x.got \in 1..Len(hist[x.q])
  BY <1>2, <1>3 DEF WorkerInv, PlaceInv
<1>5. lru[x.q] \in 0..Len(hist[x.q]) /\ Len(hist[x.q]) \in Nat
  <2>1. hist[x.q] \in Seq(VersionState)
    BY <1>2, <1>4 DEF HistType
  <2> QED BY <1>4, <2>1, LenProperties DEF IndInv, StoreInv
<1>6. CASE lru[x.q] # 0 /\ x.got >= lru[x.q]
  <2>1. PICK y : y = [x EXCEPT !.pc = "evict"]
    OBVIOUS
  <2>2. w' = [w EXCEPT ![k] = y]
    BY <1>1, <1>2, <1>6, <2>1 DEF CheckCache
  <2>3. /\ y.pc = "evict" /\ y.batch = x.batch /\ y.ns = x.ns
        /\ y.locks = x.locks /\ y.failed = x.failed /\ y.todo = x.todo
        /\ y.docs = x.docs /\ y.writes = x.writes
    BY <2>1 DEF WorkerState
  <2>4. ListInv(y)
    BY <1>2, <1>3, <2>3 DEF ListInv, Reading
  <2>5. Open(y) = Open(x)
    BY <1>3, <2>3 DEF Open
  <2>6. OwedInv(hist, result, y)
    BY <1>2, <2>3, <2>5, OwedStays
  <2> QED BY <1>3, <2>2, <2>4, <2>6, DueStays
<1>7. CASE ~(lru[x.q] # 0 /\ x.got >= lru[x.q])
  <2>1. PICK i : i = IF lru[x.q] = 0 THEN x.got ELSE lru[x.q]
    OBVIOUS
  <2>2. i \in 1..Len(hist[x.q])
    BY <1>4, <1>5, <2>1
  <2>3. Proceed(k, i)
    BY <1>1, <1>7, <2>1 DEF CheckCache
  <2> QED BY <1>1, <1>3, <2>2, <2>3, ProceedDue
<1> QED BY <1>6, <1>7

LEMMA EvictDue ==
  ASSUME IndInv, DueInv, NEW k \in Workers, Evict(k)
  PROVE  DueInv'
<1>1. /\ w[k].pc = "evict" /\ UNCHANGED <<hist, members, result, caller>>
      /\ Proceed(k, w[k].got)
  BY DEF Evict
<1>2. w[k].got \in 1..Len(hist[w[k].q])
  BY <1>1, WorkerIs DEF WorkerInv, PlaceInv
<1> QED BY <1>1, <1>2, ProceedDue

\* A worker is done with the first of its writes.
LEMMA DoneDue ==
  ASSUME NEW h, NEW res, NEW x \in WorkerState, ListInv(x), OwedInv(h, res, x),
         x.writes # <<>>, x.locks # {},
         NEW F, \/ x.pc = "add" /\ F = x.failed
                \/ /\ x.pc \in {"update", "write"}
                   /\ F = x.failed \cup {Head(x.writes).name},
         NEW y, y = DoneWrite(x, F)
  PROVE  ListInv(y) /\ OwedInv(h, res, y)
<1>1. x.writes \in Seq(DocState)
  BY DEF WorkerState
<1>2. PICK t \in Seq(DocState) :
        /\ t = Tail(x.writes)
        /\ Names(x.writes) = Names(t) \cup {Head(x.writes).name}
        /\ \A i \in 1..Len(t) : \E j \in 1..Len(x.writes) : t[i] = x.writes[j]
  <2>1. /\ Tail(x.writes) \in Seq(DocState)
        /\ Names(x.writes) = Names(Tail(x.writes)) \cup {Head(x.writes).name}
        /\ \A i \in 1..Len(Tail(x.writes)) :
             \E j \in 1..Len(x.writes) : Tail(x.writes)[i] = x.writes[j]
    BY <1>1, TailNames
  <2> QED BY <2>1
<1>3. /\ y.pc = "update" /\ y.batch = x.batch /\ y.ns = x.ns
      /\ y.locks = x.locks /\ y.failed = F /\ y.docs = x.docs /\ y.writes = t
  <2>1. y = [x EXCEPT !.pc = "update", !.writes = t, !.got = 0, !.failed = F]
    BY <1>2 DEF DoneWrite
  <2>2. x \in WorkerState
    OBVIOUS
  <2> QED BY ONLY <2>1, <2>2 DEF WorkerState
<1>4. Open(y) = Open(x)
  <2>1. Open(y) = F \cup Names(t)
    BY <1>3 DEF Open
  <2>2. CASE x.pc = "add" /\ F = x.failed
    BY <1>2, <2>1, <2>2 DEF Open
  <2>3. CASE x.pc \in {"update", "write"} /\ F = x.failed \cup {Head(x.writes).name}
    <3>1. Open(x) = x.failed \cup Names(x.writes)
      BY <2>3 DEF Open
    <3> QED BY <1>2, <2>1, <2>3, <3>1
  <2> QED BY <2>2, <2>3
<1>5. ListInv(y)
  <2>1. /\ \A r \in ToSet(x.batch) : Attr[r].ns = x.ns
        /\ x.failed \subseteq Selecting(x.ns) /\ Names(x.writes) \subseteq Selecting(x.ns)
        /\ \A i \in 1..Len(x.writes) : \A r \in x.writes[i].charging : Growing(r)
    BY DEF ListInv
  <2>2. F \subseteq Selecting(x.ns) /\ Names(t) \subseteq Selecting(x.ns)
    BY <1>2, <2>1
  <2>3. \A i \in 1..Len(t) : \A r \in t[i].charging : Growing(r)
    BY <1>2, <2>1
  <2> QED BY <1>3, <2>1, <2>2, <2>3 DEF ListInv, Reading
<1>6. OwedInv(h, res, y)
  <2> SUFFICES ASSUME NEW r \in ToSet(x.batch), res[r] = DefaultDeny
               PROVE  /\ \A q \in Quotas : Owes(q, r) => q \in Open(y) \/ HasCharge(h, q, r)
                      /\ \A i \in 1..Len(t) : Owes(t[i].name, r) => r \in t[i].charging
    BY <1>3 DEF OwedInv
  <2>1. /\ \A q \in Quotas : Owes(q, r) => q \in Open(x) \/ HasCharge(h, q, r)
        /\ \A i \in 1..Len(x.writes) :
             Owes(x.writes[i].name, r) => r \in x.writes[i].charging
    BY DEF OwedInv
  <2> QED BY <1>2, <1>4, <2>1
<1> QED BY <1>5, <1>6

LEMMA WrittenDue ==
  ASSUME IndInv, DueInv, NEW k \in Workers, w[k].writes # <<>>, NEW ok \in BOOLEAN,
         \/ w[k].pc = "add" /\ ok
         \/ w[k].pc \in {"update", "write"} /\ ~ok,
         Written(k, ok), UNCHANGED <<hist, caller, members, result>>
  PROVE  DueInv'
<1>1. PICK x \in WorkerState : x = w[k]
  BY WorkerIs
<1>2. WorkerInv(hist, x) /\ w \in [Workers -> WorkerState]
  BY <1>1, WorkerIs
<1>3. PICK F : F = IF ok THEN x.failed ELSE x.failed \cup {Head(x.writes).name}
  OBVIOUS
<1>4. PICK y : y = DoneWrite(x, F)
  OBVIOUS
<1>5. w' = [w EXCEPT ![k] = y]
  BY <1>1, <1>2, <1>3, <1>4 DEF Written, DoneWrite
<1>6. ListInv(y) /\ OwedInv(hist, result, y)
  <2>1. \/ x.pc = "add" /\ F = x.failed
        \/ x.pc \in {"update", "write"} /\ F = x.failed \cup {Head(x.writes).name}
    BY <1>1, <1>3
  <2>2. x.writes # <<>> /\ x.locks # {} /\ ListInv(x) /\ OwedInv(hist, result, x)
    BY <1>1, <1>2, DueIs DEF WorkerInv, PlaceInv
  <2> QED BY <1>4, <2>1, <2>2, DoneDue
<1> QED BY <1>5, <1>6, DueStays

LEMMA UpdateReadDue ==
  ASSUME IndInv, DueInv, NEW k \in Workers, UpdateRead(k)
  PROVE  DueInv'
<1>1. PICK x \in WorkerState : x = w[k]
  BY WorkerIs
<1>2. /\ WorkerInv(hist, x) /\ w \in [Workers -> WorkerState]
      /\ ListInv(x) /\ OwedInv(hist, result, x)
  BY <1>1, WorkerIs, DueIs
<1>3. PICK q : q = Head(x.writes).name
  OBVIOUS
<1>4. x.pc = "update" /\ x.writes # <<>> /\ UNCHANGED <<hist, members, result, caller>>
  BY <1>1 DEF UpdateRead, storeVars
<1>5. CASE Live(q, cache[q])
  <2>3. PICK y : y = [x EXCEPT !.pc = "cache", !.q = q, !.got = cache[q]]
    OBVIOUS
  <2>4. w' = [w EXCEPT ![k] = y]
    BY <1>1, <1>2, <1>3, <1>5, <2>3 DEF UpdateRead
  <2>5. /\ y.pc = "cache" /\ y.batch = x.batch /\ y.ns = x.ns
        /\ y.locks = x.locks /\ y.failed = x.failed /\ y.todo = x.todo
        /\ y.docs = x.docs /\ y.writes = x.writes
    BY <2>3 DEF WorkerState
  <2>6. ListInv(y)
    BY <1>2, <1>4, <2>5 DEF ListInv, Reading
  <2>7. Open(y) = Open(x)
    BY <1>4, <2>5 DEF Open
  <2>8. OwedInv(hist, result, y)
    BY <1>2, <2>5, <2>7, OwedStays
  <2> QED BY <1>4, <2>4, <2>6, <2>8, DueStays
<1>6. CASE ~Live(q, cache[q])
  <2>1. Written(k, FALSE)
    BY <1>1, <1>3, <1>6 DEF UpdateRead
  <2> QED BY <1>1, <1>4, <2>1, WrittenDue
<1> QED BY <1>5, <1>6

LEMMA CacheAddDue ==
  ASSUME IndInv, DueInv, NEW k \in Workers, CacheAdd(k)
  PROVE  DueInv'
<1>1. w[k].pc = "add" /\ Written(k, TRUE) /\ UNCHANGED <<hist, members, result, caller>>
  BY DEF CacheAdd
<1>2. w[k].writes # <<>>
  BY <1>1, WorkerIs DEF WorkerInv, PlaceInv
<1> QED BY <1>1, <1>2, WrittenDue

\* One more version, of an evaluator.
LEMMA VersionsGrow ==
  ASSUME NEW h, HistType(h), VersionsInv(h), NEW g, NEW q \in Quotas, NEW v,
         Grows(h, g, q, v), v.alive, v.hard = Hard[q], v.by = "admit",
         \A r \in v.charged : Growing(r)
  PROVE  /\ VersionsInv(g) /\ \A r \in v.charged : HasCharge(g, q, r)
         /\ \A p \in Quotas : \A r \in Requests : HasCharge(h, p, r) => HasCharge(g, p, r)
<1>1. /\ \A p \in Quotas : Len(h[p]) \in Nat /\ Len(g[p]) \in Nat /\ Len(h[p]) <= Len(g[p])
      /\ \A p \in Quotas : \A i \in 1..Len(h[p]) : g[p][i] = h[p][i]
      /\ \A p \in Quotas : p # q => g[p] = h[p]
      /\ Len(g[q]) = Len(h[q]) + 1 /\ g[q][Len(h[q]) + 1] = v
  BY DEF Grows
<1>2. Len(h[q]) # 0
  <2>1. h[q] \in Seq(VersionState) /\ h[q] # <<>>
    BY DEF HistType
  <2> QED BY <2>1, EmptySeq
<1>3. PICK n \in Nat : n = Len(h[q]) /\ n # 0 /\ Len(g[q]) = n + 1 /\ g[q][n + 1] = v
  BY <1>1, <1>2
<1>4. n + 1 \in 1..(n + 1) /\ n + 1 > 1 /\ \A i \in 1..(n + 1) : i = n + 1 \/ i \in 1..n
  <2>1. n \in Nat /\ n # 0
    BY <1>3
  <2> QED BY ONLY <2>1
<1>5. \A p \in Quotas : \A i \in 1..Len(h[p]) : i \in 1..Len(g[p])
  BY <1>1
<1>6. VersionsInv(g)
  <2> SUFFICES ASSUME NEW p \in Quotas, NEW i \in 1..Len(g[p])
               PROVE  /\ g[p][i].alive /\ g[p][i].hard = Hard[p]
                      /\ \A r \in g[p][i].charged : Growing(r)
                      /\ IF i = 1 THEN \A m : At(g[p][i].used, m) = 0
                         ELSE g[p][i].by = "admit"
    BY DEF VersionsInv
  <2>1. CASE i \in 1..Len(h[p])
    <3>1. PICK u : u = h[p][i]
      OBVIOUS
    <3>2. g[p][i] = u
      BY <1>1, <2>1, <3>1
    <3>3. /\ u.alive /\ u.hard = Hard[p] /\ \A r \in u.charged : Growing(r)
          /\ IF i = 1 THEN \A m : At(u.used, m) = 0 ELSE u.by = "admit"
      BY ONLY <2>1, <3>1, p \in Quotas, VersionsInv(h) DEF VersionsInv
    <3> QED BY ONLY <3>2, <3>3
  <2>2. CASE i \notin 1..Len(h[p])
    <3>1. p = q
      BY <1>1, <2>2
    <3>2. i = n + 1
      BY <1>3, <1>4, <2>2, <3>1
    <3>3. i # 1
      BY <1>4, <3>2
    <3> QED BY <1>3, <3>1, <3>2, <3>3
  <2> QED BY <2>1, <2>2
<1>7. \A r \in v.charged : HasCharge(g, q, r)
  BY <1>3, <1>4 DEF HasCharge
<1>8. \A p \in Quotas : \A r \in Requests : HasCharge(h, p, r) => HasCharge(g, p, r)
  BY <1>1, <1>5 DEF HasCharge
<1> QED BY <1>6, <1>7, <1>8

\* What a write takes from the version it starts from.
TakenOver(v, b, d) ==
  /\ v.alive = b.alive /\ v.hard = b.hard /\ v.charged = d.charging
  /\ v.by = "admit"

LEMMA VersionTakes ==
  ASSUME NEW b \in VersionState, NEW d, NEW ns, NEW limit, NEW l \in BOOLEAN,
         NEW v, v = WrittenVersion(b, d, ns, limit, l)
  PROVE  TakenOver(v, b, d)
<1>1. PICK f : f = InsertShare(b.byNs, ns, Add(Share(b, ns), Subtract(d.used, b.used)))
  OBVIOUS
<1>2. PICK c : c = [b EXCEPT !.used = d.used, !.byNs = f, !.by = "admit",
                             !.charged = d.charging, !.lost = FALSE]
  OBVIOUS
<1>3. c = Updated(b, d, ns)
  BY <1>1, <1>2 DEF Updated
<1>4. v = [c EXCEPT !.limit = limit, !.lost = l]
  BY <1>3 DEF WrittenVersion, UpdatedNow
<1> QED BY ONLY <1>2, <1>4, b \in VersionState DEF VersionState, TakenOver

\* What the write of x makes of the history, whether its answer is lost or not.
MadeDue(x, d, g) ==
  /\ VersionsInv(g)
  /\ \A p \in Quotas : \A r \in Requests : HasCharge(hist, p, r) => HasCharge(g, p, r)
  /\ \A r \in d.charging : HasCharge(g, d.name, r)

LEMMA WriteMakes ==
  ASSUME IndInv, DueInv, NEW k \in Workers, NEW x \in WorkerState, x = w[k], x.pc = "write",
         NEW d, d = Head(x.writes), d.rv = Len(hist[d.name]), NEW l \in BOOLEAN,
         NEW v, v = WrittenVersion(hist[d.name][x.got], d, x.ns, Last(hist[d.name]).limit, l),
         NEW g, g = WithVersion(hist, d.name, v)
  PROVE  MadeDue(x, d, g) /\ MadeWell(x, d, g, v, l)
<1>1. MadeWell(x, d, g, v, l)
  BY VersionMade
<1>2. /\ WorkerInv(hist, x) /\ HistType(hist) /\ ListInv(x) /\ VersionsInv(hist)
  BY WorkerIs, DueIs
<1>3. d.name \in Quotas /\ Grows(hist, g, d.name, v)
  BY <1>1 DEF MadeWell
<1>4. x.writes # <<>> /\ x.writes \in Seq(DocState) /\ x.got \in 1..Len(hist[d.name])
  BY <1>2 DEF WorkerInv, PlaceInv, WorkerState
<1>5. \E j \in 1..Len(x.writes) : d = x.writes[j]
  BY <1>4, TailNames
<1>6. \A r \in d.charging : Growing(r)
  BY <1>2, <1>5 DEF ListInv
<1>7. PICK b \in VersionState : b = hist[d.name][x.got]
  BY <1>2, <1>3, <1>4, VersionIs
<1>8. b.alive /\ b.hard = Hard[d.name]
  BY <1>2, <1>3, <1>4, <1>7 DEF VersionsInv
<1>9. v.alive = b.alive /\ v.hard = b.hard /\ v.charged = d.charging /\ v.by = "admit"
  <2>1. v = WrittenVersion(b, d, x.ns, Last(hist[d.name]).limit, l)
    BY ONLY <1>7, v = WrittenVersion(hist[d.name][x.got], d, x.ns, Last(hist[d.name]).limit, l)
  <2>2. b \in VersionState /\ l \in BOOLEAN
    OBVIOUS
  <2>3. TakenOver(v, b, d)
    BY ONLY <2>1, <2>2, VersionTakes
  <2> QED BY ONLY <2>3 DEF TakenOver
<1>10. MadeDue(x, d, g)
  <2>1. /\ v.alive /\ v.hard = Hard[d.name] /\ v.by = "admit"
        /\ \A r \in v.charged : Growing(r)
    BY <1>6, <1>8, <1>9
  <2>2. /\ VersionsInv(g) /\ \A r \in v.charged : HasCharge(g, d.name, r)
        /\ \A p \in Quotas : \A r \in Requests : HasCharge(hist, p, r) => HasCharge(g, p, r)
    BY ONLY <1>2, <1>3, <2>1, VersionsGrow
  <2> QED BY <1>9, <2>2 DEF MadeDue
<1> QED BY <1>1, <1>10

LEMMA WriteDue ==
  ASSUME IndInv, DueInv, NEW k \in Workers, Write(k)
  PROVE  DueInv'
<1>1. PICK x \in WorkerState : x = w[k]
  BY WorkerIs
<1>2. /\ WorkerInv(hist, x) /\ HistType(hist) /\ w \in [Workers -> WorkerState]
      /\ ListInv(x) /\ OwedInv(hist, result, x)
  BY <1>1, WorkerIs, DueIs
<1>3. PICK d : d = Head(x.writes)
  OBVIOUS
<1>4. PICK no \in BOOLEAN : no = FALSE
  OBVIOUS
<1>5. PICK yes \in BOOLEAN : yes = TRUE
  OBVIOUS
<1>6. PICK v : v = WrittenVersion(hist[d.name][x.got], d, x.ns, Last(hist[d.name]).limit, no)
  OBVIOUS
<1>7. PICK z : z = WrittenVersion(hist[d.name][x.got], d, x.ns, Last(hist[d.name]).limit, yes)
  OBVIOUS
<1>8. PICK t : t = UpdatedNow(hist[d.name][x.got], d, x.ns, Last(hist[d.name]).limit)
  OBVIOUS
<1>9. /\ x.pc = "write" /\ UNCHANGED <<members, result, caller>>
      /\ \/ /\ d.rv = Len(hist[d.name]) /\ hist' = WithVersion(hist, d.name, t)
            /\ w' = [w EXCEPT ![k].pc = "add"]
         \/ /\ d.rv = Len(hist[d.name]) /\ hist' = WithVersion(hist, d.name, z)
            /\ Written(k, FALSE)
         \/ Written(k, FALSE) /\ UNCHANGED hist
  BY <1>1, <1>3, <1>5, <1>7, <1>8
     DEF Write, UpdatedNow, WrittenVersion, Current, WithVersion
<1>10. x.writes # <<>> /\ x.locks # {} /\ x.writes \in Seq(DocState)
  BY <1>2, <1>9 DEF WorkerInv, PlaceInv, WorkerState
<1>11. /\ Names(x.writes) = Names(Tail(x.writes)) \cup {d.name}
       /\ \E j \in 1..Len(x.writes) : d = x.writes[j]
  BY <1>3, <1>10, TailNames
\* What is owed is still owed after a new version.
<1>12. ASSUME NEW g, MadeDue(x, d, g) PROVE OwedInv(g, result, x)
  <2> SUFFICES ASSUME NEW r \in ToSet(x.batch), result[r] = DefaultDeny
               PROVE  /\ \A q \in Quotas : Owes(q, r) => q \in Open(x) \/ HasCharge(g, q, r)
                      /\ \A i \in 1..Len(x.writes) :
                           Owes(x.writes[i].name, r) => r \in x.writes[i].charging
    BY DEF OwedInv
  <2>1. r \in Requests
    BY <1>1, WorkerIs DEF Batch
  <2> QED BY <1>2, <1>12, <2>1 DEF OwedInv, MadeDue
<1>13. CASE /\ d.rv = Len(hist[d.name]) /\ hist' = WithVersion(hist, d.name, t)
            /\ w' = [w EXCEPT ![k].pc = "add"]
  <2>1. PICK g : g = WithVersion(hist, d.name, v)
    OBVIOUS
  <2>2. MadeDue(x, d, g) /\ MadeWell(x, d, g, v, no)
    <3>1. IndInv /\ DueInv /\ k \in Workers /\ x \in WorkerState /\ x.pc = "write"
      BY <1>9
    <3> QED BY ONLY <1>1, <1>3, <1>4, <1>6, <1>13, <2>1, <3>1, WriteMakes
  <2>3. hist' = g
    <3>1. v = t
      BY <1>4, <1>8, <2>2 DEF MadeWell
    <3> QED BY <1>13, <2>1, <3>1
  <2>4. PICK y : y = [x EXCEPT !.pc = "add"]
    OBVIOUS
  <2>5. w' = [w EXCEPT ![k] = y]
    BY <1>1, <1>2, <1>13, <2>4
  <2>6. /\ y.pc = "add" /\ y.batch = x.batch /\ y.ns = x.ns
        /\ y.locks = x.locks /\ y.failed = x.failed /\ y.todo = x.todo
        /\ y.docs = x.docs /\ y.writes = x.writes
    BY ONLY <2>4, x \in WorkerState DEF WorkerState
  <2>7. ListInv(y)
    BY <1>2, <2>6 DEF ListInv, Reading
  <2>8. Open(x) \subseteq Open(y) \cup {d.name}
    <3>1. Open(y) = x.failed \cup Names(Tail(x.writes))
      BY <1>10, <2>6 DEF Open
    <3>2. Open(x) = x.failed \cup Names(x.writes)
      BY <1>9, <1>10 DEF Open
    <3> QED BY <1>11, <3>1, <3>2
  <2>9. OwedInv(g, result, y)
    <3> SUFFICES ASSUME NEW r \in ToSet(x.batch), result[r] = DefaultDeny
                 PROVE  /\ \A q \in Quotas : Owes(q, r) => q \in Open(y) \/ HasCharge(g, q, r)
                        /\ \A i \in 1..Len(x.writes) :
                             Owes(x.writes[i].name, r) => r \in x.writes[i].charging
      BY <2>6 DEF OwedInv
    <3>1. OwedInv(g, result, x)
      BY <1>12, <2>2
    <3>2. Owes(d.name, r) => HasCharge(g, d.name, r)
      BY <1>2, <1>11, <2>2 DEF OwedInv, MadeDue
    <3> QED BY <2>8, <3>1, <3>2 DEF OwedInv
  <2> QED BY <1>9, <2>2, <2>3, <2>5, <2>7, <2>9, DueMoves DEF MadeDue
<1>14. CASE /\ d.rv = Len(hist[d.name]) /\ hist' = WithVersion(hist, d.name, z)
            /\ Written(k, FALSE)
  <2>1. PICK g : g = WithVersion(hist, d.name, z)
    OBVIOUS
  <2>2. MadeDue(x, d, g)
    <3>1. IndInv /\ DueInv /\ k \in Workers /\ x \in WorkerState /\ x.pc = "write"
      BY <1>9
    <3> QED BY ONLY <1>1, <1>3, <1>5, <1>7, <1>14, <2>1, <3>1, WriteMakes
  <2>3. hist' = g
    BY <1>14, <2>1
  <2>4. PICK F : F = x.failed \cup {Head(x.writes).name}
    OBVIOUS
  <2>5. PICK y : y = DoneWrite(x, F)
    OBVIOUS
  <2>6. w' = [w EXCEPT ![k] = y]
    BY <1>1, <1>2, <1>14, <2>4, <2>5 DEF Written, DoneWrite
  <2>7. ListInv(y) /\ OwedInv(g, result, y)
    <3>1. OwedInv(g, result, x) /\ x.pc \in {"update", "write"}
      BY <1>9, <1>12, <2>2
    <3> QED BY <1>2, <1>10, <2>4, <2>5, <3>1, DoneDue
  <2> QED BY <1>9, <2>2, <2>3, <2>6, <2>7, DueMoves DEF MadeDue
<1>15. CASE Written(k, FALSE) /\ UNCHANGED hist
  BY <1>1, <1>9, <1>10, <1>15, WrittenDue
<1> QED BY <1>9, <1>13, <1>14, <1>15

LEMMA DecideDue ==
  ASSUME IndInv, DueInv, NEW k \in Workers, Decide(k)
  PROVE  DueInv'
<1>1. PICK x \in WorkerState : x = w[k]
  BY WorkerIs
<1>2. /\ WorkerInv(hist, x) /\ w \in [Workers -> WorkerState]
      /\ ListInv(x) /\ OwedInv(hist, result, x) /\ result \in [Requests -> Results]
  BY <1>1, WorkerIs, DueIs
<1>3. x.pc = "update" /\ x.writes = <<>> /\ UNCHANGED <<hist, members, caller>>
  BY <1>1 DEF Decide, storeVars
<1>4. x.locks # {} /\ Open(x) = x.failed
  <2>1. x.locks # {}
    BY <1>2, <1>3 DEF WorkerInv, PlaceInv
  <2> QED BY <1>3, <2>1, NoNames DEF Open
<1>5. ASSUME NEW res \in Results, res # DefaultDeny, Settle(k, res),
             w' = [w EXCEPT ![k].pc = "answer"], res = "nil" => x.failed = {}
      PROVE  DueInv'
  <2>1. /\ \A r \in Requests : r \notin Batch(k) => result'[r] = result[r]
        /\ \A r \in Requests : result'[r] = res /\ res = "nil" =>
             result[r] = "nil" \/ (r \in Batch(k) /\ result[r] = DefaultDeny)
        /\ \A r \in Requests : result'[r] = "nil" => result[r] = "nil" \/ res = "nil"
    BY <1>2, <1>5 DEF Settle
  <2>2. \A r \in Batch(k) : result'[r] # DefaultDeny
    BY <1>5, Settled
  <2>3. \A r \in Requests : result'[r] = "nil" =>
          result[r] = "nil" \/ \A q \in Quotas : Owes(q, r) => HasCharge(hist, q, r)
    <3> SUFFICES ASSUME NEW r \in Requests, result'[r] = "nil", result[r] # "nil",
                        NEW q \in Quotas, Owes(q, r)
                 PROVE  HasCharge(hist, q, r)
      OBVIOUS
    <3>1. r \in ToSet(x.batch) /\ result[r] = DefaultDeny /\ x.failed = {}
      BY <1>1, <1>5, <2>1 DEF Batch
    <3> QED BY <1>2, <1>4, <3>1 DEF OwedInv
  <2> QED BY <1>3, <1>5, <2>1, <2>2, <2>3, DueAnswered
<1>6. CASE x.failed = {}
  <2>1. Settle(k, "nil") /\ w' = [w EXCEPT ![k].pc = "answer"]
    BY <1>1, <1>6 DEF Decide
  <2> QED BY <1>5, <1>6, <2>1, Marks
<1>7. CASE x.failed # {}
  <2>1. \/ Settle(k, "failed") /\ w' = [w EXCEPT ![k].pc = "answer"]
        \/ UNCHANGED result /\ w' = [w EXCEPT ![k].pc = "list", ![k].retries = @ - 1]
    BY <1>1, <1>7 DEF Decide
  <2>2. CASE Settle(k, "failed") /\ w' = [w EXCEPT ![k].pc = "answer"]
    BY <1>5, <2>2, Marks
  <2>3. CASE UNCHANGED result /\ w' = [w EXCEPT ![k].pc = "list", ![k].retries = @ - 1]
    <3>1. PICK y : y = [x EXCEPT !.pc = "list", !.retries = x.retries - 1]
      OBVIOUS
    <3>2. w' = [w EXCEPT ![k] = y]
      BY <1>1, <1>2, <2>3, <3>1
    <3>3. /\ y.pc = "list" /\ y.batch = x.batch /\ y.ns = x.ns
          /\ y.locks = x.locks /\ y.failed = x.failed /\ y.todo = x.todo
          /\ y.docs = x.docs /\ y.writes = x.writes
      BY ONLY <3>1, x \in WorkerState DEF WorkerState
    <3>4. ListInv(y)
      BY <1>2, <1>3, <1>7, <3>3 DEF ListInv, Reading
    <3>5. Open(y) = Open(x)
      BY <1>3, <3>3 DEF Open
    <3>6. OwedInv(hist, result, y)
      BY <1>2, <3>3, <3>5, OwedStays
    <3> QED BY <1>3, <2>3, <3>2, <3>4, <3>6, DueStays
  <2> QED BY <2>1, <2>2, <2>3
<1> QED BY <1>6, <1>7

-----------------------------------------------------------------------------
(* The ends of GetQuotas.                                                    *)

\* Nothing that is chosen, or joined, gets lost.
LEMMA ChosenStay ==
  ASSUME NEW T, NEW D \in Seq(T), NEW S \in SUBSET (1..Len(D)),
         NEW W, W = Subsequence(D, S), NEW m \in S
  PROVE  \E i \in 1..Len(W) : W[i] = D[m]
<1>1. /\ Len(W) = Cardinality(S) /\ Rank(S, m) \in 1..Cardinality(S)
      /\ W[Rank(S, m)] = D[m]
  BY SubsequenceList
<1> QED BY <1>1

LEMMA JoinedStay ==
  ASSUME NEW s \in Seq(DocState), NEW t \in Seq(DocState), NEW u, u = Joined(s, t)
  PROVE  Names(s) \subseteq Names(u)
<1>1. PICK m \in Nat : m = Len(s)
  BY LenProperties
<1>2. PICK n \in Nat : n = Len(t)
  BY LenProperties
<1>3. /\ Len(u) = m + n
      /\ \A i \in 1..(m + n) : u[i] = IF i <= m THEN s[i] ELSE t[i - m]
  BY <1>1, <1>2, ConcatProperties DEF Joined
<1>4. \A i \in 1..m : i \in 1..(m + n) /\ i <= m
  BY ONLY m \in Nat, n \in Nat
<1>5. \A i \in 1..m : i \in 1..Len(u) /\ u[i] = s[i]
  BY ONLY <1>3, <1>4
<1> QED BY <1>1, <1>5 DEF Names

LEMMA NativeScopes ==
  ASSUME NEW ns, NEW N, N = NamespacedResourceQuotas(ns), N \in Seq(DocState)
  PROVE  \A i \in 1..Len(N) : N[i].scopes = Scopes[N[i].name]
<1>1. PICK s : s = SetToSeq({q \in Native : ns \in members[q]})
  OBVIOUS
<1>2. N = [i \in DOMAIN s |-> Doc(s[i], 1)]
  BY <1>1 DEF NamespacedResourceQuotas
<1>3. DOMAIN N = 1..Len(N) /\ DOMAIN N = DOMAIN s
  BY <1>2, LenProperties
<1>4. \A i \in 1..Len(N) : N[i] = Doc(s[i], 1)
  BY <1>2, <1>3
<1>5. \A q : Doc(q, 1).name = q /\ Doc(q, 1).scopes = Scopes[q]
  BY DEF Doc
<1> QED BY ONLY <1>4, <1>5

LEMMA ListedDue ==
  ASSUME IndInv, DueInv, NEW k \in Workers, Listed(k)
  PROVE  DueInv'
<1>1. PICK x \in WorkerState : x = w[k]
  BY WorkerIs
<1>2. /\ WorkerInv(hist, x) /\ HistType(hist) /\ w \in [Workers -> WorkerState]
      /\ ListInv(x) /\ OwedInv(hist, result, x)
  BY <1>1, WorkerIs, DueIs
<1>3. x.pc = "fetch" /\ x.todo = {} /\ UNCHANGED <<storeVars, caller>>
  BY <1>1 DEF Listed
<1>4. x.docs \in Seq(DocState) /\ x.writes = <<>>
  BY <1>2, <1>3 DEF WorkerInv, PlaceInv, WorkerState
<1>5. PICK N : N = NamespacedResourceQuotas(x.ns)
  OBVIOUS
<1>6. /\ N \in Seq(DocState) /\ Names(N) \subseteq Native
      /\ \A i \in 1..Len(N) : N[i].scopes = Scopes[N[i].name]
  BY <1>2, <1>5, NativeDocs, NativeScopes
<1>7. PICK D : D = Joined(x.docs, N)
  OBVIOUS
<1>8. /\ D \in Seq(DocState) /\ Names(x.docs) \subseteq Names(D)
      /\ \A i \in 1..Len(D) : \/ \E j \in 1..Len(x.docs) : D[i] = x.docs[j]
                              \/ \E j \in 1..Len(N) : D[i] = N[j]
  <2>1. x.docs \in Seq(DocState) /\ N \in Seq(DocState)
    BY <1>4, <1>6
  <2>2. JoinsWell(x.docs, N, D)
    BY ONLY <1>7, <2>1, ConcatDocs
  <2>3. Names(x.docs) \subseteq Names(D)
    BY ONLY <1>7, <2>1, JoinedStay
  <2> QED BY <2>2, <2>3 DEF JoinsWell
<1>9. /\ Selecting(x.ns) \subseteq Names(D)
      /\ \A j \in 1..Len(x.docs) : /\ x.docs[j].name \in Native \cup Selecting(x.ns)
                                   /\ x.docs[j].scopes = Scopes[x.docs[j].name]
      /\ \A r \in ToSet(x.batch) : Attr[r].ns = x.ns
      /\ x.failed \subseteq Selecting(x.ns)
      /\ x.locks # {} => x.failed # {}
  BY <1>2, <1>3, <1>8 DEF ListInv, Reading
<1>10. \A i \in 1..Len(D) : /\ D[i].name \in Native \cup Selecting(x.ns)
                            /\ D[i].scopes = Scopes[D[i].name]
  <2> TAKE i \in 1..Len(D)
  <2>1. CASE \E j \in 1..Len(x.docs) : D[i] = x.docs[j]
    BY <1>9, <2>1
  <2>2. CASE \E j \in 1..Len(N) : D[i] = N[j]
    BY <1>6, <2>2 DEF Names
  <2> QED BY <1>8, <2>1, <2>2
<1>11. PICK S : S = {i \in DOMAIN D : D[i].name \in x.failed}
  OBVIOUS
<1>12. \/ /\ D = <<>> /\ x.locks = {} /\ w' = [w EXCEPT ![k].pc = "answer"]
          /\ result' = [r \in Requests |-> IF r \in Batch(k) THEN "nil" ELSE result[r]]
       \/ /\ x.locks = {}
          /\ w' = [w EXCEPT ![k].pc = "lock", ![k].docs = D] /\ UNCHANGED result
       \/ /\ x.locks # {} /\ UNCHANGED result
          /\ w' = [w EXCEPT ![k].pc = "check", ![k].failed = {},
                            ![k].docs = Subsequence(D, S)]
       \/ GetQuotasFails(k)
  <2>1. D = w[k].docs \o NamespacedResourceQuotas(w[k].ns)
    BY <1>1, <1>5, <1>7 DEF Joined
  <2>2. S = {i \in DOMAIN D : D[i].name \in w[k].failed}
    BY <1>1, <1>11
  <2> QED BY ONLY <1>1, <2>1, <2>2, Listed(k) DEF Listed
<1>13. UNCHANGED <<hist, members, caller>>
  BY <1>3 DEF storeVars
<1>14. CASE GetQuotasFails(k)
  BY <1>3, <1>14, GetQuotasFailsDue
<1>15. CASE /\ D = <<>> /\ x.locks = {} /\ w' = [w EXCEPT ![k].pc = "answer"]
            /\ result' = [r \in Requests |-> IF r \in Batch(k) THEN "nil" ELSE result[r]]
  <2>1. Selecting(x.ns) = {}
    BY <1>9, <1>15, NoNames
  <2>2. \A r \in Batch(k) : result'[r] # DefaultDeny
    BY <1>15, Marks, Settled
  <2>3. \A r \in Requests : r \notin Batch(k) => result'[r] = result[r]
    BY <1>15
  <2>4. \A r \in Requests : result'[r] = "nil" =>
          result[r] = "nil" \/ \A q \in Quotas : Owes(q, r) => HasCharge(hist, q, r)
    <3> SUFFICES ASSUME NEW r \in Requests, result'[r] # result[r], NEW q \in Quotas, Owes(q, r)
                 PROVE  FALSE
      OBVIOUS
    <3>1. Attr[r].ns = x.ns
      BY <1>1, <1>9, <2>3 DEF Batch
    <3>2. q \in Selecting(Attr[r].ns)
      BY OwesWhat
    <3> QED BY <2>1, <3>1, <3>2
  <2> QED BY <1>13, <1>15, <2>2, <2>3, <2>4, DueAnswered
<1>16. CASE /\ x.locks = {}
            /\ w' = [w EXCEPT ![k].pc = "lock", ![k].docs = D] /\ UNCHANGED result
  <2>1. PICK y : y = [x EXCEPT !.pc = "lock", !.docs = D]
    OBVIOUS
  <2>2. w' = [w EXCEPT ![k] = y]
    BY <1>1, <1>2, <1>16, <2>1
  <2>3. /\ y.pc = "lock" /\ y.batch = x.batch /\ y.ns = x.ns
        /\ y.locks = x.locks /\ y.failed = x.failed /\ y.docs = D /\ y.writes = x.writes
    BY ONLY <2>1, x \in WorkerState DEF WorkerState
  <2>4. ListInv(y)
    BY <1>2, <1>9, <1>10, <2>3 DEF ListInv, Reading
  <2>5. Open(y) = Open(x)
    BY <1>3, <1>16, <2>3 DEF Open
  <2>6. OwedInv(hist, result, y)
    BY <1>2, <2>3, <2>5, OwedStays
  <2> QED BY <1>13, <1>16, <2>2, <2>4, <2>6, DueStays
<1>17. CASE /\ x.locks # {} /\ UNCHANGED result
            /\ w' = [w EXCEPT ![k].pc = "check", ![k].failed = {},
                              ![k].docs = Subsequence(D, S)]
  <2>1. PICK W : W = Subsequence(D, S)
    OBVIOUS
  <2>2. S \in SUBSET (1..Len(D)) /\ \A i \in 1..Len(D) : D[i].name \in x.failed => i \in S
    <3>1. DOMAIN D = 1..Len(D)
      BY <1>8, LenProperties
    <3> QED BY <1>11, <3>1
  <2>3. W \in Seq(DocState) /\ \A i \in 1..Len(W) : \E m \in S : W[i] = D[m]
    BY <1>8, <2>1, <2>2, SomeDocs
  <2>4. PICK y : y = [x EXCEPT !.pc = "check", !.failed = {}, !.docs = W]
    OBVIOUS
  <2>5. w' = [w EXCEPT ![k] = y]
    BY <1>1, <1>2, <1>17, <2>1, <2>4
  <2>6. /\ y.pc = "check" /\ y.batch = x.batch /\ y.ns = x.ns
        /\ y.locks = x.locks /\ y.failed = {} /\ y.docs = W /\ y.writes = x.writes
    BY ONLY <2>4, x \in WorkerState DEF WorkerState
  <2>7. x.failed \subseteq Names(W)
    <3> SUFFICES ASSUME NEW q \in x.failed PROVE q \in Names(W)
      OBVIOUS
    <3>1. PICK m \in 1..Len(D) : D[m].name = q
      BY <1>9 DEF Names
    <3>2. m \in S
      BY <2>2, <3>1
    <3>3. \E i \in 1..Len(W) : W[i] = D[m]
      BY <1>8, <2>1, <2>2, <3>2, ChosenStay
    <3> QED BY <3>1, <3>3 DEF Names
  <2>8. \A i \in 1..Len(W) : /\ W[i].name \in Native \cup Selecting(x.ns)
                             /\ W[i].scopes = Scopes[W[i].name]
    BY <1>10, <2>2, <2>3
  <2>9. Names(W) \cap Selecting(x.ns) # {}
    BY <1>9, <1>17, <2>7
  <2>10. ListInv(y)
    BY <1>2, <2>6, <2>8, <2>9 DEF ListInv, Reading
  <2>11. Open(x) \subseteq Open(y)
    <3>1. Open(y) = Names(W)
      BY <1>17, <2>6 DEF Open
    <3>2. Open(x) = x.failed
      BY <1>3, <1>4, <1>17, NoNames DEF Open
    <3> QED BY <2>7, <3>1, <3>2
  <2>12. OwedInv(hist, result, y)
    BY <1>2, <2>6, <2>11, OwedStays
  <2> QED BY <1>13, <1>17, <2>5, <2>10, <2>12, DueStays
<1> QED BY <1>12, <1>14, <1>15, <1>16, <1>17

LEMMA LockDue ==
  ASSUME IndInv, DueInv, NEW k \in Workers, Lock(k)
  PROVE  DueInv'
<1>1. PICK x \in WorkerState : x = w[k]
  BY WorkerIs
<1>2. /\ WorkerInv(hist, x) /\ w \in [Workers -> WorkerState]
      /\ ListInv(x) /\ OwedInv(hist, result, x)
  BY <1>1, WorkerIs, DueIs
<1> DEFINE names == {d.name : d \in ToSet(w[k].docs)}
           doc(q) == CHOOSE d \in ToSet(w[k].docs) : d.name = q
           S == {i \in DOMAIN ByName : ByName[i] \in names}
           s == Subsequence(ByName, S)
           D == [i \in DOMAIN s |-> doc(s[i])]
<1>0. /\ w[k].pc = "lock" /\ UNCHANGED <<storeVars, result, caller>>
      /\ w' = [w EXCEPT ![k].pc = "check", ![k].locks = names, ![k].docs = D]
  BY DEF Lock
<1>3. names = {d.name : d \in ToSet(x.docs)}
  BY <1>1
<1>4. \A q \in names : doc(q) \in ToSet(x.docs) /\ doc(q).name = q
  BY <1>1
<1> HIDE DEF names, doc
<1>5. S = {i \in DOMAIN ByName : ByName[i] \in names}
  OBVIOUS
<1> HIDE DEF S
<1>6. s = Subsequence(ByName, S)
  OBVIOUS
<1> HIDE DEF s
<1>7. D = [i \in DOMAIN s |-> doc(s[i])]
  OBVIOUS
<1> HIDE DEF D
<1>8. PICK y : y = [x EXCEPT !.pc = "check", !.locks = names, !.docs = D]
  OBVIOUS
<1>9. /\ x.pc = "lock" /\ UNCHANGED <<hist, members, result, caller>>
      /\ w' = [w EXCEPT ![k] = y]
  BY <1>0, <1>1, <1>2, <1>8 DEF storeVars
<1>10. /\ x.docs \in Seq(DocState) /\ x.failed = {} /\ x.writes = <<>>
       /\ x.docs # <<>>
  BY <1>2, <1>9 DEF WorkerInv, PlaceInv, WorkerState
<1>11. /\ ToSet(x.docs) # {} /\ \A d \in ToSet(x.docs) : d \in DocState
       /\ \A d \in ToSet(x.docs) : \E i \in 1..Len(x.docs) : x.docs[i] = d
       /\ \A i \in 1..Len(x.docs) : x.docs[i] \in ToSet(x.docs)
  <2>1. /\ ToSet(x.docs) \in SUBSET DocState
        /\ \A d \in ToSet(x.docs) : \E i \in 1..Len(x.docs) : x.docs[i] = d
        /\ \A i \in 1..Len(x.docs) : x.docs[i] \in ToSet(x.docs)
    BY <1>10, MembersOf
  <2>2. 1 \in 1..Len(x.docs)
    BY <1>10, LenProperties, EmptySeq
  <2> QED BY <2>1, <2>2
<1>12. names = Names(x.docs) /\ names \in SUBSET Quotas /\ names # {}
  BY <1>3, <1>11 DEF Names, DocState
<1>13. S \in SUBSET (1..Len(ByName)) /\ ByName \in Seq(Quotas)
       /\ \A q \in names : \E m \in S : ByName[m] = q
  <2>1. ByName \in Seq(Quotas) /\ ToSet(ByName) = Quotas
    BY StatusAssumption
  <2>2. DOMAIN ByName = 1..Len(ByName)
    BY <2>1, LenProperties
  <2>3. \A q \in Quotas : \E m \in 1..Len(ByName) : ByName[m] = q
    BY <2>1, MembersOf
  <2> QED BY <1>5, <1>12, <2>1, <2>2, <2>3
<1>14. s \in Seq(Quotas) /\ TakenFrom(s, ByName, S)
  BY <1>6, <1>13, SubsequencePlaces
<1>15. \A i \in 1..Len(s) : s[i] \in names
  BY <1>5, <1>14 DEF TakenFrom
<1>16. \A q \in names : \E i \in 1..Len(s) : s[i] = q
  <2> TAKE q \in names
  <2>1. PICK m \in S : ByName[m] = q
    BY <1>13
  <2>2. \E i \in 1..Len(s) : s[i] = ByName[m]
    BY <1>6, <1>13, ChosenStay
  <2> QED BY <2>1, <2>2
<1>17. DOMAIN s = 1..Len(s) /\ Len(s) \in Nat
  BY <1>14, LenProperties
<1>18. /\ \A i \in 1..Len(s) : D[i] \in ToSet(x.docs) /\ D[i].name = s[i]
       /\ D = [i \in 1..Len(s) |-> D[i]]
  BY <1>4, <1>7, <1>15, <1>17
<1>19. Len(D) = Len(s)
  <2>1. PICK n \in Nat : n = Len(s)
    BY <1>17
  <2>2. D = [i \in 1..n |-> D[i]] /\ \A i \in 1..n : D[i] \in DocState
    BY <1>11, <1>18, <2>1
  <2>3. Len(D) = n
    BY ONLY n \in Nat, <2>2
  <2> QED BY <2>1, <2>3
<1>20. Names(D) = Names(x.docs)
  <2>1. Names(D) = {D[i].name : i \in 1..Len(s)}
    BY <1>19 DEF Names
  <2>2. \A i \in 1..Len(s) : D[i].name \in names
    BY <1>15, <1>18
  <2>3. \A q \in names : \E i \in 1..Len(s) : D[i].name = q
    BY <1>16, <1>18
  <2> QED BY ONLY <1>12, <2>1, <2>2, <2>3
<1>21. /\ y.pc = "check" /\ y.batch = x.batch /\ y.ns = x.ns
       /\ y.locks = names /\ y.failed = x.failed /\ y.docs = D /\ y.writes = x.writes
  BY ONLY <1>8, x \in WorkerState DEF WorkerState
<1>22. /\ Selecting(x.ns) \subseteq Names(D)
       /\ \A j \in 1..Len(x.docs) : /\ x.docs[j].name \in Native \cup Selecting(x.ns)
                                    /\ x.docs[j].scopes = Scopes[x.docs[j].name]
       /\ \A r \in ToSet(x.batch) : Attr[r].ns = x.ns
  BY <1>2, <1>9, <1>20 DEF ListInv
<1>23. \A i \in 1..Len(D) : /\ D[i].name \in Native \cup Selecting(x.ns)
                            /\ D[i].scopes = Scopes[D[i].name]
  BY <1>11, <1>18, <1>19, <1>22
<1>24. ListInv(y)
  <2>1. Selecting(x.ns) # {} => Names(D) \cap Selecting(x.ns) # {}
    BY <1>22
  <2> QED BY <1>2, <1>21, <1>23, <2>1 DEF ListInv, Reading
<1>25. OwedInv(hist, result, y)
  <2>1. ASSUME NEW r \in ToSet(x.batch), NEW q \in Quotas, Owes(q, r) PROVE q \in Open(y)
    <3>1. r \in Requests
      BY <1>1, WorkerIs DEF Batch
    <3>2. q \in Selecting(x.ns)
      BY <1>22, <2>1, <3>1, OwesWhat
    <3> QED BY <1>12, <1>21, <1>22, <3>2 DEF Open
  <2>2. Len(y.writes) = 0
    BY <1>10, <1>21
  <2> QED BY <1>21, <2>1, <2>2 DEF OwedInv
<1> QED BY <1>9, <1>24, <1>25, DueStays

-----------------------------------------------------------------------------
(* Check.                                                                    *)

LEMMA GrowingGain ==
  ASSUME NEW hard, NEW r \in Requests, Growing(r), NEW n \in AllTracked
  PROVE  At(Gain(hard, r), n) >= 0
<1>1. PICK u : u = DeltaUsage(Attr[r])
  OBVIOUS
<1>2. At(u, n) >= 0
  BY <1>1 DEF Growing
<1>3. PICK g : g = Gain(hard, r)
  OBVIOUS
<1>4. g = [m \in DOMAIN u \cap DOMAIN hard |-> u[m]]
  BY <1>1, <1>3 DEF Gain, Mask
<1>5. At(g, n) = At(u, n) \/ At(g, n) = 0
  BY <1>4 DEF At
<1> QED BY <1>2, <1>3, <1>5

\* A total of what is not negative is not, and at least each part.
LEMMA TotalAtLeast ==
  ASSUME NEW S, IsFiniteSet(S), NEW f, DOMAIN f = S, \A x \in S : f[x] \in Usages,
         NEW n, \A x \in S : At(f[x], n) >= 0
  PROVE  Total(f, n) >= 0 /\ \A x \in S : Total(f, n) >= At(f[x], n)
<1>1. ASSUME NEW A, IsFiniteSet(A), NEW e, DOMAIN e = A, \A x \in A : e[x] \in Usages,
             \A x \in A : At(e[x], n) >= 0
      PROVE  Total(e, n) >= 0 /\ Total(e, n) \in Int
  <2> DEFINE g == [x \in A |-> At(e[x], n)]  z == [x \in A |-> 0]
  <2>1. \A x \in A : At(e[x], n) \in Int
    BY <1>1, UsageIs
  <2>2. g \in [A -> Int] /\ z \in [A -> Int] /\ \A x \in A : z[x] <= g[x]
    BY <1>1, <2>1
  <2>3. \A x \in A : z[x] = 0
    OBVIOUS
  <2>4. Total(e, n) = SumFunction(g)
    BY <1>1 DEF Total
  <2> HIDE DEF g, z
  <2>5. SumFunction(z) = 0 /\ SumFunction(z) <= SumFunction(g) /\ SumFunction(g) \in Int
    BY <1>1, <2>2, <2>3, SumZero, SumLess, SumInt
  <2> QED BY <2>4, <2>5
<1>2. Total(f, n) >= 0 /\ Total(f, n) \in Int
  BY <1>1
<1>3. ASSUME NEW x \in S PROVE Total(f, n) >= At(f[x], n)
  <2>1. PICK e : e = [y \in S \ {x} |-> f[y]]
    OBVIOUS
  <2>2. /\ DOMAIN e = S \ {x} /\ IsFiniteSet(S \ {x})
        /\ \A y \in S \ {x} : e[y] = f[y] /\ e[y] \in Usages /\ At(e[y], n) >= 0
    <3>1. IsFiniteSet(S \ {x})
      BY FS_Subset
    <3>2. DOMAIN e = S \ {x} /\ \A y \in S \ {x} : e[y] = f[y]
      BY <2>1
    <3> QED BY <3>1, <3>2
  <2>3. Total(f, n) = Total(e, n) + At(f[x], n)
    BY <2>2, TotalTakes
  <2>4. PICK a \in Int : a = Total(e, n) /\ a >= 0
    BY <1>1, <2>2
  <2>5. PICK b \in Int : b = At(f[x], n)
    BY UsageIs
  <2>6. a + b >= b
    BY ONLY <2>4, a \in Int, b \in Int
  <2> QED BY <2>3, <2>4, <2>5, <2>6
<1> QED BY <1>2, <1>3

\* A document is written when who owes it was charged to it.
LEMMA OwedNeedsWrite ==
  ASSUME HistType(hist), VersionsInv(hist), NEW d, DocInv(hist, d),
         NEW r \in d.charging, Owes(d.name, r), \A s \in d.charging : Growing(s)
  PROVE  NeedsWrite(d)
<1>1. /\ d \in DocState /\ d.name \in Quotas /\ d.rv \in 1..Len(hist[d.name])
      /\ d.charging \in SUBSET Requests /\ d.used \in Usages
      /\ d.hard = hist[d.name][d.rv].hard
      /\ ExactUsage(d.used, hist[d.name][d.rv].used, d.hard, d.charging)
  BY DEF DocInv, DocState
<1>2. PICK b \in VersionState : b = hist[d.name][d.rv]
  BY <1>1, VersionIs
<1>3. b.used \in Usages /\ d.hard = Hard[d.name]
  BY <1>1, <1>2 DEF VersionState, VersionsInv
<1>4. PICK n \in AllTracked : At(Gain(d.hard, r), n) # 0
  BY <1>1, <1>3, OwesWhat
<1>5. PICK f : f = [s \in d.charging |-> Gain(d.hard, s)]
  OBVIOUS
<1>6. /\ DOMAIN f = d.charging /\ IsFiniteSet(d.charging)
      /\ \A s \in d.charging : f[s] \in Usages /\ At(f[s], n) >= 0 /\ f[s] = Gain(d.hard, s)
  <2>1. IsFiniteSet(d.charging)
    BY <1>1, StatusAssumption, FS_Subset
  <2>2. \A s \in d.charging : f[s] = Gain(d.hard, s)
    BY <1>5
  <2>3. \A s \in d.charging : f[s] \in Usages /\ At(f[s], n) >= 0
    BY <1>1, <2>2, Gains, GrowingGain
  <2> QED BY <1>5, <2>1, <2>2, <2>3
<1>7. PICK t \in Int : t = Total(f, n) /\ t >= At(f[r], n)
  BY <1>6, TotalOf, TotalAtLeast
<1>8. PICK a \in Int : a = At(f[r], n) /\ a # 0 /\ a >= 0
  BY <1>4, <1>6, UsageIs
<1>9. PICK u \in Int : u = At(d.used, n)
  BY <1>1, UsageIs
<1>10. PICK v \in Int : v = At(b.used, n)
  BY <1>3, UsageIs
<1>11. u = v + t
  BY <1>1, <1>2, <1>5, <1>7, <1>9, <1>10 DEF ExactUsage
<1>12. u # v
  BY ONLY <1>7, <1>8, <1>11, u \in Int, v \in Int, t \in Int, a \in Int
<1>13. ~Equals(b.used, d.used)
  <2>1. b.used # d.used
    BY <1>9, <1>10, <1>12
  <2> QED BY <1>1, <1>3, <2>1, EqualLists
<1>14. d.name \notin Native
  BY DEF Owes
<1> QED BY <1>2, <1>13, <1>14 DEF NeedsWrite

LEMMA CheckDue ==
  ASSUME CountedAlike, IndInv, DueInv, NEW k \in Workers, Check(k)
  PROVE  DueInv'
<1>1. PICK x \in WorkerState : x = w[k]
  BY WorkerIs
<1>2. /\ WorkerInv(hist, x) /\ HistType(hist) /\ w \in [Workers -> WorkerState]
      /\ result \in [Requests -> Results]
      /\ ListInv(x) /\ OwedInv(hist, result, x) /\ VersionsInv(hist)
  BY <1>1, WorkerIs, DueIs
<1>3. PICK st : st = CheckBatch(x.docs, x.batch, result, Attr)
  OBVIOUS
<1>4. PICK D, R : D = st.docs /\ R = st.result
  OBVIOUS
<1>5. x.pc = "check" /\ UNCHANGED <<hist, members, caller>>
  BY <1>1 DEF Check, storeVars
<1>6. /\ x.docs \in Seq(DocState) /\ Distinct(x.docs) /\ x.batch \in Seq(Requests)
      /\ \A n \in 1..Len(x.docs) : DocInv(hist, x.docs[n]) /\ x.docs[n].charging = {}
      /\ IsInjective(x.batch) /\ x.failed = {} /\ x.locks # {} /\ x.writes = <<>>
  BY <1>2, <1>5 DEF WorkerInv, PlaceInv, DocsInv, WorkerState
<1>7. /\ \A n \in 1..Len(x.docs) : /\ x.docs[n].name \in Native \cup Selecting(x.ns)
                                   /\ x.docs[n].scopes = Scopes[x.docs[n].name]
      /\ Selecting(x.ns) # {} => Names(x.docs) \cap Selecting(x.ns) # {}
      /\ \A r \in ToSet(x.batch) : Attr[r].ns = x.ns
  BY <1>2, <1>5 DEF ListInv
<1>8. /\ LoopInv(hist, x.docs, result, x.batch, Len(x.batch), st)
      /\ DueLoop(x.docs, result, x.batch, Len(x.batch), st)
  BY <1>2, <1>3, <1>6, <1>7, BatchChecked, BatchDue
<1>9. /\ R \in [Requests -> Results]
      /\ \A r \in Requests : result[r] # DefaultDeny => R[r] # DefaultDeny
      /\ D \in Seq(DocState) /\ Len(D) = Len(x.docs)
      /\ \A n \in 1..Len(D) : /\ DocInv(hist, D[n]) /\ D[n].name = x.docs[n].name
                              /\ \A r \in D[n].charging : Growing(r)
      /\ \A j \in 1..Len(x.batch) : R[x.batch[j]] # DefaultDeny \/ Charging(D)
      /\ \A r \in Requests : r \notin {x.batch[j] : j \in 1..Len(x.batch)} => R[r] = result[r]
      /\ \A j \in 1..Len(x.batch) : \A n \in 1..Len(x.docs) :
           Owes(x.docs[n].name, x.batch[j]) =>
             /\ R[x.batch[j]] = DefaultDeny => x.batch[j] \in D[n].charging
             /\ R[x.batch[j]] = "nil" => result[x.batch[j]] = "nil"
  BY <1>4, <1>8 DEF LoopInv, DueLoop
<1>10. /\ {x.batch[j] : j \in 1..Len(x.batch)} = ToSet(x.batch)
       /\ \A r \in ToSet(x.batch) : \E j \in 1..Len(x.batch) : x.batch[j] = r
       /\ ToSet(x.batch) \in SUBSET Requests
  BY <1>6, MembersOf
<1>11. \A r \in ToSet(x.batch) :
         /\ R[r] # DefaultDeny \/ Charging(D)
         /\ \A n \in 1..Len(x.docs) : Owes(x.docs[n].name, r) =>
              /\ R[r] = DefaultDeny => r \in D[n].charging
              /\ R[r] = "nil" => result[r] = "nil"
  BY <1>9, <1>10
<1>12. PICK changed \in BOOLEAN : changed = \E d \in ToSet(D) : d.charging # {}
  OBVIOUS
<1>13. changed = Charging(D)
  <2>1. /\ \A i \in 1..Len(D) : D[i] \in ToSet(D)
        /\ \A d \in ToSet(D) : \E i \in 1..Len(D) : D[i] = d
    BY <1>9, MembersOf
  <2> QED BY <1>12, <2>1 DEF Charging
<1>14. PICK S : S = {i \in DOMAIN D : NeedsWrite(D[i])}
  OBVIOUS
<1>15. /\ S \in SUBSET (1..Len(D)) /\ \A i \in S : D[i].name \notin Native
       /\ \A i \in 1..Len(D) : NeedsWrite(D[i]) => i \in S
  <2>1. DOMAIN D = 1..Len(D)
    BY <1>9, LenProperties
  <2> QED BY <1>14, <2>1 DEF NeedsWrite
<1>16. PICK W : W = Subsequence(D, S)
  OBVIOUS
<1>17. W \in Seq(DocState) /\ \A i \in 1..Len(W) : \E m \in S : W[i] = D[m]
  BY <1>9, <1>15, <1>16, SomeDocs
<1>18. \A m \in S : \E i \in 1..Len(W) : W[i] = D[m]
  BY <1>9, <1>15, <1>16, ChosenStay
<1>19. PICK to : to = IF changed THEN "update" ELSE "answer"
  OBVIOUS
<1>20. PICK y : y = [x EXCEPT !.pc = to, !.docs = D, !.writes = W]
  OBVIOUS
<1>21. w' = [w EXCEPT ![k] = y] /\ result' = R
  BY <1>1, <1>2, <1>3, <1>4, <1>12, <1>14, <1>16, <1>19, <1>20 DEF Check
<1>22. /\ y.pc = to /\ y.batch = x.batch /\ y.ns = x.ns
       /\ y.locks = x.locks /\ y.failed = x.failed /\ y.docs = D /\ y.writes = W
  BY ONLY <1>20, x \in WorkerState DEF WorkerState
<1>23. to = "update" \/ to = "answer"
  BY <1>19
<1>24. ListInv(y)
  <2>1. \A i \in 1..Len(W) : /\ W[i].name \in Selecting(x.ns)
                             /\ \A r \in W[i].charging : Growing(r)
    <3> TAKE i \in 1..Len(W)
    <3>1. PICK m \in S : W[i] = D[m]
      BY <1>17
    <3> QED BY <1>7, <1>9, <1>15, <3>1
  <2>2. Names(W) \subseteq Selecting(x.ns)
    BY <2>1 DEF Names
  <2> QED BY <1>6, <1>7, <1>22, <1>23, <2>1, <2>2 DEF ListInv, Reading
<1>25. OwedInv(hist, R, y)
  <2> SUFFICES ASSUME NEW r \in ToSet(x.batch), R[r] = DefaultDeny
               PROVE  /\ \A q \in Quotas : Owes(q, r) => q \in Open(y) \/ HasCharge(hist, q, r)
                      /\ \A i \in 1..Len(W) : Owes(W[i].name, r) => r \in W[i].charging
    BY <1>22 DEF OwedInv
  <2>1. changed /\ y.pc = "update" /\ Open(y) = Names(W)
    <3>1. changed
      BY <1>11, <1>13
    <3>2. y.pc = "update"
      BY <1>19, <1>22, <3>1
    <3> QED BY <1>6, <1>22, <3>1, <3>2 DEF Open
  <2>2. result[r] = DefaultDeny
    BY <1>9, <1>10
  <2>3. ASSUME NEW q \in Quotas, Owes(q, r), ~HasCharge(hist, q, r) PROVE q \in Names(W)
    <3>1. q \in Open(x)
      BY <1>2, <2>2, <2>3 DEF OwedInv
    <3>2. Open(x) = Names(x.docs)
      BY <1>5, <1>6 DEF Open
    <3>3. PICK n \in 1..Len(x.docs) : x.docs[n].name = q
      BY <3>1, <3>2 DEF Names
    <3>4. /\ n \in 1..Len(D) /\ r \in D[n].charging /\ D[n].name = q /\ DocInv(hist, D[n])
          /\ \A s \in D[n].charging : Growing(s)
      BY <1>9, <1>11, <2>3, <3>3
    <3>5. NeedsWrite(D[n])
      BY <1>2, <2>3, <3>4, OwedNeedsWrite
    <3>6. \E i \in 1..Len(W) : W[i] = D[n]
      BY <1>15, <1>18, <3>4, <3>5
    <3> QED BY <3>4, <3>6 DEF Names
  <2>4. ASSUME NEW i \in 1..Len(W), Owes(W[i].name, r) PROVE r \in W[i].charging
    <3>1. PICK m \in S : W[i] = D[m]
      BY <1>17
    <3>2. m \in 1..Len(x.docs) /\ D[m].name = x.docs[m].name
      BY <1>9, <1>15
    <3> QED BY <1>11, <2>4, <3>1, <3>2
  <2> QED BY <2>1, <2>3, <2>4
<1>26. \A r \in Requests : r \notin Batch(k) => R[r] = result[r]
  BY <1>1, <1>9, <1>10 DEF Batch
<1>27. \A r \in Requests : R[r] = "nil" =>
         result[r] = "nil" \/ \A q \in Quotas : Owes(q, r) => HasCharge(hist, q, r)
  <2> SUFFICES ASSUME NEW r \in Requests, R[r] = "nil", result[r] # "nil",
                      NEW q \in Quotas, Owes(q, r)
               PROVE  FALSE
    OBVIOUS
  <2>1. r \in ToSet(x.batch) /\ Attr[r].ns = x.ns
    BY <1>1, <1>7, <1>26 DEF Batch
  <2>2. q \in Selecting(x.ns)
    BY <2>1, OwesWhat
  <2>3. PICK p : p \in Names(x.docs) /\ p \in Selecting(x.ns)
    BY <1>7, <2>2
  <2>4. Owes(p, r)
    BY <2>1, <2>3 DEF CountedAlike, Owes, Selecting
  <2>5. PICK n \in 1..Len(x.docs) : x.docs[n].name = p
    BY <2>3 DEF Names
  <2> QED BY <1>11, <2>1, <2>4, <2>5
<1>28. VersionsInv(hist') /\ hist' = hist
  BY <1>2, <1>5
<1>29. \A r \in Requests : caller'[r] = "admitted" => caller[r] = "admitted"
  BY <1>5
<1> QED BY <1>5, <1>21, <1>24, <1>25, <1>26, <1>27, <1>28, <1>29, DueMoves

-----------------------------------------------------------------------------
(* Begin, Answer, Timeout and Informer, and all steps.                       *)

\* A worker without documents and writes, and with nobody, or somebody new.
LEMMA EmptyDue ==
  ASSUME NEW h, NEW res, NEW y, y.pc \in {"idle", "list"}, y.failed = {}, y.locks = {},
         y.docs = <<>>, y.writes = <<>>, \A r \in ToSet(y.batch) : Attr[r].ns = y.ns,
         y.pc = "idle" => ToSet(y.batch) = {}
  PROVE  ListInv(y) /\ OwedInv(h, res, y)
<1>1. Names(y.writes) = {} /\ Len(y.writes) = 0
  BY NoNames
<1>2. ~Reading(y)
  BY DEF Reading
<1>3. ListInv(y)
  BY <1>1, <1>2 DEF ListInv
<1>4. y.pc = "list" => Open(y) = Quotas
  BY DEF Open
<1>5. OwedInv(h, res, y)
  BY <1>1, <1>4 DEF OwedInv
<1> QED BY <1>3, <1>5

\* So it is with a worker that has nothing to do.
LEMMA IdleDue ==
  ASSUME NEW h, NEW res
  PROVE  ListInv(Idle) /\ OwedInv(h, res, Idle)
<1>1. PICK y \in WorkerState : y = Idle
  BY IdleIs
<1>2. /\ y.pc = "idle" /\ y.failed = {} /\ y.locks = {}
      /\ y.docs = <<>> /\ y.writes = <<>> /\ y.batch = <<>>
  BY <1>1, IdleIs
<1>3. ToSet(y.batch) = {}
  BY <1>2, NothingListed
<1>4. ListInv(y) /\ OwedInv(h, res, y)
  <2>1. /\ y.pc \in {"idle", "list"} /\ \A r \in ToSet(y.batch) : Attr[r].ns = y.ns
        /\ (y.pc = "idle" => ToSet(y.batch) = {})
    BY <1>2, <1>3
  <2> QED BY <1>2, <2>1, EmptyDue
<1> QED BY <1>1, <1>4

LEMMA BeginDue ==
  ASSUME IndInv, DueInv, NEW k \in Workers, Begin(k)
  PROVE  DueInv'
<1> DEFINE New(ns) == {r \in Requests : caller[r] = "new" /\ Attr[r].ns = ns}
<1>a. PICK ns \in Namespaces : \E b \in SetToAllKPermutations(New(ns)) :
        /\ w' = [w EXCEPT ![k] = [Idle EXCEPT !.pc = "list", !.ns = ns,
                                    !.batch = b, !.retries = Retries]]
        /\ caller' = [r \in Requests |->
                        IF r \in ToSet(b) THEN "waiting" ELSE caller[r]]
  BY DEF Begin
<1>1. PICK b \in SetToAllKPermutations(New(ns)) :
        /\ w' = [w EXCEPT ![k] = [Idle EXCEPT !.pc = "list", !.ns = ns,
                                    !.batch = b, !.retries = Retries]]
        /\ caller' = [r \in Requests |->
                        IF r \in ToSet(b) THEN "waiting" ELSE caller[r]]
  BY <1>a
<1>2. UNCHANGED <<hist, members, result>>
  BY DEF Begin, storeVars
<1>3. \A r \in ToSet(b) : Attr[r].ns = ns
  <2>1. PICK N : N = New(ns)
    OBVIOUS
  <2>2. N \in SUBSET Requests
    BY <2>1
  <2>3. IsFiniteSet(N)
    BY <2>2, StatusAssumption, FS_Subset
  <2>4. b \in SetToAllKPermutations(N)
    BY <2>1
  <2>5. b \in Seq(N)
    BY <2>3, <2>4, SomeOrder
  <2>6. ToSet(b) \in SUBSET N
    BY <2>5, MembersOf
  <2> QED BY <2>1, <2>6
<1> HIDE DEF New
<1>4. PICK i \in WorkerState : i = Idle
  BY IdleIs
<1>5. PICK y : y = [i EXCEPT !.pc = "list", !.ns = ns, !.batch = b, !.retries = Retries]
  OBVIOUS
<1>6. w' = [w EXCEPT ![k] = y]
  BY <1>1, <1>4, <1>5
<1>7. /\ y.pc = "list" /\ y.ns = ns /\ y.batch = b
      /\ y.failed = i.failed /\ y.locks = i.locks /\ y.docs = i.docs /\ y.writes = i.writes
  BY ONLY <1>5, i \in WorkerState DEF WorkerState
<1>8. y.failed = {} /\ y.locks = {} /\ y.docs = <<>> /\ y.writes = <<>>
  BY <1>4, <1>7, IdleIs
<1>9. ListInv(y) /\ OwedInv(hist', result', y)
  BY <1>3, <1>7, <1>8, EmptyDue
<1>10. \A r \in Requests : caller'[r] = "admitted" => caller[r] = "admitted"
  BY <1>1
<1>11. VersionsInv(hist')
  BY <1>2 DEF DueInv
<1> QED BY <1>2, <1>6, <1>9, <1>10, <1>11, DueMoves

LEMMA AnswerDue ==
  ASSUME IndInv, DueInv, NEW k \in Workers, Answer(k)
  PROVE  DueInv'
<1>1. /\ caller' = [r \in Requests |->
                      IF r \in Batch(k) /\ caller[r] = "waiting"
                      THEN IF result[r] = "nil" THEN "admitted" ELSE "refused"
                      ELSE caller[r]]
      /\ w' = [w EXCEPT ![k] = Idle] /\ UNCHANGED <<hist, members, result>>
  BY DEF Answer, storeVars
<1>2. \A r \in Requests : caller'[r] = "admitted" => caller[r] = "admitted" \/ result[r] = "nil"
  BY <1>1
<1>3. ListInv(Idle) /\ OwedInv(hist', result', Idle)
  BY IdleDue
<1>4. VersionsInv(hist')
  BY <1>1 DEF DueInv
<1> QED BY <1>1, <1>2, <1>3, <1>4, DueMoves

\* The documents, the members, the workers and the results stay.
LEMMA OthersDue ==
  ASSUME DueInv, UNCHANGED <<hist, members, w, result>>,
         \A r \in Requests : caller'[r] = "admitted" => caller[r] = "admitted"
  PROVE  DueInv'
<1>1. AnswersInv'
  BY DEF DueInv, AnswersInv
<1> QED BY <1>1 DEF DueInv

LEMMA TimeoutDue ==
  ASSUME IndInv, DueInv, NEW r \in Requests, Timeout(r)
  PROVE  DueInv'
<1>1. caller' = [caller EXCEPT ![r] = "timedOut"] /\ UNCHANGED <<hist, members, w, result>>
  BY DEF Timeout, storeVars
<1>2. caller \in [Requests -> Answers]
  BY DEF IndInv, CallersInv
<1>3. \A s \in Requests : caller'[s] = "admitted" => caller[s] = "admitted"
  BY <1>1, <1>2
<1> QED BY <1>1, <1>3, OthersDue

LEMMA InformerDue ==
  ASSUME DueInv, NEW q \in Quotas, Informer(q)
  PROVE  DueInv'
<1>1. UNCHANGED <<hist, members, w, result, caller>>
  BY DEF Informer
<1> QED BY <1>1, OthersDue

LEMMA DueInit == CountedAlike /\ Init => DueInv
<1> SUFFICES ASSUME CountedAlike, Init PROVE DueInv
  OBVIOUS
<1>1. /\ hist = [q \in Quotas |-> <<Created(q)>>] /\ members = Members
      /\ w = [k \in Workers |-> Idle]
      /\ result = [r \in Requests |-> DefaultDeny] /\ caller = [r \in Requests |-> "new"]
  BY DEF Init
<1>2. Fresh = {}
  BY DEF CountedAlike
<1>3. VersionsInv(hist)
  <2> SUFFICES ASSUME NEW q \in Quotas, NEW i \in 1..Len(hist[q])
               PROVE  /\ hist[q][i].alive /\ hist[q][i].hard = Hard[q]
                      /\ \A r \in hist[q][i].charged : Growing(r)
                      /\ IF i = 1 THEN \A n : At(hist[q][i].used, n) = 0
                         ELSE hist[q][i].by = "admit"
    BY DEF VersionsInv
  <2>1. PICK v \in VersionState : v = Created(q)
    BY CreatedIs
  <2>2. hist[q] = <<v>>
    BY <1>1, <2>1
  <2>3. Len(<<v>>) = 1 /\ <<v>>[1] = v
    BY ONLY v \in VersionState
  <2>4. i = 1 /\ hist[q][i] = v
    <3>1. i \in 1..1
      BY <2>2, <2>3
    <3>2. i = 1
      BY ONLY <3>1
    <3> QED BY <2>2, <2>3, <3>2
  <2>5. PICK z : z = [n \in DOMAIN Hard[q] \cap AllTracked |-> 0]
    OBVIOUS
  <2>6. v.alive /\ v.hard = Hard[q] /\ v.charged = {} /\ v.used = z
    BY <1>2, <2>1, <2>5 DEF Created
  <2>7. \A n : At(z, n) = 0
    BY <2>5 DEF At
  <2> QED BY <2>4, <2>6, <2>7
<1>4. AnswersInv
  BY <1>1 DEF AnswersInv, DefaultDeny
<1>5. \A k \in Workers : w[k] = Idle
  BY <1>1
<1>6. ListInv(Idle) /\ OwedInv(hist, result, Idle)
  BY IdleDue
<1> QED BY <1>1, <1>3, <1>4, <1>5, <1>6 DEF DueInv

LEMMA DueNext ==
  ASSUME CountedAlike, IndInv, DueInv, [Next]_vars
  PROVE  DueInv'
<1>1. ASSUME NEW k \in Workers, Begin(k) \/ Lock(k) \/ WorkerStep(k) PROVE DueInv'
  BY <1>1, BeginDue, LockDue, ListNamesDue, FetchDue, CheckCacheDue, EvictDue,
     ListedDue, CheckDue, UpdateReadDue, WriteDue, CacheAddDue, DecideDue,
     AnswerDue DEF WorkerStep
<1>2. CASE UNCHANGED vars
  <2>1. UNCHANGED <<hist, members, w, result, caller>>
    BY <1>2 DEF vars, storeVars
  <2> QED BY <2>1, OthersDue
<1> QED BY <1>1, <1>2, TimeoutDue, InformerDue DEF Next

LEMMA ChargedIs ==
  ASSUME IndInv, NEW q \in Quotas, NEW r, HasCharge(hist, q, r)
  PROVE  r \in ChargedTo(q)
<1>1. PICK i \in 1..Len(hist[q]) : i > 1 /\ r \in hist[q][i].charged
  BY DEF HasCharge
<1>2. hist[q] \in Seq(VersionState)
  BY DEF IndInv, HistInv, HistType
<1>3. PICK n \in Nat : n = Len(hist[q])
  BY <1>2, LenProperties
<1>4. i \in 2..n
  BY ONLY <1>1, <1>3, n \in Nat
<1>5. i \in Versions(q)
  BY <1>3, <1>4 DEF Versions, Current
<1> QED BY <1>1, <1>5 DEF ChargedTo

LEMMA DueImplies ==
  ASSUME IndInv, DueInv
  PROVE  AdmittedCharged
<1> SUFFICES ASSUME NEW r \in Requests, NEW q \in Quotas \ Native, caller[r] = "admitted",
                    ~Attr[r].dryRun, ~IsZero(Delta(q, r))
             PROVE  r \in ChargedTo(q)
  BY DEF AdmittedCharged
<1>1. Owes(q, r)
  BY DEF Owes
<1>2. HasCharge(hist, q, r)
  BY <1>1 DEF DueInv, AnswersInv
<1> QED BY <1>2, ChargedIs

\* When every request adds to all the cluster quotas of its namespace or to
\* none, DueInv is an invariant beside IndInv.
THEOREM DueInvariant == ASSUME CountedAlike PROVE Spec => [](IndInv /\ DueInv)
<1>1. Init => IndInv /\ DueInv
  BY InitInv, DueInit
<1>2. (IndInv /\ DueInv) /\ [Next]_vars => (IndInv /\ DueInv)'
  BY NextInv, DueNext
<1> QED BY <1>1, <1>2, PTL DEF Spec

\* checkQuotas, its retries and its faults admit a request only after it was
\* charged to every cluster quota that counts it.
THEOREM AdmittedAreCharged == ASSUME CountedAlike PROVE Spec => []AdmittedCharged
<1>1. IndInv /\ DueInv => AdmittedCharged
  BY DueImplies
<1>2. Spec => [](IndInv /\ DueInv)
  BY DueInvariant
<1> QED BY <1>1, <1>2, PTL

-----------------------------------------------------------------------------
(* What the admitted requests use together.                                  *)

\* What the requests in S add to n together.
Gained(hard, S, n) == Total([r \in S |-> Gain(hard, r)], n)

LEMMA GainedOf ==
  ASSUME NEW hard, NEW S \in SUBSET Requests, NEW n
  PROVE  /\ IsFiniteSet(S) /\ Gained(hard, S, n) \in Int
         /\ (\A r \in S : At(Gain(hard, r), n) = 0) => Gained(hard, S, n) = 0
         /\ \A g : g = [r \in S |-> At(Gain(hard, r), n)] =>
              g \in [S -> Int] /\ Gained(hard, S, n) = SumFunction(g)
<1>1. IsFiniteSet(S)
  BY StatusAssumption, FS_Subset
<1>2. PICK f : f = [r \in S |-> Gain(hard, r)]
  OBVIOUS
<1>3. DOMAIN f = S /\ \A r \in S : f[r] = Gain(hard, r) /\ f[r] \in Usages
  BY <1>2, Gains
<1>4. Gained(hard, S, n) = Total(f, n)
  BY <1>2 DEF Gained
<1>5. Total(f, n) \in Int /\ ((\A r \in S : At(f[r], n) = 0) => Total(f, n) = 0)
  BY <1>1, <1>3, TotalOf
<1>6. ASSUME NEW g, g = [r \in S |-> At(Gain(hard, r), n)]
      PROVE  g \in [S -> Int] /\ Gained(hard, S, n) = SumFunction(g)
  <2>1. \A r \in S : At(f[r], n) \in Int /\ At(f[r], n) = At(Gain(hard, r), n)
    BY <1>3, UsageIs
  <2>2. g = [r \in S |-> At(f[r], n)]
    BY <1>6, <2>1
  <2>3. Total(f, n) = SumFunction(g)
    BY <1>3, <2>2 DEF Total
  <2> QED BY <1>4, <2>1, <2>2, <2>3
<1> QED BY <1>1, <1>3, <1>4, <1>5, <1>6

\* A set of requests adds what a part of it and the rest add.
LEMMA GainedSplit ==
  ASSUME NEW hard, NEW S \in SUBSET Requests, NEW A \in SUBSET S, NEW n
  PROVE  Gained(hard, S, n) = Gained(hard, A, n) + Gained(hard, S \ A, n)
<1>1. PICK f : f = [r \in S |-> At(Gain(hard, r), n)]
  OBVIOUS
<1>2. f \in [S -> Int] /\ Gained(hard, S, n) = SumFunction(f) /\ IsFiniteSet(S)
  BY <1>1, GainedOf
<1>3. PICK a : a = Part(f, A)
  OBVIOUS
<1>4. PICK b : b = Part(f, S \ A)
  OBVIOUS
<1>5. a = [r \in A |-> At(Gain(hard, r), n)]
  BY <1>1, <1>3 DEF Part
<1>6. b = [r \in S \ A |-> At(Gain(hard, r), n)]
  BY <1>1, <1>4 DEF Part
<1>7. A \in SUBSET Requests /\ S \ A \in SUBSET Requests
  OBVIOUS
<1>8. Gained(hard, A, n) = SumFunction(a) /\ Gained(hard, S \ A, n) = SumFunction(b)
  BY <1>5, <1>6, <1>7, GainedOf
<1>9. SumFunction(f) = SumFunction(a) + SumFunction(b)
  BY <1>2, <1>3, <1>4, SumSplit
<1> QED BY <1>2, <1>8, <1>9

LEMMA GainedGrows ==
  ASSUME NEW hard, NEW S \in SUBSET Requests, \A r \in S : Growing(r),
         NEW n \in AllTracked
  PROVE  /\ Gained(hard, S, n) >= 0
         /\ \A A \in SUBSET S : Gained(hard, A, n) <= Gained(hard, S, n)
<1>1. ASSUME NEW A \in SUBSET S PROVE Gained(hard, A, n) >= 0
  <2>1. PICK f : f = [r \in A |-> Gain(hard, r)]
    OBVIOUS
  <2>2. DOMAIN f = A /\ \A r \in A : f[r] = Gain(hard, r) /\ f[r] \in Usages
    BY <2>1, Gains
  <2>3. \A r \in A : At(f[r], n) >= 0
    BY <2>2, GrowingGain
  <2>4. IsFiniteSet(A)
    BY GainedOf
  <2>5. Total(f, n) >= 0
    BY <2>2, <2>3, <2>4, TotalAtLeast
  <2> QED BY <2>1, <2>5 DEF Gained
<1>2. ASSUME NEW A \in SUBSET S PROVE Gained(hard, A, n) <= Gained(hard, S, n)
  <2>1. PICK a \in Int : a = Gained(hard, A, n)
    BY GainedOf
  <2>2. S \ A \in SUBSET Requests /\ S \ A \in SUBSET S
    OBVIOUS
  <2>3. PICK b \in Int : b = Gained(hard, S \ A, n) /\ b >= 0
    BY <1>1, <2>2, GainedOf
  <2>4. Gained(hard, S, n) = a + b
    BY <2>1, <2>3, GainedSplit
  <2>5. a <= a + b
    BY ONLY <2>3, a \in Int, b \in Int
  <2> QED BY <2>1, <2>4, <2>5
<1> QED BY <1>1, <1>2

LEMMA GainedUnion ==
  ASSUME NEW hard, NEW A \in SUBSET Requests, NEW B \in SUBSET Requests,
         \A r \in B : Growing(r), NEW n \in AllTracked
  PROVE  Gained(hard, A \cup B, n) <= Gained(hard, A, n) + Gained(hard, B, n)
<1>1. PICK S \in SUBSET Requests : S = A \cup B
  OBVIOUS
<1>2. PICK C \in SUBSET B : C = S \ A
  BY <1>1
<1>3. Gained(hard, S, n) = Gained(hard, A, n) + Gained(hard, C, n)
  BY <1>1, <1>2, GainedSplit
<1>4. PICK a \in Int : a = Gained(hard, A, n)
  BY GainedOf
<1>5. PICK b \in Int : b = Gained(hard, B, n)
  BY GainedOf
<1>6. PICK c \in Int : c = Gained(hard, C, n) /\ c <= b
  <2>1. C \in SUBSET Requests
    OBVIOUS
  <2> QED BY <1>5, <2>1, GainedOf, GainedGrows
<1>7. a + c <= a + b
  BY ONLY <1>6, a \in Int, b \in Int, c \in Int
<1> QED BY <1>1, <1>3, <1>4, <1>5, <1>6, <1>7

\* The requests charged to q up to its version i.
ChargedUpTo(h, q, i) == UNION {h[q][j].charged : j \in 2..i}

\* The next version of a document without foreign writes stays within the
\* limits and above what has been charged.
LEMMA VersionFits ==
  ASSUME NEW hard \in Limits, NEW u \in VersionState, NEW v \in VersionState,
         NEW C \in SUBSET Requests, ChargeInv(u, v), v.by = "admit", u.hard = hard,
         \A r \in v.charged : Growing(r), NEW n \in AllTracked, n \in DOMAIN hard,
         Gained(hard, C, n) <= At(u.used, n), At(u.used, n) <= hard[n]
  PROVE  Gained(hard, C \cup v.charged, n) <= At(v.used, n) /\ At(v.used, n) <= hard[n]
<1>1. PICK B \in SUBSET Requests : B = v.charged
  BY DEF VersionState
<1>2. u.used \in Usages /\ v.used \in Usages
  BY DEF VersionState
<1>3. PICK a \in Int : a = At(u.used, n)
  BY <1>2, UsageIs
<1>4. PICK b \in Int : b = At(v.used, n)
  BY <1>2, UsageIs
<1>5. PICK g \in Int : g = Gained(hard, B, n)
  BY GainedOf
<1>6. PICK c \in Int : c = Gained(hard, C, n)
  BY GainedOf
<1>7. PICK d \in Int : d = Gained(hard, C \cup B, n) /\ d <= c + g
  <2>1. C \cup B \in SUBSET Requests
    OBVIOUS
  <2>2. Gained(hard, C \cup B, n) \in Int
    BY <2>1, GainedOf
  <2> QED BY <1>1, <1>5, <1>6, <2>2, GainedUnion
<1>8. PICK L \in Int : L = hard[n]
  BY ListsAre DEF Limits, IsResourceList
<1>9. b = a + g
  <2>1. ExactUsage(v.used, u.used, hard, B)
    BY <1>1 DEF ChargeInv
  <2> QED BY <1>3, <1>4, <1>5, <2>1 DEF ExactUsage, Gained
<1>10. c <= a /\ a <= L
  BY <1>3, <1>6, <1>8
<1>11. d <= b
  BY ONLY <1>7, <1>9, <1>10, a \in Int, b \in Int, c \in Int, d \in Int, g \in Int
<1>12. b <= L
  <2>1. CASE \E r \in B : n \in DOMAIN Gain(hard, r)
    <3>1. n \in DOMAIN v.used /\ v.used[n] <= hard[n]
      BY <1>1, <2>1 DEF ChargeInv, WithinLimits
    <3> QED BY <1>4, <1>8, <3>1 DEF At
  <2>2. CASE \A r \in B : n \notin DOMAIN Gain(hard, r)
    <3>1. \A r \in B : At(Gain(hard, r), n) = 0
      BY <2>2 DEF At
    <3>2. g = 0
      BY <1>5, <3>1, GainedOf
    <3>3. b = a
      BY ONLY <1>9, <3>2, a \in Int, b \in Int
    <3> QED BY <1>10, <3>3
  <2> QED BY <2>1, <2>2
<1> QED BY <1>1, <1>4, <1>7, <1>8, <1>11, <1>12

LEMMA HistoryFits ==
  ASSUME NEW h, HistInv(h), VersionsInv(h), NEW q \in Quotas, NEW n \in AllTracked,
         n \in DOMAIN Hard[q], Hard[q][n] >= 0
  PROVE  \A i \in 1..Len(h[q]) :
           /\ Gained(Hard[q], ChargedUpTo(h, q, i), n) <= At(h[q][i].used, n)
           /\ At(h[q][i].used, n) <= Hard[q][n]
<1> DEFINE Good(i) == /\ Gained(Hard[q], ChargedUpTo(h, q, i), n) <= At(h[q][i].used, n)
                      /\ At(h[q][i].used, n) <= Hard[q][n]
           T == {i \in 1..Len(h[q]) : ~Good(i)}
<1> SUFFICES ASSUME T # {} PROVE FALSE
  OBVIOUS
<1>1. HistType(h) /\ h[q] \in Seq(VersionState)
  BY DEF HistInv, HistType
<1>2. PICK k \in Nat : k = Len(h[q])
  BY <1>1, LenProperties
<1>3. PICK m \in T : \A i \in T : m <= i
  <2>1. T \subseteq Nat
    BY <1>2
  <2> HIDE DEF T
  <2> QED BY <2>1, LeastElement
<1>4. m \in 1..k /\ ~Good(m)
  BY <1>2
<1>5. \A i \in 1..k : i < m => Good(i)
  BY <1>2, <1>3
<1> HIDE DEF T
<1>6. ASSUME m = 1 PROVE FALSE
  <2>1. ChargedUpTo(h, q, m) = {}
    <3>1. 2..m = {}
      BY <1>6
    <3> QED BY <3>1 DEF ChargedUpTo
  <2>2. Gained(Hard[q], {}, n) = 0
    BY GainedOf
  <2>3. At(h[q][m].used, n) = 0
    BY <1>2, <1>4, <1>6 DEF VersionsInv
  <2> QED BY <1>4, <2>1, <2>2, <2>3
<1>7. ASSUME m # 1 PROVE FALSE
  <2>1. PICK j \in 1..k : j = m - 1 /\ j < m /\ m > 1
    BY ONLY <1>4, <1>7, k \in Nat
  <2>2. PICK u \in VersionState : u = h[q][j]
    BY <1>1, <1>2, VersionIs
  <2>3. PICK v \in VersionState : v = h[q][m]
    BY <1>1, <1>2, <1>4, VersionIs
  <2>4. ChargeInv(u, v)
    BY <1>2, <1>4, <2>1, <2>2, <2>3 DEF HistInv
  <2>5. u.hard = Hard[q]
    BY <1>2, <2>2 DEF VersionsInv
  <2>6. v.by = "admit" /\ \A r \in v.charged : Growing(r)
    BY <1>2, <1>4, <1>7, <2>3 DEF VersionsInv
  <2>7. PICK hard \in Limits : hard = Hard[q]
    BY <2>5 DEF VersionState
  <2>8. Good(j)
    BY <1>5, <2>1
  <2>9. PICK C \in SUBSET Requests : C = ChargedUpTo(h, q, j)
    <3>1. \A i \in 2..j : h[q][i].charged \in SUBSET Requests
      <4>1. \A i \in 2..j : i \in 1..k
        BY ONLY j \in 1..k, k \in Nat
      <4> QED BY <1>1, <1>2, <4>1, VersionIs
    <3> QED BY <3>1 DEF ChargedUpTo
  <2>10. ChargedUpTo(h, q, m) = C \cup v.charged
    <3>1. 2..m = 2..j \cup {m}
      BY ONLY <2>1, <1>4, k \in Nat
    <3> QED BY <2>3, <2>9, <3>1 DEF ChargedUpTo
  <2>11. Gained(hard, C, n) <= At(u.used, n) /\ At(u.used, n) <= hard[n]
    BY <2>2, <2>7, <2>8, <2>9
  <2> HIDE DEF Good
  <2>12. Gained(hard, C \cup v.charged, n) <= At(v.used, n) /\ At(v.used, n) <= hard[n]
    BY <2>4, <2>5, <2>6, <2>7, <2>11, VersionFits
  <2>13. Good(m)
    BY <2>3, <2>7, <2>10, <2>12 DEF Good
  <2> QED BY <1>4, <2>13
<1> QED BY <1>6, <1>7

\* What r adds to q, where it is counted.
LEMMA DeltaIs ==
  ASSUME NEW q \in Quotas, NEW r \in Requests
  PROVE  /\ Delta(q, r) \in Usages
         /\ IsZero(Delta(q, r)) => \A n : At(Delta(q, r), n) = 0
         /\ ~IsZero(Delta(q, r)) => Delta(q, r) = Gain(Hard[q], r)
<1>1. IsZero(Nothing) /\ Nothing \in Usages
  <2>1. PICK a : a = Nothing
    OBVIOUS
  <2>2. a = [n \in {} |-> a[n]]
    BY <2>1 DEF Nothing
  <2>3. a \in Usages
    <3>1. {} \in SUBSET AllTracked
      OBVIOUS
    <3> QED BY <2>2, <3>1, UsageMade
  <2> QED BY <2>1, <2>2, <2>3 DEF IsZero
<1>2. Delta(q, r) = Gain(Hard[q], r) \/ Delta(q, r) = Nothing
  BY DEF Delta, Gain
<1>3. Delta(q, r) \in Usages
  BY <1>1, <1>2, Gains
<1>4. IsZero(Delta(q, r)) => \A n : At(Delta(q, r), n) = 0
  BY DEF IsZero, At
<1> QED BY <1>1, <1>2, <1>3, <1>4

\* Limits that are not negative.
LimitsNotNegative == \A q \in Quotas : \A n \in DOMAIN Hard[q] : Hard[q][n] >= 0

LEMMA FitsTogether ==
  ASSUME LimitsNotNegative, IndInv, DueInv
  PROVE  NoOvercommit
<1> SUFFICES ASSUME NEW q \in Quotas \ Native, NEW n \in DOMAIN Hard[q],
                    NEW A, A = {r \in Requests : caller[r] = "admitted" /\ ~Attr[r].dryRun}
             PROVE  Total([r \in A |-> Delta(q, r)], n) <= Hard[q][n]
  BY DEF NoOvercommit
<1>1. PICK D : D = [r \in A |-> Delta(q, r)]
  OBVIOUS
<1>2. A \in SUBSET Requests /\ IsFiniteSet(A)
  BY StatusAssumption, FS_Subset
<1>3. DOMAIN D = A /\ \A r \in A : D[r] = Delta(q, r) /\ D[r] \in Usages
  BY <1>1, <1>2, DeltaIs
<1>4. Hard[q][n] >= 0
  BY DEF LimitsNotNegative
<1>5. CASE n \notin AllTracked
  <2>1. \A r \in A : At(D[r], n) = 0
    BY <1>3, <1>5, UsageIs DEF At
  <2>2. Total(D, n) = 0
    BY <1>2, <1>3, <2>1, TotalOf
  <2> QED BY <1>1, <1>4, <2>2
<1>6. CASE n \in AllTracked
  <2>1. PICK C \in SUBSET A : C = {r \in A : ~IsZero(Delta(q, r))}
    OBVIOUS
  <2>2. PICK f : f = [r \in A |-> At(D[r], n)]
    OBVIOUS
  <2>3. f \in [A -> Int] /\ Total(D, n) = SumFunction(f)
    <3>1. \A r \in A : At(D[r], n) \in Int
      BY <1>3, UsageIs
    <3> QED BY <1>3, <2>2, <3>1 DEF Total
  <2>4. PICK a : a = Part(f, C)
    OBVIOUS
  <2>5. PICK b : b = Part(f, A \ C)
    OBVIOUS
  <2>6. /\ SumFunction(a) \in Int /\ SumFunction(b) \in Int
        /\ SumFunction(f) = SumFunction(a) + SumFunction(b)
    BY <1>2, <2>3, <2>4, <2>5, SumSplit
  <2>7. SumFunction(b) = 0
    <3>1. \A r \in A \ C : At(D[r], n) = 0
      BY <1>2, <1>3, <2>1, DeltaIs
    <3>2. b \in [A \ C -> Int] /\ \A r \in A \ C : b[r] = 0
      BY <2>2, <2>5, <3>1 DEF Part
    <3>3. IsFiniteSet(A \ C)
      BY <1>2, FS_Subset
    <3> QED BY <3>2, <3>3, SumZero
  <2>8. SumFunction(a) = Gained(Hard[q], C, n)
    <3>1. \A r \in C : D[r] = Gain(Hard[q], r)
      BY <1>2, <1>3, <2>1, DeltaIs
    <3>2. a = [r \in C |-> At(Gain(Hard[q], r), n)]
      BY <2>1, <2>2, <2>4, <3>1 DEF Part
    <3>3. C \in SUBSET Requests
      BY <1>2
    <3> QED BY <3>2, <3>3, GainedOf
  <2>9. PICK t \in Int : t = SumFunction(a) /\ Total(D, n) = t
    BY <2>3, <2>6, <2>7
  <2>10. HistInv(hist) /\ VersionsInv(hist) /\ HistType(hist) /\ hist[q] \in Seq(VersionState)
    BY DEF IndInv, DueInv, HistInv, HistType
  <2>11. PICK k \in Nat : k = Len(hist[q]) /\ k # 0
    <3>1. hist[q] # <<>>
      BY <2>10 DEF HistType
    <3> QED BY <2>10, <3>1, EmptySeq, LenProperties
  <2>12. PICK U : U = ChargedUpTo(hist, q, k)
    OBVIOUS
  <2>13. U \in SUBSET Requests /\ \A r \in U : Growing(r)
    <3>1. \A i \in 2..k : i \in 1..k
      BY ONLY k \in Nat
    <3>2. \A i \in 2..k : hist[q][i].charged \in SUBSET Requests
      BY <2>10, <2>11, <3>1, VersionIs
    <3>3. \A i \in 2..k : \A r \in hist[q][i].charged : Growing(r)
      BY <2>10, <2>11, <3>1 DEF VersionsInv
    <3> QED BY <2>12, <3>2, <3>3 DEF ChargedUpTo
  <2>14. C \in SUBSET U
    <3>1. U = ChargedTo(q)
      BY <2>11, <2>12 DEF ChargedUpTo, ChargedTo, Versions, Current
    <3>2. AdmittedCharged
      BY DueImplies
    <3> QED BY <2>1, <3>1, <3>2 DEF AdmittedCharged
  <2>15. PICK s \in Int : s = Gained(Hard[q], U, n) /\ t <= s
    BY <1>6, <2>8, <2>9, <2>13, <2>14, GainedOf, GainedGrows
  <2>16. k \in 1..k
    BY <2>11
  <2>17. PICK v \in VersionState : v = hist[q][k]
    BY <2>10, <2>11, <2>16, VersionIs
  <2>18. PICK x \in Int : x = At(v.used, n)
    BY <2>17, UsageIs DEF VersionState
  <2>19. s <= x /\ x <= Hard[q][n]
    BY <1>4, <1>6, <2>10, <2>11, <2>12, <2>15, <2>16, <2>17, <2>18, HistoryFits
  <2>20. PICK L \in Int : L = Hard[q][n]
    BY StatusAssumption DEF IsResourceList
  <2>21. t <= L
    BY ONLY <2>15, <2>19, <2>20, t \in Int, s \in Int, x \in Int, L \in Int
  <2> QED BY <1>1, <2>9, <2>20, <2>21
<1> QED BY <1>5, <1>6

\* The requests that checkQuotas admits stay together within every cluster
\* quota that counts them: no race, retry or fault of the evaluator overcommits.
THEOREM AdmittedFit ==
  ASSUME CountedAlike, LimitsNotNegative PROVE Spec => []NoOvercommit
<1>1. IndInv /\ DueInv => NoOvercommit
  BY FitsTogether
<1>2. Spec => [](IndInv /\ DueInv)
  BY DueInvariant
<1> QED BY <1>1, <1>2, PTL
=============================================================================
