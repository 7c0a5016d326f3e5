----------------------- MODULE QuotaControllerProofs -----------------------
(***************************************************************************)
(* Proofs about QuotaController: what QuotaStatusProofs shows of the       *)
(* evaluator stays true when the resource quota controller and the users   *)
(* write the same documents.  The invariant of QuotaStatusProofs is kept   *)
(* by the new steps; the status a reconcile works on keeps its total the   *)
(* sum of its shares from one namespace to the next.                       *)
(***************************************************************************)
EXTENDS QuotaController, QuotaStatusProofs

Reconciles ==
  [running : {TRUE}, got : Nat, new : VersionState,
   matching : SUBSET Namespaces, todo : SUBSET Namespaces]

\* The reconcile y of a document with the versions s.
SyncOf(s, y) ==
  /\ y \in Reconciles /\ y.got \in 1..Len(s) /\ SharesInv(y.new)

SyncInv ==
  /\ sync = [q \in Quotas |-> sync[q]]
  /\ \A q \in Quotas : sync[q].running => q \notin Native /\ SyncOf(hist[q], sync[q])

SysInv == IndInv /\ SyncInv

-----------------------------------------------------------------------------
(* The recalculated status.                                                  *)

\* What an evaluator counts in a namespace.
LEMMA Counted ==
  ASSUME NEW q, NEW limit, NEW ns
  PROVE  CalculateUsage(q, limit, ns) \in Usages
<1> DEFINE R == {r \in Requests : /\ seen[r] = "stored" /\ Attr[r].ns = ns
                                  /\ Scopes[q] \subseteq Attr[r].scopes}
           f == [r \in R |-> Attr[r].usage]
           N == DOMAIN limit \cap AllTracked
           u == [n \in N |-> Total(f, n)]
<1>1. IsFiniteSet(R) /\ R \in SUBSET Requests
  BY StatusAssumption, FS_Subset
<1>2. DOMAIN f = R /\ \A r \in R : f[r] \in Usages
  <2> SUFFICES ASSUME NEW r \in R PROVE f[r] \in Usages
    OBVIOUS
  <2>1. IsResourceList(Attr[r].usage, AllTracked)
    BY <1>1, StatusAssumption
  <2> QED BY <2>1, ListsAre DEF Usages
<1>3. CalculateUsage(q, limit, ns) = u
  BY DEF CalculateUsage
<1> HIDE DEF R, f
<1>4. \A n : Total(f, n) \in Int
  BY <1>1, <1>2, TotalOf
<1>5. N \in SUBSET AllTracked /\ u = [n \in N |-> u[n]] /\ \A n \in N : u[n] \in Int
  BY <1>4
<1> HIDE DEF u, N
<1> QED BY <1>3, <1>5, UsageMade

\* The share of ns is replaced and the total follows.
LEMMA ShareRecalculated ==
  ASSUME NEW b \in VersionState, SharesInv(b), NEW ns \in Namespaces, NEW u \in Usages,
         NEW v, v = Recalculated(b, ns, u)
  PROVE  v \in VersionState /\ SharesInv(v)
<1>1. PICK s : s = Share(b, ns)
  OBVIOUS
<1>2. PICK f : f = InsertShare(b.byNs, ns, u)
  OBVIOUS
<1>3. PICK d : d = Subtract(b.used, s)
  OBVIOUS
<1>4. PICK t : t = Add(d, u)
  OBVIOUS
<1>5. b.used \in Usages
  BY DEF VersionState
<1>6. s \in Usages /\ f \in Shares
  BY <1>1, <1>2, ShareInserted
<1>7. d \in Usages /\ \A n : At(d, n) = At(b.used, n) - At(s, n)
  <2>1. IsDifference(d, b.used, s)
    BY <1>3, <1>5, <1>6, Sums
  <2> QED BY <2>1 DEF IsDifference
<1>8. t \in Usages /\ \A n : At(t, n) = At(d, n) + At(u, n)
  <2>1. IsSumOf(t, d, u)
    BY <1>4, <1>7, Sums
  <2> QED BY <2>1 DEF IsSumOf
<1>9. v = [b EXCEPT !.used = t, !.byNs = f]
  BY <1>1, <1>2, <1>3, <1>4 DEF Recalculated
<1>10. v \in VersionState /\ v.used = t /\ v.byNs = f
  BY ONLY <1>6, <1>8, <1>9, b \in VersionState DEF VersionState
<1>11. ASSUME NEW n \in AllTracked PROVE At(t, n) = Total(f, n)
  <2>1. PICK i \in Int : Total(f, n) = i + At(u, n) /\ Total(b.byNs, n) = i + At(s, n)
    BY <1>1, <1>2, ShareInserted
  <2>2. At(b.used, n) = Total(b.byNs, n)
    BY DEF SharesInv
  <2>3. At(u, n) \in Int /\ At(s, n) \in Int /\ At(b.used, n) \in Int
    BY <1>5, <1>6, UsageIs
  <2> QED BY <1>7, <1>8, <2>1, <2>2, <2>3
<1> QED BY <1>10, <1>11 DEF SharesInv

\* Some of the shares.
LEMMA SharesKept ==
  ASSUME NEW c \in Shares, NEW M, NEW f, f = RemoveShares(c, M)
  PROVE  /\ f \in Shares /\ DOMAIN f = DOMAIN c \cap M
         /\ \A m \in DOMAIN f : f[m] = c[m]
<1>1. /\ DOMAIN c \subseteq Namespaces /\ \A m \in DOMAIN c : c[m] \in Usages
  BY SharesAre
<1>2. PICK S \in SUBSET Namespaces : S = DOMAIN c \cap M
  BY <1>1
<1>3. f = [m \in S |-> c[m]]
  BY <1>2 DEF RemoveShares
<1>4. f \in [S -> Usages]
  BY <1>1, <1>2, <1>3
<1> QED BY <1>2, <1>3, <1>4 DEF Shares

\* The names in some resource lists, and the sum of the lists.
LEMMA SumOfShares ==
  ASSUME NEW f \in Shares, NEW u,
         u = [n \in UNION {DOMAIN f[m] : m \in DOMAIN f} |-> Total(f, n)]
  PROVE  u \in Usages /\ \A n : At(u, n) = Total(f, n)
<1> DEFINE N == UNION {DOMAIN f[m] : m \in DOMAIN f}
<1>1. IsFiniteSet(DOMAIN f) /\ \A m \in DOMAIN f : f[m] \in Usages
  BY SharesAre
<1>2. N \in SUBSET AllTracked
  <2>1. \A m \in DOMAIN f : DOMAIN f[m] \subseteq AllTracked
    BY <1>1, UsageIs
  <2> QED BY <2>1
<1>3. \A n : Total(f, n) \in Int
  BY <1>1, TotalOf
<1>4. \A n : n \notin N => Total(f, n) = 0
  <2> TAKE n
  <2> SUFFICES ASSUME n \notin N PROVE Total(f, n) = 0
    OBVIOUS
  <2>1. \A m \in DOMAIN f : At(f[m], n) = 0
    BY DEF At
  <2> QED BY <1>1, <2>1, TotalOf
<1> HIDE DEF N
<1>5. u = [n \in N |-> Total(f, n)]
  BY DEF N
<1>6. u = [n \in N |-> u[n]] /\ DOMAIN u = N /\ \A n \in N : u[n] = Total(f, n)
  BY <1>5
<1>7. u \in Usages
  BY <1>2, <1>3, <1>6, UsageMade
<1>8. \A n : At(u, n) = Total(f, n)
  BY <1>4, <1>6 DEF At
<1> QED BY <1>7, <1>8

\* A total in two parts.
LEMMA TotalSplits ==
  ASSUME NEW c \in Shares, NEW M, NEW a, a = RemoveShares(c, M),
         NEW b, b = RemoveShares(c, DOMAIN c \ M), NEW n
  PROVE  /\ Total(a, n) \in Int /\ Total(b, n) \in Int
         /\ Total(c, n) = Total(a, n) + Total(b, n)
<1> DEFINE S == DOMAIN c  A == S \cap M
           g == [m \in S |-> At(c[m], n)]
           ga == [m \in A |-> g[m]]
           gb == [m \in S \ A |-> g[m]]
<1>1. IsFiniteSet(S) /\ \A m \in S : c[m] \in Usages
  BY SharesAre
<1>2. g \in [S -> Int]
  <2>1. \A m \in S : At(c[m], n) \in Int
    BY <1>1, UsageIs
  <2> QED BY <2>1
<1>3. Total(c, n) = SumFunction(g)
  BY DEF Total
<1>4. DOMAIN a = A /\ \A m \in A : a[m] = c[m]
  BY DEF RemoveShares
<1>5. DOMAIN b = S \ A /\ \A m \in S \ A : b[m] = c[m]
  BY DEF RemoveShares
<1>6. [m \in DOMAIN a |-> At(a[m], n)] = ga /\ [m \in DOMAIN b |-> At(b[m], n)] = gb
  BY <1>4, <1>5
<1>7. Total(a, n) = SumFunction(ga) /\ Total(b, n) = SumFunction(gb)
  BY <1>6 DEF Total
<1>8. A \in SUBSET S /\ ga = Part(g, A) /\ gb = Part(g, S \ A)
  BY DEF Part
<1> HIDE DEF S, A, g, ga, gb
<1>9. /\ SumFunction(ga) \in Int /\ SumFunction(gb) \in Int
      /\ SumFunction(g) = SumFunction(ga) + SumFunction(gb)
  <2>1. IsFiniteSet(S)
    BY <1>1
  <2> QED BY ONLY <1>2, <1>8, <2>1, SumSplit
<1> QED BY <1>3, <1>7, <1>9

\* The shares of namespaces that no longer match are removed with their usage.
LEMMA OthersRemoved ==
  ASSUME NEW b \in VersionState, SharesInv(b), NEW M, NEW v, v = WithoutOthers(b, M)
  PROVE  v \in VersionState /\ SharesInv(v)
<1>1. PICK c \in Shares : c = b.byNs
  BY DEF VersionState
<1>2. PICK a : a = RemoveShares(c, M)
  OBVIOUS
<1>3. PICK e : e = RemoveShares(c, DOMAIN c \ M)
  OBVIOUS
<1>4. PICK u : u = [n \in UNION {DOMAIN e[m] : m \in DOMAIN e} |-> Total(e, n)]
  OBVIOUS
<1>5. PICK d : d = Subtract(b.used, u)
  OBVIOUS
<1>6. a \in Shares /\ e \in Shares
  BY <1>2, <1>3, SharesKept
<1>7. u \in Usages /\ \A n : At(u, n) = Total(e, n)
  BY <1>4, <1>6, SumOfShares
<1>8. b.used \in Usages
  BY DEF VersionState
<1>9. d \in Usages /\ \A n : At(d, n) = At(b.used, n) - At(u, n)
  <2>1. IsDifference(d, b.used, u)
    BY <1>5, <1>7, <1>8, Sums
  <2> QED BY <2>1 DEF IsDifference
<1>10. v = [b EXCEPT !.used = d, !.byNs = a]
  BY <1>1, <1>2, <1>3, <1>4, <1>5 DEF WithoutOthers
<1>11. v \in VersionState /\ v.used = d /\ v.byNs = a
  BY ONLY <1>6, <1>9, <1>10, b \in VersionState DEF VersionState
<1>12. ASSUME NEW n \in AllTracked PROVE At(d, n) = Total(a, n)
  <2>1. /\ Total(a, n) \in Int /\ Total(e, n) \in Int
        /\ Total(c, n) = Total(a, n) + Total(e, n)
    BY <1>2, <1>3, TotalSplits
  <2>2. At(b.used, n) = Total(c, n)
    BY <1>1 DEF SharesInv
  <2> QED BY <1>7, <1>9, <2>1, <2>2
<1> QED BY <1>11, <1>12 DEF SharesInv

-----------------------------------------------------------------------------
(* The steps.                                                                *)

\* A reconcile of q goes on as y, or ends.
LEMMA SyncMoves ==
  ASSUME SysInv, NEW q \in Quotas \ Native, NEW y, sync' = [sync EXCEPT ![q] = y],
         y.running => SyncOf(hist[q], y), UNCHANGED vars
  PROVE  SysInv'
<1>1. IndInv' /\ UNCHANGED hist
  BY DEF SysInv, IndInv, HistInv, StoreInv, WorkersInv, CallersInv, Decided, Batch,
         HistType, vars, storeVars
<1>2. sync = [p \in Quotas |-> sync[p]]
  BY DEF SysInv, SyncInv
<1>3. /\ sync' = [p \in Quotas |-> sync'[p]] /\ sync'[q] = y
      /\ \A p \in Quotas : p # q => sync'[p] = sync[p]
  BY <1>2
<1>4. ASSUME NEW p \in Quotas, sync'[p].running
      PROVE  p \notin Native /\ SyncOf(hist[p], sync'[p])
  BY <1>3, <1>4 DEF SysInv, SyncInv
<1> QED BY <1>1, <1>3, <1>4 DEF SysInv, SyncInv

LEMMA SyncGetStep ==
  ASSUME SysInv, NEW q \in Quotas \ Native, SyncGet(q)
  PROVE  SysInv'
<1>1. PICK v : v = hist[q][cache[q]]
  OBVIOUS
<1>2. cache[q] \in 1..Len(hist[q]) /\ cache[q] \in Nat /\ members[q] \in SUBSET Namespaces
  BY DEF SysInv, IndInv, StoreInv
<1>3. v \in VersionState /\ SharesInv(v)
  <2>1. HistInv(hist) /\ HistType(hist)
    BY DEF SysInv, IndInv, HistInv
  <2>2. v \in VersionState
    BY <1>1, <1>2, <2>1, VersionIs
  <2> QED BY <1>1, <1>2, <2>1, <2>2 DEF HistInv
<1>4. PICK y : y = [running |-> TRUE, got |-> cache[q], new |-> v,
                    matching |-> members[q], todo |-> members[q]]
  OBVIOUS
<1>5. sync' = [sync EXCEPT ![q] = y] /\ UNCHANGED vars
  BY <1>1, <1>4 DEF SyncGet
<1>6. y \in Reconciles /\ y.got = cache[q] /\ y.new = v
  BY <1>2, <1>3, <1>4 DEF Reconciles
<1>7. SyncOf(hist[q], y)
  BY <1>2, <1>3, <1>6 DEF SyncOf
<1> QED BY <1>5, <1>7, SyncMoves

LEMMA SyncNamespaceStep ==
  ASSUME SysInv, NEW q \in Quotas \ Native, SyncNamespace(q)
  PROVE  SysInv'
<1>1. PICK x : x = sync[q]
  OBVIOUS
<1>2. SyncOf(hist[q], x) /\ x \in Reconciles /\ UNCHANGED vars
  BY <1>1 DEF SysInv, SyncInv, SyncNamespace, SyncOf
<1>3. PICK ns \in x.todo :
        sync' = [sync EXCEPT ![q].todo = @ \ {ns},
                   ![q].new = Recalculated(@, ns, CalculateUsage(q, x.new.limit, ns))]
  BY <1>1 DEF SyncNamespace
<1>4. PICK u \in Usages : u = CalculateUsage(q, x.new.limit, ns)
  BY Counted
<1>5. PICK b \in VersionState : b = x.new
  BY <1>2 DEF Reconciles
<1>6. PICK v : v = Recalculated(b, ns, u)
  OBVIOUS
<1>7. PICK y : y = [x EXCEPT !.todo = x.todo \ {ns}, !.new = v]
  OBVIOUS
<1>8. sync' = [sync EXCEPT ![q] = y]
  BY <1>1, <1>3, <1>4, <1>5, <1>6, <1>7 DEF SysInv, SyncInv
<1>9. ns \in Namespaces /\ SharesInv(b)
  BY <1>2, <1>5 DEF Reconciles, SyncOf
<1>10. v \in VersionState /\ SharesInv(v)
  BY <1>6, <1>9, ShareRecalculated
<1>11. y \in Reconciles /\ y.got = x.got /\ y.new = v
  BY <1>2, <1>7, <1>10 DEF Reconciles
<1>12. SyncOf(hist[q], y)
  BY <1>2, <1>10, <1>11 DEF SyncOf
<1> QED BY <1>2, <1>8, <1>12, SyncMoves

\* Somebody who is not an evaluator makes the version v of q.
LEMMA OtherVersion ==
  ASSUME IndInv, NEW q \in Quotas \ Native, NEW v \in VersionState,
         v.by # "admit", v.charged = {}, SharesInv(v),
         hist' = WithVersion(hist, q, v),
         UNCHANGED <<cache, lru, members, w, result, caller>>
  PROVE  IndInv' /\ Grows(hist, hist', q, v)
<1>1. PICK g : g = hist'
  OBVIOUS
<1>2. /\ HistInv(hist) /\ HistType(hist)
      /\ w \in [Workers -> WorkerState] /\ \A l \in Workers : WorkerInv(hist, w[l])
  BY DEF IndInv, WorkersInv, HistInv
<1>3. Grows(hist, g, q, v) /\ HistType(g)
  BY <1>1, <1>2, OneMore DEF WithVersion
<1>4. HistInv(g)
  <2>1. ChargeInv(hist[q][Len(hist[q])], v)
    BY DEF ChargeInv
  <2>2. \A i \in 1..Len(hist[q]) : hist[q][i].charged \cap v.charged # {} => hist[q][i].lost
    OBVIOUS
  <2> QED BY <1>2, <1>3, <2>1, <2>2, VersionAdded
<1>5. \A l \in Workers : WorkerInv(g, w[l])
  <2> TAKE l \in Workers
  <2>1. v.charged \cap ToSet(w[l].batch) = {}
    OBVIOUS
  <2> QED BY <1>2, <1>3, <2>1, WorkerStays
<1>6. WorkersInv'
  BY <1>1, <1>2, <1>5 DEF WorkersInv
<1>7. \A p \in Quotas : /\ Len(hist[p]) \in Nat /\ Len(g[p]) \in Nat
                        /\ Len(hist[p]) <= Len(g[p])
  BY <1>3 DEF Grows
<1>8. StoreInv'
  <2>1. \A p \in Quotas : cache[p] \in 1..Len(g[p]) /\ lru[p] \in 0..Len(g[p])
    <3> TAKE p \in Quotas
    <3>1. cache[p] \in 1..Len(hist[p]) /\ lru[p] \in 0..Len(hist[p])
      BY DEF IndInv, StoreInv
    <3> QED BY <1>7, <3>1
  <2> QED BY <1>1, <2>1 DEF IndInv, StoreInv
<1>9. CallersInv'
  <2>1. ASSUME NEW p \in Quotas, NEW i \in 1..Len(g[p]), NEW r \in g[p][i].charged
        PROVE  caller[r] # "new"
    <3>1. CASE i \in 1..Len(hist[p])
      <4>1. g[p][i] = hist[p][i]
        BY <1>3, <3>1 DEF Grows
      <4> QED BY <2>1, <3>1, <4>1 DEF IndInv, CallersInv
    <3>2. CASE i \notin 1..Len(hist[p])
      <4>1. g[p] # hist[p]
        BY <3>2
      <4>2. p = q /\ Len(g[p]) = Len(hist[p]) + 1 /\ g[p][Len(hist[p]) + 1] = v
        BY <1>3, <4>1 DEF Grows
      <4>3. i = Len(hist[p]) + 1
        BY <1>7, <3>2, <4>2
      <4> QED BY <2>1, <4>2, <4>3
    <3> QED BY <3>1, <3>2
  <2> QED BY <1>1, <2>1 DEF IndInv, CallersInv, Batch
<1>10. Decided'
  BY DEF IndInv, Decided, Batch
<1> QED BY <1>1, <1>3, <1>4, <1>6, <1>8, <1>9, <1>10 DEF IndInv

\* Reconciles that are under way do not notice it.
LEMMA SyncStays ==
  ASSUME SysInv, NEW q, NEW v, Grows(hist, hist', q, v), IndInv',
         NEW p \in Quotas, sync' = sync \/ sync' = [sync EXCEPT ![p] = NoSync]
  PROVE  SysInv'
<1>1. sync = [r \in Quotas |-> sync[r]]
  BY DEF SysInv, SyncInv
<1>2. ~NoSync.running
  BY DEF NoSync
<1>3. /\ sync' = [r \in Quotas |-> sync'[r]]
      /\ \A r \in Quotas : sync'[r] = sync[r] \/ sync'[r] = NoSync
  BY <1>1
<1>4. ASSUME NEW r \in Quotas, sync'[r].running
      PROVE  r \notin Native /\ SyncOf(hist'[r], sync'[r])
  <2>1. sync'[r] = sync[r]
    BY <1>2, <1>3, <1>4
  <2>2. r \notin Native /\ SyncOf(hist[r], sync[r])
    BY <1>4, <2>1 DEF SysInv, SyncInv
  <2>3. Len(hist[r]) \in Nat /\ Len(hist'[r]) \in Nat /\ Len(hist[r]) <= Len(hist'[r])
    BY DEF Grows
  <2> QED BY <2>1, <2>2, <2>3 DEF SyncOf
<1> QED BY <1>3, <1>4 DEF SysInv, SyncInv

\* What SyncUpdate writes.
SyncVersion(v, M, limit) ==
  [[WithoutOthers(v, M) EXCEPT !.hard = limit]
     EXCEPT !.by = "sync", !.charged = {}, !.lost = FALSE]

LEMMA SyncUpdateStep ==
  ASSUME SysInv, NEW q \in Quotas \ Native, SyncUpdate(q)
  PROVE  SysInv'
<1>1. PICK x : x = sync[q]
  OBVIOUS
<1>2. SyncOf(hist[q], x) /\ x \in Reconciles
  BY <1>1 DEF SysInv, SyncInv, SyncUpdate, SyncOf
<1>3. PICK u : u = hist[q][x.got].limit
  OBVIOUS
<1>4. PICK v : v = SyncVersion(x.new, x.matching, u)
  OBVIOUS
<1>5. /\ UNCHANGED <<cache, lru, members, w, result, caller>>
      /\ sync' = [sync EXCEPT ![q] = NoSync]
      /\ hist' = hist \/ hist' = WithVersion(hist, q, v)
  BY <1>1, <1>3, <1>4 DEF SyncUpdate, SyncVersion, WithVersion
<1>6. CASE hist' = hist
  <2>1. UNCHANGED vars /\ ~NoSync.running
    BY <1>5, <1>6 DEF vars, storeVars, NoSync
  <2> QED BY <1>5, <2>1, SyncMoves
<1>7. CASE hist' = WithVersion(hist, q, v)
  <2>1. PICK b \in VersionState : b = x.new /\ SharesInv(b)
    BY <1>2 DEF Reconciles, SyncOf
  <2>2. PICK c : c = WithoutOthers(b, x.matching)
    OBVIOUS
  <2>3. c \in VersionState /\ SharesInv(c)
    BY <2>1, <2>2, OthersRemoved
  <2>4. u \in Limits
    <3>1. hist[q][x.got] \in VersionState
      BY <1>2, VersionIs DEF SyncOf, SysInv, IndInv, HistInv
    <3> QED BY <1>3, <3>1 DEF VersionState
  <2>5. PICK by \in Writers : by = "sync"
    BY DEF Writers
  <2>6. v = [c EXCEPT !.hard = u, !.by = by, !.charged = {}, !.lost = FALSE]
    BY <1>4, <2>1, <2>2, <2>3, <2>5 DEF SyncVersion, VersionState
  <2>7. /\ v \in VersionState /\ v.by = by /\ v.charged = {} /\ v.used = c.used
        /\ v.byNs = c.byNs
    BY ONLY <2>3, <2>4, <2>6, by \in Writers DEF VersionState
  <2>8. SharesInv(v) /\ v.by # "admit"
    BY <2>3, <2>5, <2>7 DEF SharesInv
  <2>9. IndInv' /\ Grows(hist, hist', q, v)
    BY <1>5, <1>7, <2>7, <2>8, OtherVersion DEF SysInv
  <2> QED BY <1>5, <2>9, SyncStays
<1> QED BY <1>5, <1>6, <1>7

\* A version of q that differs from the last one in its limit, in being alive
\* and in who wrote it.
LEMMA UserVersion ==
  ASSUME SysInv, NEW q \in Quotas \ Native, NEW u, u = Last(hist[q]),
         NEW limit \in Limits, NEW alive \in BOOLEAN, NEW by \in Writers, by # "admit",
         NEW v, v = [u EXCEPT !.limit = limit, !.alive = alive, !.by = by,
                              !.charged = {}, !.lost = FALSE],
         hist' = WithVersion(hist, q, v),
         UNCHANGED <<cache, lru, members, w, result, caller, sync>>
  PROVE  SysInv'
<1>1. HistInv(hist) /\ HistType(hist) /\ IndInv
  BY DEF SysInv, IndInv, HistInv
<1>2. PICK n \in Nat : n = Len(hist[q])
  BY <1>1, LenProperties DEF HistType
<1>3. n \in 1..n
  <2>1. n # 0
    BY <1>1, <1>2, EmptySeq DEF HistType
  <2> QED BY <2>1
<1>4. u = hist[q][n]
  BY <1>2 DEF Last
<1>5. u \in VersionState /\ SharesInv(u)
  BY <1>1, <1>2, <1>3, <1>4, VersionIs DEF HistInv
<1>6. /\ v \in VersionState /\ v.by = by /\ v.charged = {} /\ v.used = u.used
      /\ v.byNs = u.byNs
  BY ONLY <1>5, limit \in Limits, alive \in BOOLEAN, by \in Writers,
          v = [u EXCEPT !.limit = limit, !.alive = alive, !.by = by,
                        !.charged = {}, !.lost = FALSE] DEF VersionState
<1>7. SharesInv(v)
  BY <1>5, <1>6 DEF SharesInv
<1>8. IndInv' /\ Grows(hist, hist', q, v)
  BY <1>1, <1>6, <1>7, OtherVersion
<1> QED BY <1>8, SyncStays

LEMMA LastIs ==
  ASSUME IndInv, NEW q \in Quotas
  PROVE  Last(hist[q]) \in VersionState
<1>1. HistType(hist)
  BY DEF IndInv, HistInv
<1>2. PICK n \in Nat : n = Len(hist[q])
  BY <1>1, LenProperties DEF HistType
<1>3. n \in 1..n
  <2>1. n # 0
    BY <1>1, <1>2, EmptySeq DEF HistType
  <2> QED BY <2>1
<1> QED BY <1>1, <1>2, <1>3, VersionIs DEF Last

LEMMA EditQuotaStep ==
  ASSUME SysInv, NEW q \in Quotas \ Native, EditQuota(q)
  PROVE  SysInv'
<1>1. PICK u \in VersionState : u = Last(hist[q])
  BY LastIs DEF SysInv
<1>2. PICK limit \in Limits : limit = NewHard[q]
  BY ControllerAssumption, ListsAre DEF Limits
<1>3. PICK by \in Writers : by = "edit"
  BY DEF Writers
<1>4. PICK alive \in BOOLEAN : alive = u.alive
  BY DEF VersionState
<1>5. PICK v : v = [u EXCEPT !.limit = limit, !.alive = alive, !.by = by,
                             !.charged = {}, !.lost = FALSE]
  OBVIOUS
<1>6. v = [[u EXCEPT !.limit = NewHard[q], !.by = "edit"] EXCEPT !.charged = {}, !.lost = FALSE]
  BY <1>2, <1>3, <1>4, <1>5 DEF VersionState
<1>7. /\ hist' = WithVersion(hist, q, v)
      /\ UNCHANGED <<cache, lru, members, w, result, caller, sync>>
  BY <1>1, <1>6 DEF EditQuota, NewVersion, WithVersion
<1>8. by # "admit"
  BY <1>3
<1> QED BY <1>1, <1>5, <1>7, <1>8, UserVersion

LEMMA DeleteQuotaStep ==
  ASSUME SysInv, NEW q \in Quotas \ Native, DeleteQuota(q)
  PROVE  SysInv'
<1>1. PICK u \in VersionState : u = Last(hist[q])
  BY LastIs DEF SysInv
<1>2. PICK limit \in Limits : limit = u.limit
  BY DEF VersionState
<1>3. PICK by \in Writers : by = "delete"
  BY DEF Writers
<1>4. PICK alive \in BOOLEAN : alive = FALSE
  OBVIOUS
<1>5. PICK v : v = [u EXCEPT !.limit = limit, !.alive = alive, !.by = by,
                             !.charged = {}, !.lost = FALSE]
  OBVIOUS
<1>6. v = [[u EXCEPT !.alive = FALSE, !.by = "delete"] EXCEPT !.charged = {}, !.lost = FALSE]
  BY <1>2, <1>3, <1>4, <1>5 DEF VersionState
<1>7. /\ hist' = WithVersion(hist, q, v)
      /\ UNCHANGED <<cache, lru, members, w, result, caller, sync>>
  BY <1>1, <1>6 DEF DeleteQuota, NewVersion, WithVersion
<1>8. by # "admit"
  BY <1>3
<1> QED BY <1>1, <1>5, <1>7, <1>8, UserVersion

LEMMA RelabelStep ==
  ASSUME SysInv, NEW q \in Quotas \ Native, Relabel(q)
  PROVE  SysInv'
<1>1. members' \in [Quotas -> SUBSET Namespaces]
  BY ControllerAssumption DEF SysInv, IndInv, StoreInv, Relabel
<1>2. UNCHANGED <<hist, cache, lru, w, result, caller, sync>>
  BY DEF Relabel
<1>3. IndInv'
  BY <1>1, <1>2 DEF SysInv, IndInv, HistInv, StoreInv, WorkersInv, CallersInv, Decided,
                    Batch, HistType
<1> QED BY <1>2, <1>3 DEF SysInv, SyncInv

\* The versions of a document are never taken back.
LEMMA WriteGrows ==
  ASSUME IndInv, NEW k \in Workers, Write(k)
  PROVE  hist' = hist \/ \E q \in Quotas : \E v : Grows(hist, hist', q, v)
<1>1. PICK x \in WorkerState : x = w[k]
  BY WorkerIs
<1>2. PICK d : d = Head(x.writes)
  OBVIOUS
<1>3. PICK no \in BOOLEAN : no = FALSE
  OBVIOUS
<1>4. PICK yes \in BOOLEAN : yes = TRUE
  OBVIOUS
<1>5. PICK u : u = WrittenVersion(hist[d.name][x.got], d, x.ns, Last(hist[d.name]).limit, no)
  OBVIOUS
<1>6. PICK z : z = WrittenVersion(hist[d.name][x.got], d, x.ns, Last(hist[d.name]).limit, yes)
  OBVIOUS
<1>7. PICK t : t = UpdatedNow(hist[d.name][x.got], d, x.ns, Last(hist[d.name]).limit)
  OBVIOUS
<1>8. /\ x.pc = "write"
      /\ \/ d.rv = Len(hist[d.name]) /\ hist' = WithVersion(hist, d.name, t)
         \/ d.rv = Len(hist[d.name]) /\ hist' = WithVersion(hist, d.name, z)
         \/ UNCHANGED hist
  BY <1>1, <1>2, <1>4, <1>6, <1>7
     DEF Write, UpdatedNow, WrittenVersion, Current, WithVersion
<1>9. CASE d.rv = Len(hist[d.name]) /\ hist' = WithVersion(hist, d.name, t)
  <2>1. PICK g : g = WithVersion(hist, d.name, u)
    OBVIOUS
  <2>2. MadeWell(x, d, g, u, no)
    <3>1. IndInv /\ k \in Workers /\ x \in WorkerState /\ x.pc = "write"
      BY <1>8
    <3> QED BY ONLY <1>1, <1>2, <1>3, <1>5, <1>9, <2>1, <3>1, VersionMade
  <2>3. u = t /\ d.name \in Quotas /\ Grows(hist, g, d.name, u)
    BY <1>3, <1>7, <2>2 DEF MadeWell
  <2> QED BY <1>9, <2>1, <2>3
<1>10. CASE d.rv = Len(hist[d.name]) /\ hist' = WithVersion(hist, d.name, z)
  <2>1. PICK g : g = WithVersion(hist, d.name, z)
    OBVIOUS
  <2>2. MadeWell(x, d, g, z, yes)
    <3>1. IndInv /\ k \in Workers /\ x \in WorkerState /\ x.pc = "write"
      BY <1>8
    <3> QED BY ONLY <1>1, <1>2, <1>4, <1>6, <1>10, <2>1, <3>1, VersionMade
  <2>3. d.name \in Quotas /\ Grows(hist, g, d.name, z)
    BY <2>2 DEF MadeWell
  <2> QED BY <1>10, <2>1, <2>3
<1> QED BY <1>8, <1>9, <1>10

LEMMA NextGrows ==
  ASSUME IndInv, Next
  PROVE  \A q \in Quotas : /\ Len(hist[q]) \in Nat /\ Len(hist'[q]) \in Nat
                           /\ Len(hist[q]) <= Len(hist'[q])
<1>1. \A q \in Quotas : Len(hist[q]) \in Nat
  BY LenProperties DEF IndInv, HistInv, HistType
<1>2. CASE hist' = hist
  BY <1>1, <1>2
<1>3. ASSUME NEW q \in Quotas, NEW v, Grows(hist, hist', q, v)
      PROVE  \A p \in Quotas : /\ Len(hist[p]) \in Nat /\ Len(hist'[p]) \in Nat
                               /\ Len(hist[p]) <= Len(hist'[p])
  BY <1>3 DEF Grows
<1>4. ASSUME NEW k \in Workers, Begin(k) \/ Lock(k) \/ WorkerStep(k)
      PROVE  hist' = hist \/ Write(k)
  BY <1>4 DEF WorkerStep, Begin, Lock, ListNames, Fetch, CheckCache, Evict, Listed, Check,
              UpdateRead, CacheAdd, Decide, Answer, storeVars
<1>5. \A r \in Requests : Timeout(r) => hist' = hist
  BY DEF Timeout, storeVars
<1>6. \A q \in Quotas : Informer(q) => hist' = hist
  BY DEF Informer
<1> QED BY <1>2, <1>3, <1>4, <1>5, <1>6, WriteGrows DEF Next

LEMMA SysInitInv == SysInit => SysInv
<1> SUFFICES ASSUME SysInit PROVE SysInv
  OBVIOUS
<1>1. IndInv
  BY InitInv DEF SysInit
<1>2. sync = [q \in Quotas |-> NoSync] /\ ~NoSync.running
  BY DEF SysInit, NoSync
<1> QED BY <1>1, <1>2 DEF SysInv, SyncInv

LEMMA SysNextInv == SysInv /\ [SysNext]_allVars => SysInv'
<1> SUFFICES ASSUME SysInv, [SysNext]_allVars PROVE SysInv'
  OBVIOUS
<1>1. CASE UNCHANGED <<vars, sync>>
  BY <1>1 DEF SysInv, SyncInv, IndInv, HistInv, StoreInv, WorkersInv, CallersInv,
              Decided, Batch, HistType, vars, storeVars
<1>2. CASE Next /\ UNCHANGED <<sync, objVars>>
  <2>1. IndInv'
    BY <1>2, NextInv DEF SysInv
  <2>2. \A q \in Quotas : /\ Len(hist[q]) \in Nat /\ Len(hist'[q]) \in Nat
                          /\ Len(hist[q]) <= Len(hist'[q])
    BY <1>2, NextGrows DEF SysInv
  <2>3. ASSUME NEW q \in Quotas, sync[q].running
        PROVE  q \notin Native /\ SyncOf(hist'[q], sync[q])
    <3>1. q \notin Native /\ SyncOf(hist[q], sync[q])
      BY <2>3 DEF SysInv, SyncInv
    <3>2. sync[q].got \in 1..Len(hist'[q])
      BY <2>2, <3>1 DEF SyncOf
    <3> QED BY <3>1, <3>2 DEF SyncOf
  <2> QED BY <1>2, <2>1, <2>3 DEF SysInv, SyncInv
<1>3. ASSUME NEW q \in Quotas \ Native,
             SyncStep(q) \/ EditQuota(q) \/ DeleteQuota(q) \/ Relabel(q)
      PROVE  SysInv'
  BY <1>3, SyncGetStep, SyncNamespaceStep, SyncUpdateStep, EditQuotaStep,
     DeleteQuotaStep, RelabelStep DEF SyncStep
<1>4. ASSUME NEW r \in Requests, Store(r) \/ DeleteObject(r) \/ Observe(r)
      PROVE  UNCHANGED <<vars, sync>>
  BY <1>4 DEF Store, DeleteObject, Observe
<1> QED BY <1>1, <1>2, <1>3, <1>4 DEF SysNext, allVars

-----------------------------------------------------------------------------
\* With the controller and the users, too, the invariant of the evaluator holds.
THEOREM SystemInvariant == SysSpec => []SysInv
<1> QED BY SysInitInv, SysNextInv, PTL DEF SysSpec

\* Neither a reconcile, which replaces shares one after the other and removes
\* those of namespaces that left, nor UpdateQuotaStatus on top of it makes the
\* total differ from the sum of the shares.
THEOREM SystemTotalsAreSums == SysSpec => []TotalIsSum
<1>1. SysInv => TotalIsSum
  BY IndImplies DEF SysInv
<1> QED BY <1>1, SystemInvariant, PTL

\* A charge is exact although the controller writes the same status.
THEOREM SystemChargesAreExact == SysSpec => []ExactCharges
<1>1. SysInv => ExactCharges
  BY IndImplies DEF SysInv
<1> QED BY <1>1, SystemInvariant, PTL

\* A charge stays within the limits in force, although users change them.
THEOREM SystemAdmissionsFit == SysSpec => []AdmissionFits
<1>1. SysInv => AdmissionFits
  BY IndImplies DEF SysInv
<1> QED BY <1>1, SystemInvariant, PTL

\* A request is charged twice to a document only after an answer was lost,
\* although documents appear, change and go between the retries.
THEOREM SystemChargedOnce == SysSpec => []ChargeOnce
<1>1. SysInv => ChargeOnce
  BY IndImplies DEF SysInv
<1> QED BY <1>1, SystemInvariant, PTL

=============================================================================
