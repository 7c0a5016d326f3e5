-------------------------- MODULE QuotaWorkProofs --------------------------
(***************************************************************************)
(* Proofs about QuotaWork, for any number of namespaces, requests and      *)
(* workers.  IndInv is inductive; the safety properties follow from it.    *)
(***************************************************************************)
EXTENDS QuotaWork, SequenceTheorems, TLAPS

-----------------------------------------------------------------------------
(* Facts about sequences seen as lists of distinct members.                  *)

\* Appending adds one member (addWork, queue.Add, queue.Done), and keeps the
\* members distinct when it is a new one.
LEMMA AppendRange ==
  ASSUME NEW S, NEW s \in Seq(S), NEW e \in S
  PROVE  /\ Range(Append(s, e)) = Range(s) \cup {e}
         /\ IsInjective(s) /\ e \notin Range(s) => IsInjective(Append(s, e))
<1> DEFINE t == Append(s, e)
<1>1. /\ t \in Seq(S)
      /\ Len(t) = Len(s) + 1
      /\ \A i \in 1..Len(s) : t[i] = s[i]
      /\ t[Len(s) + 1] = e
  BY AppendProperties
<1>2. /\ DOMAIN s = 1..Len(s) /\ Len(s) \in Nat
      /\ DOMAIN t = 1..(Len(s) + 1)
  BY <1>1, LenProperties
<1> HIDE DEF t
<1>3. Range(t) = Range(s) \cup {e}
  <2>1. ASSUME NEW x \in Range(t) PROVE x \in Range(s) \cup {e}
    <3>1. PICK i \in 1..(Len(s) + 1) : t[i] = x
      BY <1>2 DEF Range
    <3>2. CASE i = Len(s) + 1
      BY <3>1, <3>2, <1>1
    <3>3. CASE i \in 1..Len(s)
      BY <3>1, <3>3, <1>1, <1>2 DEF Range
    <3> QED BY <3>2, <3>3, <1>2
  <2>2. ASSUME NEW x \in Range(s) PROVE x \in Range(t)
    <3>1. PICK i \in 1..Len(s) : s[i] = x
      BY <1>2 DEF Range
    <3>2. i \in DOMAIN t /\ t[i] = x
      BY <3>1, <1>1, <1>2
    <3> QED BY <3>2 DEF Range
  <2>3. e \in Range(t)
    <3>1. Len(s) + 1 \in DOMAIN t
      BY <1>2
    <3> QED BY <3>1, <1>1 DEF Range
  <2> QED BY <2>1, <2>2, <2>3
<1>4. ASSUME IsInjective(s), e \notin Range(s)
      PROVE  IsInjective(t)
  <2> SUFFICES ASSUME NEW i \in DOMAIN t, NEW j \in DOMAIN t, t[i] = t[j]
               PROVE  i = j
    BY DEF IsInjective
  <2>0. \A m \in 1..Len(s) : s[m] # e
    BY <1>4, <1>2 DEF Range
  <2>1. CASE i \in 1..Len(s) /\ j \in 1..Len(s)
    BY <2>1, <1>4, <1>1, <1>2 DEF IsInjective
  <2>2. CASE ~(i \in 1..Len(s) /\ j \in 1..Len(s))
    BY <2>2, <2>0, <1>1, <1>2
  <2> QED BY <2>1, <2>2
<1> QED BY <1>3, <1>4 DEF t

\* Taking the head of a list of distinct members removes that member
\* (queue.Get).
LEMMA TailRange ==
  ASSUME NEW S, NEW s \in Seq(S), s # <<>>, IsInjective(s)
  PROVE  /\ Head(s) \in Range(s)
         /\ Range(Tail(s)) = Range(s) \ {Head(s)}
         /\ IsInjective(Tail(s))
<1>1. /\ Tail(s) \in Seq(S)
      /\ Len(Tail(s)) = Len(s) - 1
      /\ \A i \in 1..Len(Tail(s)) : Tail(s)[i] = s[i + 1]
  BY HeadTailProperties
<1>2. /\ DOMAIN s = 1..Len(s) /\ Len(s) \in Nat \ {0}
      /\ DOMAIN Tail(s) = 1..(Len(s) - 1)
  BY <1>1, LenProperties, EmptySeq
<1>3. Head(s) = s[1] /\ 1 \in DOMAIN s
  BY <1>2
<1>4. \A i \in 1..(Len(s) - 1) : Tail(s)[i] = s[i + 1] /\ i + 1 \in DOMAIN s
  BY <1>1, <1>2
<1>5. Range(Tail(s)) = Range(s) \ {Head(s)}
  <2>1. ASSUME NEW x \in Range(Tail(s)) PROVE x \in Range(s) \ {Head(s)}
    <3>1. PICK i \in 1..(Len(s) - 1) : Tail(s)[i] = x
      BY <1>2 DEF Range
    <3>2. s[i + 1] = x /\ i + 1 \in DOMAIN s /\ i + 1 # 1
      BY <3>1, <1>4
    <3>3. s[i + 1] # s[1]
      BY <3>2, <1>3 DEF IsInjective
    <3> QED BY <3>2, <3>3, <1>3 DEF Range
  <2>2. ASSUME NEW x \in Range(s), x # Head(s) PROVE x \in Range(Tail(s))
    <3>1. PICK i \in 1..Len(s) : s[i] = x
      BY <1>2 DEF Range
    <3>2. i # 1
      BY <3>1, <2>2, <1>3
    <3>3. i - 1 \in 1..(Len(s) - 1) /\ (i - 1) + 1 = i
      BY <3>2, <1>2
    <3>4. Tail(s)[i - 1] = x /\ i - 1 \in DOMAIN Tail(s)
      BY <3>1, <3>3, <1>4, <1>2
    <3> QED BY <3>4 DEF Range
  <2> QED BY <2>1, <2>2
<1>6. IsInjective(Tail(s))
  <2> SUFFICES ASSUME NEW i \in 1..(Len(s) - 1), NEW j \in 1..(Len(s) - 1),
                      Tail(s)[i] = Tail(s)[j]
               PROVE  i = j
    BY <1>2 DEF IsInjective
  <2>1. i + 1 = j + 1
    BY <1>4 DEF IsInjective
  <2> QED BY <2>1
<1> QED BY <1>3, <1>5, <1>6 DEF Range

-----------------------------------------------------------------------------
(* The running batch of a namespace, before and after a step.                *)

\* The running batch of a namespace is the batch of the one worker that owns it
\* (between queue.Get and completeWork), and empty when nobody does.
LEMMA CurrentOwned ==
  ASSUME OneWorkerPerNamespace, NEW ns \in Namespaces
  PROVE  /\ \A k \in Workers : Owns(k, ns) => Current(ns) = batch[k]
         /\ (\A k \in Workers : ~Owns(k, ns)) => Current(ns) = <<>>
<1>1. ASSUME NEW k \in Workers, Owns(k, ns) PROVE Current(ns) = batch[k]
  <2>1. \A l \in Workers : Owns(l, ns) => l = k
    BY <1>1 DEF OneWorkerPerNamespace
  <2>2. (CHOOSE l \in Workers : Owns(l, ns)) = k
    BY <1>1, <2>1
  <2> QED BY <1>1, <2>2 DEF Current
<1> QED BY <1>1 DEF Current

\* The same, after a step.
LEMMA CurrentOwnedNext ==
  ASSUME OneWorkerPerNamespace', NEW ns \in Namespaces
  PROVE  /\ \A k \in Workers : Owns(k, ns)' => Current(ns)' = batch'[k]
         /\ (\A k \in Workers : ~Owns(k, ns)') => Current(ns)' = <<>>
<1>1. ASSUME NEW k \in Workers, Owns(k, ns)' PROVE Current(ns)' = batch'[k]
  <2>1. \A l \in Workers : Owns(l, ns)' => l = k
    BY <1>1 DEF OneWorkerPerNamespace
  <2>2. (CHOOSE l \in Workers : Owns(l, ns)') = k
    BY <1>1, <2>1
  <2> QED BY <1>1, <2>2 DEF Current
<1> QED BY <1>1 DEF Current

\* The running batch is a list of waiters.
LEMMA CurrentType ==
  ASSUME TypeOK, OneWorkerPerNamespace, NEW ns \in Namespaces
  PROVE  Current(ns) \in Seq(Waiters)
<1>1. CASE \E k \in Workers : Owns(k, ns)
  BY <1>1, CurrentOwned DEF TypeOK
<1>2. CASE \A k \in Workers : ~Owns(k, ns)
  BY <1>2, CurrentOwned, EmptySeq
<1> QED BY <1>1, <1>2

-----------------------------------------------------------------------------
(* The type invariant.                                                       *)

\* Every critical section of the code keeps the types, and the work queue free
\* of duplicates.
LEMMA TypeStep ==
  ASSUME TypeOK, QueueInv, [Next]_vars
  PROVE  TypeOK'
<1> USE NsOfType
<1>1. ASSUME NEW a \in Waiters, AddWork(a) PROVE TypeOK'
  <2> DEFINE ns == NsOf[a]
  <2>1. ns \in Namespaces
    OBVIOUS
  <2>2. queue' \in Seq(Namespaces) /\ IsInjective(queue')
    <3>1. CASE ns \in dirty \/ ns \in processing
      BY <1>1, <3>1 DEF TypeOK, AddWork, QueueAdd
    <3>2. CASE ns \notin dirty /\ ns \notin processing
      <4>1. queue' = Append(queue, ns) /\ ns \notin Range(queue)
        BY <1>1, <3>2 DEF AddWork, QueueAdd, QueueInv
      <4> QED BY <4>1, <2>1, AppendRange, AppendProperties DEF TypeOK
    <3> QED BY <3>1, <3>2
  <2>3. /\ work' \in [Namespaces -> Seq(Waiters)]
        /\ dirtyWork' \in [Namespaces -> Seq(Waiters)]
    <3>1. /\ Append(work[ns], a) \in Seq(Waiters)
          /\ Append(dirtyWork[ns], a) \in Seq(Waiters)
      BY <2>1, AppendProperties DEF TypeOK
    <3>2. CASE ns \in inProgress
      BY <1>1, <2>1, <3>1, <3>2 DEF TypeOK, AddWork
    <3>3. CASE ns \notin inProgress
      BY <1>1, <2>1, <3>1, <3>3 DEF TypeOK, AddWork
    <3> QED BY <3>2, <3>3
  <2>4. submitted' \in [Namespaces -> Seq(Waiters)]
    BY <1>1, <2>1, AppendProperties DEF TypeOK, AddWork
  <2> QED BY <1>1, <2>1, <2>2, <2>3, <2>4
          DEF TypeOK, AddWork, QueueAdd, workerVars
<1>2. ASSUME NEW a \in Waiters, Return(a) \/ Timeout(a) PROVE TypeOK'
  BY <1>2 DEF TypeOK, Return, Timeout, queueVars, mapVars, workerVars
<1>3. ASSUME NEW k \in Workers, Get(k) PROVE TypeOK'
  <2>1. queue # <<>> /\ queue' = Tail(queue)
    BY <1>3 DEF Get, QueueGet
  <2>2. queue' \in Seq(Namespaces) /\ IsInjective(queue')
    BY <2>1, TailRange, HeadTailProperties DEF TypeOK
  <2> QED BY <1>3, <2>2 DEF TypeOK, Get, QueueGet, mapVars
<1>4. ASSUME NEW k \in Workers, Take(k) PROVE TypeOK'
  BY <1>4, EmptySeq DEF TypeOK, Take, queueVars
<1>5. ASSUME NEW k \in Workers, CheckAttributes(k) PROVE TypeOK'
  BY <1>5 DEF TypeOK, CheckAttributes, queueVars, mapVars
<1>6. ASSUME NEW k \in Workers, Notify(k) PROVE TypeOK'
  <2>1. /\ Head(batch[k]) \in Waiters
        /\ Tail(batch[k]) \in Seq(Waiters)
    BY <1>6, HeadTailProperties DEF TypeOK, Notify
  <2>2. Append(answered[item[k]], Head(batch[k])) \in Seq(Waiters)
    BY <2>1, AppendProperties DEF TypeOK
  <2> QED BY <1>6, <2>1, <2>2 DEF TypeOK, Notify, queueVars, mapVars
<1>7. ASSUME NEW k \in Workers, CompleteWork(k) PROVE TypeOK'
  <2> DEFINE ns == item[k]
  <2>1. ns \in Namespaces
    BY DEF TypeOK
  <2>2. queue' \in Seq(Namespaces) /\ IsInjective(queue')
    <3>1. CASE ns \notin dirty
      BY <1>7, <3>1 DEF TypeOK, CompleteWork, QueueDone
    <3>2. CASE ns \in dirty
      <4>1. queue' = Append(queue, ns)
        BY <1>7, <3>2 DEF CompleteWork, QueueDone
      <4>2. ns \in processing
        BY <1>7, <2>1 DEF QueueInv, CompleteWork, Owns
      <4>3. ns \notin Range(queue)
        BY <4>2 DEF QueueInv
      <4> QED BY <4>1, <4>3, <2>1, AppendRange, AppendProperties DEF TypeOK
    <3> QED BY <3>1, <3>2
  <2> QED BY <1>7, <2>1, <2>2, EmptySeq DEF TypeOK, CompleteWork, QueueDone
<1>8. CASE UNCHANGED vars
  BY <1>8 DEF TypeOK, vars, queueVars, mapVars, workerVars
<1> QED BY <1>1, <1>2, <1>3, <1>4, <1>5, <1>6, <1>7, <1>8
        DEF Next, WorkerStep, CallerStep

-----------------------------------------------------------------------------
(* The work queue, the maps and the workers.                                 *)

Bookkeeping == QueueInv /\ OneWorkerPerNamespace /\ MapInv /\ BatchInv

\* Every critical section keeps the work queue's sets, the evaluator's maps and
\* the workers consistent, and a namespace with one worker.
LEMMA BookkeepingStep ==
  ASSUME TypeOK, TypeOK', Bookkeeping, [Next]_vars
  PROVE  Bookkeeping'
<1> USE NsOfType DEF Bookkeeping
<1>1. ASSUME NEW a \in Waiters, AddWork(a) PROVE Bookkeeping'
  <2> DEFINE n == NsOf[a]
  <2>1. n \in Namespaces
    OBVIOUS
  <2>2. /\ pc' = pc /\ item' = item /\ batch' = batch
        /\ processing' = processing /\ inProgress' = inProgress
        /\ dirty' = dirty \cup {n}
    BY <1>1 DEF AddWork, QueueAdd, workerVars
  <2>3. Range(queue') = dirty' \ processing'
    <3>1. CASE n \in dirty \/ n \in processing
      BY <1>1, <2>2, <3>1 DEF AddWork, QueueAdd, QueueInv
    <3>2. CASE n \notin dirty /\ n \notin processing
      <4>1. queue' = Append(queue, n)
        BY <1>1, <3>2 DEF AddWork, QueueAdd
      <4>2. Range(queue') = Range(queue) \cup {n}
        BY <4>1, <2>1, AppendRange DEF TypeOK
      <4> QED BY <4>2, <2>2, <3>2 DEF QueueInv
    <3> QED BY <3>1, <3>2
  <2>4. QueueInv' /\ OneWorkerPerNamespace' /\ BatchInv'
    BY <2>2, <2>3 DEF QueueInv, OneWorkerPerNamespace, BatchInv, Owns
  <2>5. /\ n \in inProgress  => work' = work
        /\ n \notin inProgress => dirtyWork' = dirtyWork
        /\ \A ns \in Namespaces \ {n} :
             work'[ns] = work[ns] /\ dirtyWork'[ns] = dirtyWork[ns]
    BY <1>1, <2>1 DEF AddWork, TypeOK
  <2>6. MapInv'
    BY <2>1, <2>2, <2>5 DEF MapInv, Owns
  <2> QED BY <2>4, <2>6
<1>2. ASSUME NEW a \in Waiters, Return(a) \/ Timeout(a) PROVE Bookkeeping'
  BY <1>2 DEF Return, Timeout, queueVars, mapVars, workerVars, QueueInv,
              OneWorkerPerNamespace, MapInv, BatchInv, Owns
<1>3. ASSUME NEW k \in Workers, Get(k) PROVE Bookkeeping'
  <2>1. PICK n \in Namespaces : QueueGet(n) /\ item' = [item EXCEPT ![k] = n]
    BY <1>3 DEF Get
  <2>2. /\ pc[k] = "get" /\ pc' = [pc EXCEPT ![k] = "take"]
        /\ batch' = batch /\ work' = work /\ dirtyWork' = dirtyWork
        /\ inProgress' = inProgress
    BY <1>3 DEF Get, mapVars
  <2>3. n \in Range(queue) /\ Range(queue') = Range(queue) \ {n}
    BY <2>1, TailRange DEF QueueGet, TypeOK
  <2>4. n \in dirty /\ n \notin processing
    BY <2>3 DEF QueueInv
  <2>5. dirty' = dirty \ {n} /\ processing' = processing \cup {n}
    BY <2>1 DEF QueueGet
  <2>6. \A l \in Workers : ~Owns(l, n)
    BY <2>4 DEF QueueInv
  <2>7. \A l \in Workers \ {k} : pc'[l] = pc[l] /\ item'[l] = item[l]
    BY <2>1, <2>2 DEF TypeOK
  <2>8. pc'[k] = "take" /\ item'[k] = n
    BY <2>1, <2>2 DEF TypeOK
  <2>9. QueueInv' /\ OneWorkerPerNamespace' /\ BatchInv'
    <3>1. QueueInv'
      BY <2>2, <2>3, <2>5, <2>6, <2>7, <2>8 DEF QueueInv, Owns
    <3>2. OneWorkerPerNamespace'
      BY <2>2, <2>6, <2>7, <2>8 DEF OneWorkerPerNamespace, Owns
    <3>3. BatchInv'
      BY <2>2, <2>7, <2>8 DEF BatchInv
    <3> QED BY <3>1, <3>2, <3>3
  <2>10. n \notin inProgress
    BY <2>6 DEF MapInv
  <2>11. MapInv'
    BY <2>2, <2>5, <2>6, <2>7, <2>8, <2>10 DEF MapInv, Owns
  <2> QED BY <2>9, <2>11
<1>4. ASSUME NEW k \in Workers, Take(k) PROVE Bookkeeping'
  <2> DEFINE n == item[k]
  <2>1. n \in Namespaces /\ pc[k] = "take" /\ Owns(k, n)
    BY <1>4 DEF TypeOK, Take, Owns
  <2>2. /\ queue' = queue /\ dirty' = dirty /\ processing' = processing
        /\ item' = item
        /\ inProgress' = inProgress \cup {n}
    BY <1>4 DEF Take, queueVars
  <2>3. /\ work'[n] = <<>> /\ dirtyWork'[n] = <<>>
        /\ \A ns \in Namespaces \ {n} :
             work'[ns] = work[ns] /\ dirtyWork'[ns] = dirtyWork[ns]
    BY <1>4, <2>1 DEF Take, TypeOK
  <2>4. /\ pc'[k] \in {"check", "notify"}
        /\ \A l \in Workers \ {k} : pc'[l] = pc[l] /\ batch'[l] = batch[l]
    BY <1>4 DEF Take, TypeOK
  <2>5. \A l \in Workers, ns \in Namespaces : Owns(l, ns)' <=> Owns(l, ns)
    BY <2>1, <2>2, <2>4 DEF Owns
  <2>6. QueueInv' /\ OneWorkerPerNamespace'
    BY <2>2, <2>5 DEF QueueInv, OneWorkerPerNamespace
  <2>7. BatchInv'
    BY <2>4 DEF BatchInv
  <2>8. MapInv'
    <3> SUFFICES ASSUME NEW ns \in Namespaces
                 PROVE  MapInv!(ns)'
      BY DEF MapInv
    <3>1. CASE ns = n
      BY <3>1, <2>1, <2>2, <2>3, <2>4, <2>5
    <3>2. CASE ns # n
      <4>1. \A l \in Workers : item[l] = ns => pc'[l] = pc[l]
        BY <3>2, <2>4
      <4> QED BY <3>2, <4>1, <2>2, <2>3, <2>5 DEF MapInv, Owns
    <3> QED BY <3>1, <3>2
  <2> QED BY <2>6, <2>7, <2>8
<1>5. ASSUME NEW k \in Workers, CheckAttributes(k) \/ Notify(k)
      PROVE  Bookkeeping'
  <2>1. /\ queue' = queue /\ dirty' = dirty /\ processing' = processing
        /\ work' = work /\ dirtyWork' = dirtyWork /\ inProgress' = inProgress
        /\ item' = item
    BY <1>5 DEF CheckAttributes, Notify, queueVars, mapVars
  <2>2. /\ pc[k] \in {"check", "notify"} /\ pc'[k] \in {"check", "notify"}
        /\ \A l \in Workers \ {k} : pc'[l] = pc[l] /\ batch'[l] = batch[l]
    BY <1>5 DEF CheckAttributes, Notify, TypeOK
  <2>3. \A l \in Workers, ns \in Namespaces : Owns(l, ns)' <=> Owns(l, ns)
    BY <2>1, <2>2 DEF Owns
  <2>4. QueueInv' /\ OneWorkerPerNamespace'
    BY <2>1, <2>3 DEF QueueInv, OneWorkerPerNamespace
  <2>5. BatchInv'
    BY <2>2 DEF BatchInv
  <2>6. \A l \in Workers : pc'[l] = "take" <=> pc[l] = "take"
    BY <2>2
  <2>7. MapInv'
    BY <2>1, <2>3, <2>6 DEF MapInv
  <2> QED BY <2>4, <2>5, <2>7
<1>6. ASSUME NEW k \in Workers, CompleteWork(k) PROVE Bookkeeping'
  <2> DEFINE n == item[k]
  <2>1. n \in Namespaces /\ pc[k] = "notify" /\ Owns(k, n) /\ batch[k] = <<>>
    BY <1>6 DEF TypeOK, CompleteWork, Owns
  <2>2. /\ dirty' = dirty /\ processing' = processing \ {n}
        /\ item' = item /\ batch' = batch
        /\ inProgress' = inProgress \ {n}
    BY <1>6 DEF CompleteWork, QueueDone
  <2>3. /\ work'[n] = dirtyWork[n] /\ dirtyWork'[n] = <<>>
        /\ \A ns \in Namespaces \ {n} :
             work'[ns] = work[ns] /\ dirtyWork'[ns] = dirtyWork[ns]
    BY <1>6, <2>1 DEF CompleteWork, TypeOK
  <2>4. /\ pc'[k] = "get"
        /\ \A l \in Workers \ {k} : pc'[l] = pc[l]
    BY <1>6 DEF CompleteWork, TypeOK
  <2>5. \A l \in Workers : Owns(l, n) => l = k
    BY <2>1 DEF OneWorkerPerNamespace
  <2>6. /\ \A l \in Workers : ~Owns(l, n)'
        /\ \A l \in Workers, ns \in Namespaces \ {n} :
             Owns(l, ns)' <=> Owns(l, ns)
    BY <2>1, <2>2, <2>4, <2>5 DEF Owns
  <2>7. n \in processing
    BY <2>1 DEF QueueInv
  <2>8. Range(queue') = dirty' \ processing'
    <3>1. CASE n \notin dirty
      BY <1>6, <3>1, <2>2 DEF CompleteWork, QueueDone, QueueInv
    <3>2. CASE n \in dirty
      <4>1. queue' = Append(queue, n)
        BY <1>6, <3>2 DEF CompleteWork, QueueDone
      <4>2. Range(queue') = Range(queue) \cup {n}
        BY <4>1, <2>1, AppendRange DEF TypeOK
      <4> QED BY <4>2, <2>2, <3>2 DEF QueueInv
    <3> QED BY <3>1, <3>2
  <2>9. QueueInv'
    BY <2>2, <2>6, <2>8 DEF QueueInv
  <2>10. OneWorkerPerNamespace'
    <3> SUFFICES ASSUME NEW l \in Workers, NEW m \in Workers,
                        NEW ns \in Namespaces, Owns(l, ns)', Owns(m, ns)'
                 PROVE  l = m
      BY DEF OneWorkerPerNamespace
    <3>1. ns # n
      BY <2>2, <2>6
    <3> QED BY <3>1, <2>6 DEF OneWorkerPerNamespace
  <2>11. BatchInv'
    BY <2>1, <2>2, <2>4 DEF BatchInv
  <2>12. MapInv'
    <3> SUFFICES ASSUME NEW ns \in Namespaces
                 PROVE  MapInv!(ns)'
      BY DEF MapInv
    <3>1. CASE ns = n
      BY <3>1, <2>1, <2>2, <2>3, <2>6 DEF MapInv
    <3>2. CASE ns # n
      <4>1. \A l \in Workers : item[l] = ns => pc'[l] = pc[l]
        BY <3>2, <2>4
      <4> QED BY <3>2, <4>1, <2>2, <2>3, <2>6 DEF MapInv, Owns
    <3> QED BY <3>1, <3>2
  <2> QED BY <2>9, <2>10, <2>11, <2>12
<1>7. CASE UNCHANGED vars
  BY <1>7 DEF vars, queueVars, mapVars, workerVars, QueueInv,
              OneWorkerPerNamespace, MapInv, BatchInv, Owns
<1> QED BY <1>1, <1>2, <1>3, <1>4, <1>5, <1>6, <1>7
        DEF Next, WorkerStep, CallerStep

-----------------------------------------------------------------------------
(* The order of the waiters.                                                 *)

\* Handing a waiter in at the end of a list hands it in at the end of the
\* line the list is the last part of.
LEMMA AppendConcat ==
  ASSUME NEW S, NEW s \in Seq(S), NEW t \in Seq(S), NEW e \in S
  PROVE  s \o Append(t, e) = Append(s \o t, e)
<1>1. <<e>> \in Seq(S)
  OBVIOUS
<1>2. s \o t \in Seq(S)
  BY ConcatProperties
<1>3. Append(t, e) = t \o <<e>> /\ Append(s \o t, e) = (s \o t) \o <<e>>
  BY <1>2, AppendIsConcat
<1>4. (s \o t) \o <<e>> = s \o (t \o <<e>>)
  BY <1>1, ConcatAssociative
<1> QED BY <1>3, <1>4

\* Notifying the head of a batch moves it to the end of the answered list.
LEMMA HeadMoves ==
  ASSUME NEW S, NEW s \in Seq(S), NEW b \in Seq(S), b # <<>>
  PROVE  Append(s, Head(b)) \o Tail(b) = s \o b
<1>1. Head(b) \in S /\ Tail(b) \in Seq(S) /\ <<Head(b)>> \in Seq(S)
  BY HeadTailProperties
<1>2. <<Head(b)>> \o Tail(b) = b
  <2>1. 1 \in 1..Len(b) /\ Len(b) \in 1..Len(b)
    BY EmptySeq
  <2>2. SubSeq(b, 1, Len(b)) = <<b[1]>> \o SubSeq(b, 1 + 1, Len(b))
    BY <2>1, SubSeqRecursiveFirst
  <2>3. Tail(b) = SubSeq(b, 2, Len(b)) /\ SubSeq(b, 1, Len(b)) = b
    BY TailIsSubSeq, SubSeqFull
  <2> QED BY <2>2, <2>3
<1>3. Append(s, Head(b)) = s \o <<Head(b)>>
  BY <1>1, AppendIsConcat
<1>4. (s \o <<Head(b)>>) \o Tail(b) = s \o (<<Head(b)>> \o Tail(b))
  BY <1>1, ConcatAssociative
<1> QED BY <1>2, <1>3, <1>4

\* A request is handed in once, and its channel is closed when it is answered.
LEMMA HistoryStep ==
  ASSUME TypeOK, HistoryInv, [Next]_vars
  PROVE  HistoryInv'
<1> USE NsOfType
<1>1. ASSUME NEW a \in Waiters, AddWork(a) PROVE HistoryInv'
  <2> DEFINE n == NsOf[a]
  <2>1. n \in Namespaces /\ caller[a] = "outside"
    BY <1>1 DEF AddWork
  <2>2. a \notin Range(submitted[n])
    BY <2>1 DEF HistoryInv
  <2>3. /\ submitted'[n] = Append(submitted[n], a)
        /\ \A ns \in Namespaces \ {n} : submitted'[ns] = submitted[ns]
        /\ finished' = finished /\ answered' = answered
    BY <1>1, <2>1 DEF AddWork, TypeOK
  <2>4. Range(submitted'[n]) = Range(submitted[n]) \cup {a}
        /\ IsInjective(submitted'[n])
    BY <2>1, <2>2, <2>3, AppendRange DEF HistoryInv, TypeOK
  <2>5. \A b \in Waiters : caller'[b] = "outside" => caller[b] = "outside"
    BY <1>1 DEF AddWork, TypeOK
  <2>6. caller'[a] # "outside"
    BY <1>1 DEF AddWork, TypeOK
  <2>7. \A ns \in Namespaces : Range(submitted[ns]) \subseteq Waiters
    BY RangeOfSeq DEF TypeOK
  <2>8. ASSUME NEW ns \in Namespaces
        PROVE  /\ IsInjective(submitted'[ns])
               /\ \A b \in Range(submitted'[ns]) :
                    NsOf[b] = ns /\ caller'[b] # "outside"
    <3>1. CASE ns = n
      BY <3>1, <2>4, <2>5, <2>6, <2>7 DEF HistoryInv
    <3>2. CASE ns # n
      BY <3>2, <2>3, <2>5, <2>7 DEF HistoryInv
    <3> QED BY <3>1, <3>2
  <2> QED BY <2>3, <2>8 DEF HistoryInv
<1>2. ASSUME NEW a \in Waiters, Return(a) \/ Timeout(a) PROVE HistoryInv'
  <2>1. /\ submitted' = submitted /\ finished' = finished
        /\ answered' = answered
    BY <1>2 DEF Return, Timeout
  <2>2. \A b \in Waiters : caller'[b] = "outside" => caller[b] = "outside"
    BY <1>2 DEF Return, Timeout, TypeOK
  <2>3. \A ns \in Namespaces : Range(submitted[ns]) \subseteq Waiters
    BY RangeOfSeq DEF TypeOK
  <2> QED BY <2>1, <2>2, <2>3 DEF HistoryInv
<1>3. ASSUME NEW k \in Workers, Notify(k) PROVE HistoryInv'
  <2> DEFINE n == item[k]
             h == Head(batch[k])
  <2>1. n \in Namespaces /\ h \in Waiters
    BY <1>3, HeadTailProperties DEF TypeOK, Notify
  <2>2. /\ submitted' = submitted /\ caller' = caller
        /\ finished' = finished \cup {h}
        /\ answered'[n] = Append(answered[n], h)
        /\ \A ns \in Namespaces \ {n} : answered'[ns] = answered[ns]
    BY <1>3, <2>1 DEF Notify, TypeOK
  <2>3. Range(answered'[n]) = Range(answered[n]) \cup {h}
    BY <2>1, <2>2, AppendRange DEF TypeOK
  <2>4. ASSUME NEW a \in Waiters
        PROVE  a \in finished' <=>
                 \E ns \in Namespaces : a \in Range(answered'[ns])
    BY <2>1, <2>2, <2>3 DEF HistoryInv
  <2> QED BY <2>2, <2>4 DEF HistoryInv
<1>4. ASSUME NEW k \in Workers,
             Get(k) \/ Take(k) \/ CheckAttributes(k) \/ CompleteWork(k)
      PROVE  HistoryInv'
  BY <1>4 DEF HistoryInv, Get, Take, CheckAttributes, CompleteWork
<1>5. CASE UNCHANGED vars
  BY <1>5 DEF HistoryInv, vars
<1> QED BY <1>1, <1>2, <1>3, <1>4, <1>5 DEF Next, WorkerStep, CallerStep

\* A step that changes no list keeps the order.
LEMMA OrderUnchanged ==
  ASSUME InOrder, NEW ns \in Namespaces,
         submitted'[ns] = submitted[ns], answered'[ns] = answered[ns],
         Current(ns)' = Current(ns),
         work'[ns] = work[ns], dirtyWork'[ns] = dirtyWork[ns]
  PROVE  InOrder!(ns)'
BY DEF InOrder

\* Every critical section keeps the waiters of a namespace in order: addWork
\* appends, getWork and completeWork move lists whole, a close moves the head.
LEMMA OrderStep ==
  ASSUME IndInv, TypeOK', Bookkeeping', [Next]_vars
  PROVE  InOrder'
<1> USE NsOfType
<1>0. /\ TypeOK /\ QueueInv /\ OneWorkerPerNamespace /\ MapInv /\ BatchInv
      /\ InOrder /\ OneWorkerPerNamespace'
  BY DEF IndInv, Bookkeeping
<1> SUFFICES ASSUME NEW ns \in Namespaces
             PROVE  InOrder!(ns)'
  BY DEF InOrder
<1> DEFINE sub == submitted[ns]
           ans == answered[ns]
           cur == Current(ns)
           wrk == work[ns]
           dwk == dirtyWork[ns]
<1>a. /\ ans \in Seq(Waiters) /\ cur \in Seq(Waiters)
      /\ wrk \in Seq(Waiters) /\ dwk \in Seq(Waiters)
      /\ <<>> \in Seq(Waiters)
  BY <1>0, CurrentType, EmptySeq DEF TypeOK
<1>b. /\ ans \o cur \in Seq(Waiters)
      /\ (ans \o cur) \o wrk \in Seq(Waiters)
  BY <1>a, ConcatProperties
<1>c. sub = ans \o cur \o wrk \o dwk
  BY <1>0 DEF InOrder
<1>d. ASSUME NEW a \in Waiters
      PROVE  /\ ans \o cur \o wrk \o Append(dwk, a)
                  = Append(ans \o cur \o wrk \o dwk, a)
             /\ dwk = <<>> => ans \o cur \o Append(wrk, a) \o dwk
                                = Append(ans \o cur \o wrk \o dwk, a)
  <2> DEFINE st == ans \o cur
             stu == ans \o cur \o wrk
  <2>1. st \in Seq(Waiters) /\ stu \in Seq(Waiters)
    BY <1>b
  <2> HIDE DEF ans, cur, wrk, dwk, st, stu
  <2>2. stu \o Append(dwk, a) = Append(stu \o dwk, a)
    BY <1>a, <2>1, AppendConcat
  <2>3. st \o Append(wrk, a) = Append(stu, a)
    <3>1. st \o Append(wrk, a) = Append(st \o wrk, a)
      BY <1>a, <2>1, AppendConcat
    <3> QED BY <3>1 DEF st, stu
  <2>4. Append(stu, a) \o <<>> = Append(stu, a) /\ stu \o <<>> = stu
    <3>1. Append(stu, a) \in Seq(Waiters)
      BY <2>1, AppendProperties
    <3> QED BY <3>1, <2>1, ConcatEmptySeq
  <2>5. dwk = <<>> => st \o Append(wrk, a) \o dwk = Append(stu \o dwk, a)
    BY <2>3, <2>4
  <2> QED BY <2>2, <2>5 DEF st, stu
<1>1. ASSUME NEW a \in Waiters, AddWork(a) PROVE InOrder!(ns)'
  <2>1. answered' = answered /\ Current(ns)' = cur
    BY <1>1 DEF AddWork, workerVars, Current, Owns
  <2>2. CASE ns # NsOf[a]
    <3>1. /\ submitted'[ns] = sub
          /\ work'[ns] = wrk /\ dirtyWork'[ns] = dwk
      BY <1>0, <1>1, <2>2 DEF AddWork, TypeOK
    <3> QED BY <3>1, <2>1, <1>c
  <2>3. CASE ns = NsOf[a] /\ ns \in inProgress
    <3>1. /\ submitted'[ns] = Append(sub, a) /\ work'[ns] = wrk
          /\ dirtyWork'[ns] = Append(dwk, a)
      BY <1>0, <1>1, <2>3 DEF AddWork, TypeOK
    <3> QED BY <3>1, <2>1, <1>c, <1>d
  <2>4. CASE ns = NsOf[a] /\ ns \notin inProgress
    <3>1. /\ submitted'[ns] = Append(sub, a) /\ dirtyWork'[ns] = dwk
          /\ work'[ns] = Append(wrk, a) /\ dwk = <<>>
      <4>1. dwk = <<>>
        BY <1>0, <2>4 DEF MapInv
      <4>2. /\ submitted' = [submitted EXCEPT ![ns] = Append(sub, a)]
            /\ dirtyWork' = dirtyWork
            /\ work' = [work EXCEPT ![ns] = Append(wrk, a)]
        BY <1>1, <2>4 DEF AddWork
      <4> QED BY <4>1, <4>2, <1>0 DEF TypeOK
    <3> QED BY <3>1, <2>1, <1>c, <1>d
  <2> QED BY <2>2, <2>3, <2>4
<1>2. ASSUME NEW a \in Waiters, Return(a) \/ Timeout(a) PROVE InOrder!(ns)'
  BY <1>2, <1>c DEF Return, Timeout, mapVars, workerVars, Current, Owns
<1>3. ASSUME NEW k \in Workers, Get(k) PROVE InOrder!(ns)'
  <2>1. PICK n \in Namespaces : QueueGet(n) /\ item' = [item EXCEPT ![k] = n]
    BY <1>3 DEF Get
  <2>2. /\ pc[k] = "get" /\ pc'[k] = "take" /\ item'[k] = n
        /\ batch' = batch
        /\ \A l \in Workers \ {k} : pc'[l] = pc[l] /\ item'[l] = item[l]
    BY <1>0, <1>3, <2>1 DEF Get, TypeOK
  <2>3. batch[k] = <<>>
    BY <1>0, <2>2 DEF BatchInv
  <2>4. n \in Range(queue)
    BY <1>0, <2>1, TailRange DEF QueueGet, TypeOK
  <2>5. \A l \in Workers : ~Owns(l, n)
    BY <1>0, <2>4 DEF QueueInv
  <2>6. Current(ns)' = cur
    <3>1. CASE ns = n
      <4>1. cur = <<>>
        BY <1>0, <2>5, <3>1, CurrentOwned
      <4>2. Owns(k, ns)'
        BY <2>2, <3>1 DEF Owns
      <4>3. Current(ns)' = batch'[k]
        BY <4>2, <1>0, CurrentOwnedNext
      <4> QED BY <4>1, <4>3, <2>2, <2>3
    <3>2. CASE ns # n
      <4>1. \A l \in Workers : Owns(l, ns)' <=> Owns(l, ns)
        BY <2>2, <3>2 DEF Owns
      <4> QED BY <4>1, <2>2 DEF Current
    <3> QED BY <3>1, <3>2
  <2> QED BY <2>6, <1>0, <1>3, OrderUnchanged DEF Get, mapVars
<1>4. ASSUME NEW k \in Workers, Take(k) PROVE InOrder!(ns)'
  <2>1. /\ item[k] \in Namespaces /\ pc[k] = "take" /\ item' = item
        /\ submitted' = submitted /\ answered' = answered
    BY <1>0, <1>4 DEF Take, TypeOK
  <2>2. /\ pc'[k] # "get" /\ batch'[k] = work[item[k]]
        /\ \A l \in Workers \ {k} : pc'[l] = pc[l] /\ batch'[l] = batch[l]
    BY <1>0, <1>4 DEF Take, TypeOK
  <2>3. CASE ns = item[k]
    <3>1. Owns(k, ns) /\ Owns(k, ns)'
      BY <2>1, <2>2, <2>3 DEF Owns
    <3>2. cur = <<>> /\ Current(ns)' = wrk
      <4>1. cur = batch[k] /\ Current(ns)' = batch'[k]
        BY <3>1, <1>0, CurrentOwned, CurrentOwnedNext
      <4> QED BY <4>1, <2>1, <2>2, <2>3, <1>0 DEF BatchInv
    <3>3. ns \notin inProgress
      BY <3>1, <2>1, <1>0 DEF MapInv, OneWorkerPerNamespace
    <3>4. dwk = <<>> /\ work'[ns] = <<>> /\ dirtyWork'[ns] = <<>>
      BY <3>3, <2>3, <1>0, <1>4 DEF MapInv, Take, TypeOK
    <3>5. ans \o wrk \in Seq(Waiters)
      BY <1>a, ConcatProperties
    <3>6. sub = ans \o wrk
      BY <1>a, <1>c, <3>2, <3>4, <3>5, ConcatEmptySeq
    <3>7. ans \o wrk \o <<>> \o <<>> = ans \o wrk
      BY <3>5, ConcatEmptySeq
    <3> QED BY <2>1, <3>2, <3>4, <3>6, <3>7
  <2>4. CASE ns # item[k]
    <3>1. \A l \in Workers : Owns(l, ns)' <=> Owns(l, ns)
      BY <2>1, <2>2, <2>4 DEF Owns
    <3>2. \A l \in Workers : Owns(l, ns) => batch'[l] = batch[l]
      BY <2>2, <2>4 DEF Owns
    <3>3. Current(ns)' = cur
      BY <3>1, <3>2, <1>0, CurrentOwned, CurrentOwnedNext
    <3> QED BY <3>3, <2>1, <2>4, <1>0, <1>4, OrderUnchanged DEF Take, TypeOK
  <2> QED BY <2>3, <2>4
<1>5. ASSUME NEW k \in Workers, CheckAttributes(k) PROVE InOrder!(ns)'
  <2>1. \A l \in Workers : Owns(l, ns)' <=> Owns(l, ns)
    BY <1>0, <1>5 DEF CheckAttributes, TypeOK, Owns
  <2>2. Current(ns)' = cur
    BY <2>1, <1>5 DEF Current, CheckAttributes
  <2> QED BY <2>2, <1>0, <1>5, OrderUnchanged DEF CheckAttributes, mapVars
<1>6. ASSUME NEW k \in Workers, Notify(k) PROVE InOrder!(ns)'
  <2>1. /\ item[k] \in Namespaces /\ pc[k] = "notify" /\ batch[k] # <<>>
        /\ item' = item /\ pc' = pc /\ work' = work /\ dirtyWork' = dirtyWork
        /\ submitted' = submitted
    BY <1>0, <1>6 DEF Notify, TypeOK, mapVars
  <2>2. /\ batch'[k] = Tail(batch[k])
        /\ \A l \in Workers \ {k} : batch'[l] = batch[l]
    BY <1>0, <1>6 DEF Notify, TypeOK
  <2>3. CASE ns = item[k]
    <3>1. Owns(k, ns) /\ Owns(k, ns)'
      BY <2>1, <2>3 DEF Owns
    <3>2. cur = batch[k] /\ Current(ns)' = Tail(cur)
      BY <3>1, <2>2, <1>0, CurrentOwned, CurrentOwnedNext
    <3>3. answered'[ns] = Append(ans, Head(cur))
      BY <2>3, <3>2, <1>0, <1>6 DEF Notify, TypeOK
    <3>4. Append(ans, Head(cur)) \o Tail(cur) = ans \o cur
      BY <3>2, <2>1, <1>a, HeadMoves
    <3> QED BY <2>1, <3>2, <3>3, <3>4, <1>c
  <2>4. CASE ns # item[k]
    <3>1. \A l \in Workers : Owns(l, ns)' <=> Owns(l, ns)
      BY <2>1 DEF Owns
    <3>2. \A l \in Workers : Owns(l, ns) => batch'[l] = batch[l]
      BY <2>2, <2>4 DEF Owns
    <3>3. Current(ns)' = cur
      BY <3>1, <3>2, <1>0, CurrentOwned, CurrentOwnedNext
    <3> QED BY <3>3, <2>1, <2>4, <1>0, <1>6, OrderUnchanged DEF Notify, TypeOK
  <2> QED BY <2>3, <2>4
<1>7. ASSUME NEW k \in Workers, CompleteWork(k) PROVE InOrder!(ns)'
  <2>1. /\ item[k] \in Namespaces /\ pc[k] = "notify" /\ batch[k] = <<>>
        /\ item' = item /\ batch' = batch
        /\ submitted' = submitted /\ answered' = answered
    BY <1>0, <1>7 DEF CompleteWork, TypeOK
  <2>2. pc'[k] = "get" /\ \A l \in Workers \ {k} : pc'[l] = pc[l]
    BY <1>0, <1>7 DEF CompleteWork, TypeOK
  <2>3. CASE ns = item[k]
    <3>1. Owns(k, ns) /\ \A l \in Workers : Owns(l, ns) => l = k
      BY <2>1, <2>3, <1>0 DEF Owns, OneWorkerPerNamespace
    <3>2. \A l \in Workers : ~Owns(l, ns)'
      BY <2>1, <2>2, <3>1 DEF Owns
    <3>3. cur = <<>> /\ Current(ns)' = <<>>
      BY <3>1, <3>2, <2>1, <1>0, CurrentOwned, CurrentOwnedNext
    <3>4. wrk = <<>> /\ work'[ns] = dwk /\ dirtyWork'[ns] = <<>>
      BY <3>1, <2>1, <2>3, <1>0, <1>7 DEF MapInv, CompleteWork, TypeOK
    <3>5. ans \o dwk \in Seq(Waiters)
      BY <1>a, ConcatProperties
    <3>6. sub = ans \o dwk
      BY <1>a, <1>c, <3>3, <3>4, ConcatEmptySeq
    <3>7. ans \o <<>> \o dwk \o <<>> = ans \o dwk
      BY <1>a, <3>5, ConcatEmptySeq
    <3> QED BY <2>1, <3>3, <3>4, <3>6, <3>7
  <2>4. CASE ns # item[k]
    <3>1. \A l \in Workers : Owns(l, ns)' <=> Owns(l, ns)
      BY <2>1, <2>2, <2>4 DEF Owns
    <3>2. Current(ns)' = cur
      BY <3>1, <2>1 DEF Current
    <3> QED BY <3>2, <2>1, <2>4, <1>0, <1>7, OrderUnchanged
            DEF CompleteWork, TypeOK
  <2> QED BY <2>3, <2>4
<1>8. CASE UNCHANGED vars
  BY <1>8, <1>c DEF vars, mapVars, workerVars, Current, Owns
<1> QED BY <1>1, <1>2, <1>3, <1>4, <1>5, <1>6, <1>7, <1>8
        DEF Next, WorkerStep, CallerStep

-----------------------------------------------------------------------------
(* The theorems.                                                             *)

\* IndInv holds when the evaluator is constructed and every critical section
\* of addWork, getWork, checkAttributes and completeWork preserves it.
THEOREM Inductive == Spec => []IndInv
<1>1. Init => IndInv
  <2> SUFFICES ASSUME Init PROVE IndInv
    OBVIOUS
  <2>1. /\ Range(<<>>) = {} /\ IsInjective(<<>>)
        /\ <<>> \in Seq(Waiters) /\ <<>> \in Seq(Namespaces)
    BY EmptySeq DEF Range, IsInjective
  <2>2. TypeOK
    BY <2>1 DEF Init, TypeOK, Empty
  <2>3. \A k \in Workers, ns \in Namespaces : ~Owns(k, ns)
    BY DEF Init, Owns
  <2>4. QueueInv /\ OneWorkerPerNamespace /\ BatchInv
    BY <2>1, <2>3 DEF Init, QueueInv, OneWorkerPerNamespace, BatchInv
  <2>5. MapInv
    BY <2>3 DEF Init, MapInv, Empty
  <2>6. HistoryInv
    BY <2>1 DEF Init, HistoryInv, Empty
  <2>7. InOrder
    <3>1. \A ns \in Namespaces : Current(ns) = <<>>
      BY <2>3, <2>4, CurrentOwned
    <3>2. <<>> \o <<>> = <<>>
      BY <2>1, ConcatEmptySeq
    <3> QED BY <3>1, <3>2 DEF Init, InOrder, Empty
  <2> QED BY <2>2, <2>4, <2>5, <2>6, <2>7 DEF IndInv
<1>2. IndInv /\ [Next]_vars => IndInv'
  <2> SUFFICES ASSUME IndInv, [Next]_vars PROVE IndInv'
    OBVIOUS
  <2>1. TypeOK'
    BY TypeStep DEF IndInv
  <2>2. Bookkeeping'
    BY <2>1, BookkeepingStep DEF IndInv, Bookkeeping
  <2>3. HistoryInv'
    BY HistoryStep DEF IndInv
  <2>4. InOrder'
    BY <2>1, <2>2, OrderStep
  <2> QED BY <2>1, <2>2, <2>3, <2>4 DEF IndInv, Bookkeeping
<1> QED BY <1>1, <1>2, PTL DEF Spec

\* Every variable keeps its type and the work queue holds no namespace twice.
THEOREM TypeCorrect == Spec => []TypeOK
<1>1. IndInv => TypeOK
  BY DEF IndInv
<1> QED BY <1>1, Inductive, PTL

\* No waiter is lost, duplicated or overtaken within its namespace.
THEOREM Ordered == Spec => []InOrder
<1>1. IndInv => InOrder
  BY DEF IndInv
<1> QED BY <1>1, Inductive, PTL

\* Never two workers between queue.Get and completeWork of one namespace.
THEOREM Exclusive == Spec => []OneWorkerPerNamespace
<1>1. IndInv => OneWorkerPerNamespace
  BY DEF IndInv
<1> QED BY <1>1, Inductive, PTL

\* addWork never leaves a waiter in a list that no queue entry, no worker and
\* no completeWork will look at.
THEOREM WakesUp == Spec => []NoLostWakeup
<1>1. IndInv => NoLostWakeup
  <2> SUFFICES ASSUME IndInv, NEW ns \in Namespaces
               PROVE  NoLostWakeup!(ns)
    BY DEF NoLostWakeup
  <2>0. QueueInv /\ MapInv
    BY DEF IndInv
  <2>1. ASSUME work[ns] # <<>>
        PROVE  \/ ns \in Range(queue)
               \/ \E k \in Workers : pc[k] = "take" /\ item[k] = ns
    <3>1. CASE ns \in dirty /\ ns \notin processing
      BY <3>1, <2>0 DEF QueueInv
    <3>2. CASE ns \in dirty /\ ns \in processing
      <4>1. PICK k \in Workers : Owns(k, ns)
        BY <3>2, <2>0 DEF QueueInv
      <4>2. ns \notin inProgress
        BY <2>1, <2>0 DEF MapInv
      <4>3. pc[k] = "take"
        BY <4>1, <4>2, <2>0 DEF MapInv
      <4> QED BY <4>1, <4>3 DEF Owns
    <3>3. CASE ns \notin dirty
      BY <3>3, <2>1, <2>0 DEF MapInv
    <3> QED BY <3>1, <3>2, <3>3
  <2>2. dirtyWork[ns] # <<>> => ns \in dirty /\ ns \in inProgress
    BY <2>0 DEF MapInv
  <2> QED BY <2>1, <2>2
<1> QED BY <1>1, Inductive, PTL

\* Where the members of two lists stand in their concatenation ...
LEMMA ConcatIndex ==
  ASSUME NEW S, NEW s \in Seq(S), NEW t \in Seq(S), NEW r, r = s \o t
  PROVE  /\ r \in Seq(S)
         /\ Len(s) \in Nat /\ Len(t) \in Nat
         /\ \A i \in 1..Len(s) : i \in DOMAIN r /\ r[i] = s[i]
         /\ \A i \in 1..Len(t) : Len(s) + i \in DOMAIN r
                                 /\ r[Len(s) + i] = t[i]
<1>1. /\ r \in Seq(S) /\ Len(r) = Len(s) + Len(t)
      /\ \A i \in 1..Len(s) + Len(t) :
           r[i] = IF i <= Len(s) THEN s[i] ELSE t[i - Len(s)]
  BY ConcatProperties
<1>2. Len(s) \in Nat /\ Len(t) \in Nat /\ DOMAIN r = 1..Len(r)
  BY <1>1, LenProperties
<1>3. ASSUME NEW i \in 1..Len(s) PROVE i \in DOMAIN r /\ r[i] = s[i]
  <2>1. i \in 1..Len(s) + Len(t) /\ i <= Len(s)
    BY <1>2
  <2> QED BY <2>1, <1>1, <1>2
<1>4. ASSUME NEW i \in 1..Len(t)
      PROVE  Len(s) + i \in DOMAIN r /\ r[Len(s) + i] = t[i]
  <2>1. /\ Len(s) + i \in 1..Len(s) + Len(t) /\ ~(Len(s) + i <= Len(s))
        /\ (Len(s) + i) - Len(s) = i
    BY <1>2
  <2> QED BY <2>1, <1>1, <1>2
<1> QED BY <1>1, <1>2, <1>3, <1>4

\* ... and those of the first two lists in the whole line.
LEMMA LineIndex ==
  ASSUME NEW S, NEW s \in Seq(S), NEW t \in Seq(S), NEW u \in Seq(S),
         NEW v \in Seq(S), NEW r, r = s \o t \o u \o v
  PROVE  /\ Len(s) \in Nat /\ Len(t) \in Nat
         /\ \A i \in 1..Len(s) : i \in DOMAIN r /\ r[i] = s[i]
         /\ \A i \in 1..Len(t) : Len(s) + i \in DOMAIN r
                                 /\ r[Len(s) + i] = t[i]
<1>1. PICK st : st = s \o t
  OBVIOUS
<1>2. PICK stu : stu = st \o u
  OBVIOUS
<1>3. r = stu \o v
  BY <1>1, <1>2
<1>4. /\ st \in Seq(S) /\ Len(s) \in Nat /\ Len(t) \in Nat
      /\ \A i \in 1..Len(s) : i \in DOMAIN st /\ st[i] = s[i]
      /\ \A i \in 1..Len(t) : Len(s) + i \in DOMAIN st /\ st[Len(s) + i] = t[i]
  BY ONLY <1>1, ConcatIndex, s \in Seq(S), t \in Seq(S)
<1>5. stu \in Seq(S) /\ \A i \in 1..Len(st) : i \in DOMAIN stu /\ stu[i] = st[i]
  BY ONLY <1>2, <1>4, ConcatIndex, u \in Seq(S)
<1>6. \A i \in 1..Len(stu) : i \in DOMAIN r /\ r[i] = stu[i]
  BY ONLY <1>3, <1>5, ConcatIndex, v \in Seq(S)
<1>7. DOMAIN st = 1..Len(st) /\ DOMAIN stu = 1..Len(stu)
  BY <1>4, <1>5, LenProperties
<1> QED BY <1>4, <1>5, <1>6, <1>7

\* checkAttributes never closes a finished channel a second time.
THEOREM ClosesOnce == Spec => []CloseOnce
<1>1. IndInv => CloseOnce
  <2> SUFFICES ASSUME IndInv, NEW k \in Workers, NEW l \in Workers,
                      NEW i \in 1..Len(batch[k])
               PROVE  /\ batch[k][i] \notin finished
                      /\ \A j \in 1..Len(batch[l]) :
                           batch[k][i] = batch[l][j] => k = l /\ i = j
    BY DEF CloseOnce
  <2>0. /\ TypeOK /\ OneWorkerPerNamespace /\ BatchInv /\ HistoryInv /\ InOrder
    BY DEF IndInv
  <2>1. ASSUME NEW ns \in Namespaces
        PROVE  /\ Len(answered[ns]) \in Nat /\ Len(Current(ns)) \in Nat
               /\ \A m \in 1..Len(answered[ns]) :
                    /\ m \in DOMAIN submitted[ns]
                    /\ submitted[ns][m] = answered[ns][m]
               /\ \A m \in 1..Len(Current(ns)) :
                    /\ Len(answered[ns]) + m \in DOMAIN submitted[ns]
                    /\ submitted[ns][Len(answered[ns]) + m] = Current(ns)[m]
    <3>1. /\ answered[ns] \in Seq(Waiters) /\ Current(ns) \in Seq(Waiters)
          /\ work[ns] \in Seq(Waiters) /\ dirtyWork[ns] \in Seq(Waiters)
      BY <2>0, CurrentType DEF TypeOK
    <3>2. submitted[ns]
            = answered[ns] \o Current(ns) \o work[ns] \o dirtyWork[ns]
      BY <2>0 DEF InOrder
    <3>3. PICK s, t, u, v, r :
            /\ s = answered[ns] /\ t = Current(ns)
            /\ u = work[ns] /\ v = dirtyWork[ns] /\ r = submitted[ns]
      OBVIOUS
    <3>4. /\ s \in Seq(Waiters) /\ t \in Seq(Waiters) /\ u \in Seq(Waiters)
          /\ v \in Seq(Waiters) /\ r = s \o t \o u \o v
      BY <3>1, <3>2, <3>3
    <3>5. /\ Len(s) \in Nat /\ Len(t) \in Nat
          /\ \A m \in 1..Len(s) : m \in DOMAIN r /\ r[m] = s[m]
          /\ \A m \in 1..Len(t) : /\ Len(s) + m \in DOMAIN r
                                  /\ r[Len(s) + m] = t[m]
      BY ONLY <3>4, LineIndex
    <3> QED BY ONLY <3>3, <3>5
  <2>2. ASSUME NEW m \in Workers, NEW j \in 1..Len(batch[m])
        PROVE  /\ item[m] \in Namespaces /\ Owns(m, item[m])
               /\ Current(item[m]) = batch[m]
               /\ batch[m][j] \in Waiters /\ NsOf[batch[m][j]] = item[m]
    <3>1. batch[m] # <<>>
      BY EmptySeq
    <3>2. item[m] \in Namespaces /\ Owns(m, item[m])
      BY <3>1, <2>0 DEF TypeOK, BatchInv, Owns
    <3>3. Current(item[m]) = batch[m]
      BY <3>2, <2>0, CurrentOwned
    <3>4. batch[m][j] \in Range(submitted[item[m]])
      BY <3>2, <3>3, <2>1 DEF Range
    <3>5. batch[m][j] \in Waiters
      BY <2>0, ElementOfSeq DEF TypeOK
    <3> QED BY <3>2, <3>3, <3>4, <3>5, <2>0 DEF HistoryInv
  <2> DEFINE ns == item[k]
             a == batch[k][i]
  <2>3. /\ ns \in Namespaces /\ Owns(k, ns) /\ Current(ns) = batch[k]
        /\ a \in Waiters /\ NsOf[a] = ns
    BY <2>2
  <2>4. /\ Len(answered[ns]) \in Nat
        /\ Len(answered[ns]) + i \in DOMAIN submitted[ns]
        /\ submitted[ns][Len(answered[ns]) + i] = a
    BY <2>1, <2>3
  <2>5. a \notin finished
    <3> SUFFICES ASSUME a \in finished PROVE FALSE
      OBVIOUS
    <3>1. PICK n \in Namespaces : a \in Range(answered[n])
      BY <2>0, <2>3 DEF HistoryInv
    <3>2. PICK j \in DOMAIN answered[n] : answered[n][j] = a
      BY <3>1 DEF Range
    <3>3. j \in 1..Len(answered[n])
      BY <3>2, <2>0, LenProperties DEF TypeOK
    <3>4. j \in DOMAIN submitted[n] /\ submitted[n][j] = a
      BY <3>2, <3>3, <2>1
    <3>5. n = ns
      BY <3>4, <2>3, <2>0 DEF HistoryInv, Range
    <3>6. j = Len(answered[ns]) + i
      BY <3>4, <3>5, <2>3, <2>4, <2>0 DEF HistoryInv, IsInjective
    <3> QED BY <3>3, <3>5, <3>6, <2>4
  <2>6. ASSUME NEW j \in 1..Len(batch[l]), a = batch[l][j]
        PROVE  k = l /\ i = j
    <3>1. item[l] = ns /\ Owns(l, ns)
      BY <2>2, <2>3, <2>6
    <3>2. k = l
      BY <3>1, <2>3, <2>0 DEF OneWorkerPerNamespace
    <3>3. /\ Len(answered[ns]) + j \in DOMAIN submitted[ns]
          /\ submitted[ns][Len(answered[ns]) + j] = a
      BY <3>2, <2>1, <2>3, <2>6
    <3>4. Len(answered[ns]) + i = Len(answered[ns]) + j
      BY <3>3, <2>3, <2>4, <2>0 DEF HistoryInv, IsInjective
    <3> QED BY <3>2, <3>4, <2>4
  <2> QED BY <2>5, <2>6
<1> QED BY <1>1, Inductive, PTL

-----------------------------------------------------------------------------
(* QuotaWork implements QuotaBatches.                                        *)

\* The abstract line and batch of every namespace.
Pending == [ns \in Namespaces |-> work[ns] \o dirtyWork[ns]]
Batches == [ns \in Namespaces |-> Current(ns)]

\* Get, CheckAttributes, CompleteWork and the callers' returns change neither
\* a line nor a batch.
LEMMA Stutter ==
  ASSUME submitted' = submitted, answered' = answered,
         \A ns \in Namespaces :
           /\ work'[ns] \o dirtyWork'[ns] = work[ns] \o dirtyWork[ns]
           /\ Current(ns)' = Current(ns)
  PROVE  UNCHANGED B!vars
<1>1. Pending' = Pending /\ Batches' = Batches
  BY DEF Pending, Batches
<1> QED BY <1>1 DEF B!vars, Pending, Batches

\* Every step of the evaluator is a step of QuotaBatches or leaves its variables
\* unchanged.
LEMMA StepSimulation ==
  ASSUME IndInv, IndInv', [Next]_vars
  PROVE  [B!Next]_(B!vars)
<1> USE NsOfType
<1>0. /\ TypeOK /\ QueueInv /\ OneWorkerPerNamespace /\ MapInv /\ BatchInv
      /\ HistoryInv /\ InOrder /\ OneWorkerPerNamespace'
  BY DEF IndInv
<1>1. ASSUME NEW a \in Waiters, AddWork(a) PROVE B!Submit(a)
  <2> DEFINE n == NsOf[a]
  <2>1. n \in Namespaces /\ caller[a] = "outside"
    BY <1>1 DEF AddWork
  <2>2. \A i \in 1..Len(submitted[n]) : submitted[n][i] # a
    <3>1. a \notin Range(submitted[n])
      BY <2>1, <1>0 DEF HistoryInv
    <3>2. DOMAIN submitted[n] = 1..Len(submitted[n])
      BY <2>1, <1>0, LenProperties DEF TypeOK
    <3> QED BY <3>1, <3>2 DEF Range
  <2>3. submitted' = [submitted EXCEPT ![n] = Append(@, a)]
        /\ answered' = answered
    BY <1>1 DEF AddWork
  <2>4. Batches' = Batches
    BY <1>1 DEF AddWork, workerVars, Batches, Current, Owns
  <2>5. work'[n] \o dirtyWork'[n] = Append(work[n] \o dirtyWork[n], a)
    <3>1. PICK s, t : s = work[n] /\ t = dirtyWork[n]
      OBVIOUS
    <3>2. s \in Seq(Waiters) /\ t \in Seq(Waiters)
      BY <3>1, <2>1, <1>0 DEF TypeOK
    <3>3. CASE n \in inProgress
      <4>1. work'[n] = s /\ dirtyWork'[n] = Append(t, a)
        BY <1>0, <1>1, <2>1, <3>1, <3>3 DEF AddWork, TypeOK
      <4>2. s \o Append(t, a) = Append(s \o t, a)
        BY <3>2, AppendConcat
      <4> QED BY ONLY <3>1, <4>1, <4>2
    <3>4. CASE n \notin inProgress
      <4>1. t = <<>>
        BY <1>0, <2>1, <3>1, <3>4 DEF MapInv
      <4>2. work'[n] = Append(s, a) /\ dirtyWork'[n] = t
        BY <1>0, <1>1, <2>1, <3>1, <3>4 DEF AddWork, TypeOK
      <4>3. Append(s, a) \in Seq(Waiters)
        BY <3>2, AppendProperties
      <4>4. Append(s, a) \o <<>> = Append(s, a) /\ s \o <<>> = s
        BY <3>2, <4>3, ConcatEmptySeq
      <4> QED BY ONLY <3>1, <4>1, <4>2, <4>4
    <3> QED BY <3>3, <3>4
  <2>6. \A ns \in Namespaces \ {n} :
          work'[ns] = work[ns] /\ dirtyWork'[ns] = dirtyWork[ns]
    BY <1>0, <1>1, <2>1 DEF AddWork, TypeOK
  <2>7. Pending' = [Pending EXCEPT ![n] = Append(@, a)]
    BY <2>1, <2>5, <2>6 DEF Pending
  <2> QED BY <2>2, <2>3, <2>4, <2>7 DEF B!Submit, Pending, Batches
<1>2. ASSUME NEW a \in Waiters, Return(a) \/ Timeout(a)
      PROVE  UNCHANGED B!vars
  BY <1>2, Stutter DEF Return, Timeout, mapVars, workerVars, Current, Owns
<1>3. ASSUME NEW k \in Workers, Get(k) PROVE UNCHANGED B!vars
  <2>1. PICK n \in Namespaces : QueueGet(n) /\ item' = [item EXCEPT ![k] = n]
    BY <1>3 DEF Get
  <2>2. /\ pc[k] = "get" /\ pc'[k] = "take" /\ item'[k] = n
        /\ batch' = batch
        /\ \A l \in Workers \ {k} : pc'[l] = pc[l] /\ item'[l] = item[l]
    BY <1>0, <1>3, <2>1 DEF Get, TypeOK
  <2>3. batch[k] = <<>>
    BY <1>0, <2>2 DEF BatchInv
  <2>4. n \in Range(queue)
    BY <1>0, <2>1, TailRange DEF QueueGet, TypeOK
  <2>5. \A l \in Workers : ~Owns(l, n)
    BY <1>0, <2>4 DEF QueueInv
  <2>6. Owns(k, n)'
    BY <2>2 DEF Owns
  <2>7. Current(n) = <<>> /\ Current(n)' = <<>>
    BY <1>0, <2>2, <2>3, <2>5, <2>6, CurrentOwned, CurrentOwnedNext
  <2>8. ASSUME NEW ns \in Namespaces, ns # n PROVE Current(ns)' = Current(ns)
    <3>1. \A l \in Workers : Owns(l, ns)' <=> Owns(l, ns)
      BY <2>2, <2>8 DEF Owns
    <3> QED BY <3>1, <2>2 DEF Current
  <2> QED BY <1>3, <2>7, <2>8, Stutter DEF Get, mapVars
<1>4. ASSUME NEW k \in Workers, Take(k)
      PROVE  (\E n \in Namespaces : B!Take(n)) \/ UNCHANGED B!vars
  <2>1. PICK n : n = item[k]
    OBVIOUS
  <2>2. /\ n \in Namespaces /\ pc[k] = "take" /\ item' = item
        /\ submitted' = submitted /\ answered' = answered
    BY <1>0, <1>4, <2>1 DEF Take, TypeOK
  <2>3. /\ pc'[k] # "get" /\ batch'[k] = work[n]
        /\ \A l \in Workers \ {k} : pc'[l] = pc[l] /\ batch'[l] = batch[l]
        /\ work'[n] = <<>> /\ dirtyWork'[n] = <<>>
        /\ \A ns \in Namespaces \ {n} :
             work'[ns] = work[ns] /\ dirtyWork'[ns] = dirtyWork[ns]
    BY <1>0, <1>4, <2>1, <2>2 DEF Take, TypeOK
  <2>4. Owns(k, n) /\ Owns(k, n)'
    BY <2>1, <2>2, <2>3 DEF Owns
  <2>5. Current(n) = <<>> /\ Current(n)' = work[n]
    <3>1. Current(n) = batch[k] /\ Current(n)' = batch'[k]
      BY <1>0, <2>2, <2>4, CurrentOwned, CurrentOwnedNext
    <3> QED BY <3>1, <1>0, <2>2, <2>3 DEF BatchInv
  <2>6. dirtyWork[n] = <<>>
    BY <1>0, <2>2, <2>4 DEF MapInv, OneWorkerPerNamespace
  <2>7. ASSUME NEW ns \in Namespaces, ns # n PROVE Current(ns)' = Current(ns)
    <3>1. \A l \in Workers : Owns(l, ns)' <=> Owns(l, ns)
      BY <2>1, <2>2, <2>3, <2>7 DEF Owns
    <3>2. \A l \in Workers : Owns(l, ns) => batch'[l] = batch[l]
      BY <2>1, <2>3, <2>7 DEF Owns
    <3> QED BY <3>1, <3>2, <1>0, CurrentOwned, CurrentOwnedNext
  <2>8. work[n] \o dirtyWork[n] = work[n] /\ work'[n] \o dirtyWork'[n] = <<>>
    <3>1. PICK s : s = work[n]
      OBVIOUS
    <3>2. s \in Seq(Waiters) /\ <<>> \in Seq(Waiters)
      BY <3>1, <1>0, <2>2, EmptySeq DEF TypeOK
    <3>3. s \o <<>> = s /\ <<>> \o <<>> = <<>>
      BY <3>2, ConcatEmptySeq
    <3> QED BY ONLY <3>1, <3>3, <2>3, <2>6
  <2>9. CASE work[n] = <<>>
    BY <2>2, <2>3, <2>5, <2>7, <2>8, <2>9, Stutter
  <2>10. CASE work[n] # <<>>
    <3>1. Pending[n] = work[n] /\ Batches[n] = <<>>
      BY <2>2, <2>5, <2>8 DEF Pending, Batches
    <3>2. Pending' = [Pending EXCEPT ![n] = <<>>]
      BY <2>2, <2>3, <2>8 DEF Pending
    <3>3. Batches' = [Batches EXCEPT ![n] = Pending[n]]
      BY <2>2, <2>5, <2>7, <3>1 DEF Batches
    <3>4. B!Take(n)
      BY <2>2, <2>10, <3>1, <3>2, <3>3 DEF B!Take, Pending, Batches
    <3> QED BY <2>2, <3>4
  <2> QED BY <2>9, <2>10
<1>5. ASSUME NEW k \in Workers, CheckAttributes(k) PROVE UNCHANGED B!vars
  <2>1. \A l \in Workers, ns \in Namespaces : Owns(l, ns)' <=> Owns(l, ns)
    BY <1>0, <1>5 DEF CheckAttributes, TypeOK, Owns
  <2>2. \A ns \in Namespaces : Current(ns)' = Current(ns)
    BY <2>1, <1>5 DEF Current, CheckAttributes
  <2> QED BY <2>2, <1>5, Stutter DEF CheckAttributes, mapVars
<1>6. ASSUME NEW k \in Workers, Notify(k)
      PROVE  \E n \in Namespaces : B!Answer(n)
  <2>1. PICK n : n = item[k]
    OBVIOUS
  <2>2. /\ n \in Namespaces /\ pc[k] = "notify" /\ batch[k] # <<>>
        /\ item' = item /\ pc' = pc /\ work' = work /\ dirtyWork' = dirtyWork
        /\ submitted' = submitted
        /\ answered' = [answered EXCEPT ![n] = Append(@, Head(batch[k]))]
    BY <1>0, <1>6, <2>1 DEF Notify, TypeOK, mapVars
  <2>3. /\ batch'[k] = Tail(batch[k])
        /\ \A l \in Workers \ {k} : batch'[l] = batch[l]
    BY <1>0, <1>6 DEF Notify, TypeOK
  <2>4. Owns(k, n) /\ Owns(k, n)'
    BY <2>1, <2>2 DEF Owns
  <2>5. Current(n) = batch[k] /\ Current(n)' = Tail(batch[k])
    BY <1>0, <2>2, <2>3, <2>4, CurrentOwned, CurrentOwnedNext
  <2>6. ASSUME NEW ns \in Namespaces, ns # n PROVE Current(ns)' = Current(ns)
    <3>1. \A l \in Workers : Owns(l, ns)' <=> Owns(l, ns)
      BY <2>2 DEF Owns
    <3>2. \A l \in Workers : Owns(l, ns) => batch'[l] = batch[l]
      BY <2>1, <2>3, <2>6 DEF Owns
    <3> QED BY <3>1, <3>2, <1>0, CurrentOwned, CurrentOwnedNext
  <2>7. Pending' = Pending
    BY <2>2 DEF Pending
  <2>8. Batches[n] = batch[k] /\ Batches' = [Batches EXCEPT ![n] = Tail(@)]
    BY <2>2, <2>5, <2>6 DEF Batches
  <2>9. B!Answer(n)
    BY <2>2, <2>7, <2>8 DEF B!Answer, Pending, Batches
  <2> QED BY <2>2, <2>9
<1>7. ASSUME NEW k \in Workers, CompleteWork(k) PROVE UNCHANGED B!vars
  <2>1. PICK n : n = item[k]
    OBVIOUS
  <2>2. /\ n \in Namespaces /\ pc[k] = "notify" /\ batch[k] = <<>>
        /\ item' = item /\ batch' = batch
        /\ submitted' = submitted /\ answered' = answered
    BY <1>0, <1>7, <2>1 DEF CompleteWork, TypeOK
  <2>3. /\ pc'[k] = "get" /\ \A l \in Workers \ {k} : pc'[l] = pc[l]
        /\ work'[n] = dirtyWork[n] /\ dirtyWork'[n] = <<>>
        /\ \A ns \in Namespaces \ {n} :
             work'[ns] = work[ns] /\ dirtyWork'[ns] = dirtyWork[ns]
    BY <1>0, <1>7, <2>1, <2>2 DEF CompleteWork, TypeOK
  <2>4. Owns(k, n) /\ \A l \in Workers : Owns(l, n) => l = k
    BY <1>0, <2>1, <2>2 DEF Owns, OneWorkerPerNamespace
  <2>5. \A l \in Workers : ~Owns(l, n)'
    BY <2>2, <2>3, <2>4 DEF Owns
  <2>6. Current(n) = <<>> /\ Current(n)' = <<>>
    BY <1>0, <2>2, <2>4, <2>5, CurrentOwned, CurrentOwnedNext
  <2>7. ASSUME NEW ns \in Namespaces, ns # n PROVE Current(ns)' = Current(ns)
    <3>1. \A l \in Workers : Owns(l, ns)' <=> Owns(l, ns)
      BY <2>1, <2>2, <2>3, <2>7 DEF Owns
    <3> QED BY <3>1, <2>2 DEF Current
  <2>8. work[n] = <<>>
    BY <1>0, <2>2, <2>4 DEF MapInv
  <2>9. work'[n] \o dirtyWork'[n] = work[n] \o dirtyWork[n]
    <3>1. PICK t : t = dirtyWork[n]
      OBVIOUS
    <3>2. t \in Seq(Waiters)
      BY <3>1, <1>0, <2>2 DEF TypeOK
    <3>3. t \o <<>> = t /\ <<>> \o t = t
      BY <3>2, ConcatEmptySeq
    <3> QED BY ONLY <3>1, <3>3, <2>3, <2>8
  <2> QED BY <2>2, <2>3, <2>6, <2>7, <2>9, Stutter
<1>8. CASE UNCHANGED vars
  BY <1>8, Stutter DEF vars, mapVars, workerVars, Current, Owns
<1>9. ASSUME NEW a \in Waiters, CallerStep(a) PROVE B!Next \/ UNCHANGED B!vars
  BY <1>1, <1>2, <1>9 DEF CallerStep, B!Next
<1>10. ASSUME NEW k \in Workers, WorkerStep(k) PROVE B!Next \/ UNCHANGED B!vars
  BY <1>3, <1>4, <1>5, <1>6, <1>7, <1>10 DEF WorkerStep, B!Next
<1> QED BY <1>8, <1>9, <1>10 DEF Next

\* The queue, work, dirtyWork and inProgress of the code, step by step, are
\* one FIFO line and one batch per namespace.
THEOREM Refinement == Spec => ImplementsBatches
<1>1. Init => B!Init
  <2> SUFFICES ASSUME Init PROVE B!Init
    OBVIOUS
  <2>1. \A ns \in Namespaces : Current(ns) = <<>>
    BY DEF Init, Current, Owns
  <2>2. <<>> \o <<>> = <<>>
    BY ConcatEmptySeq, EmptySeq
  <2> QED BY <2>1, <2>2 DEF Init, Empty, B!Init
<1>2. IndInv /\ IndInv' /\ [Next]_vars => [B!Next]_(B!vars)
  BY StepSimulation
<1> QED BY <1>1, <1>2, Inductive, PTL DEF Spec, ImplementsBatches, B!Spec
=============================================================================
