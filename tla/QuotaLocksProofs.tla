-------------------------- MODULE QuotaLocksProofs --------------------------
(***************************************************************************)
(* Proofs about QuotaLocks, for any number of workers and documents and    *)
(* any set of documents whose mutex the factory has at first.              *)
(***************************************************************************)
EXTENDS QuotaLocks, ListFacts

-----------------------------------------------------------------------------
(* The inductive invariant.                                                  *)

TypeInv ==
  /\ factory \in [Quotas -> Mutexes \cup {NoMutex}]
  /\ holder \in [Mutexes -> Workers \cup {NoWorker}]
  /\ pc \in [Workers -> {"outside", "lookup", "create", "lock", "check", "release"}]
  /\ quotas \in [Workers -> Seq(Quotas)]
  /\ lock \in [Workers -> Mutexes \cup {NoMutex}]
  /\ locks \in [Workers -> Seq(Mutexes)]

Locking(k) == pc[k] \in {"lookup", "create", "lock"}

\* Where a worker is says what is left to lock and to unlock; the mutex it is
\* about to lock is that of its next document.
ControlInv ==
  \A k \in Workers :
    /\ Locking(k) => quotas[k] # <<>>
    /\ pc[k] = "lock" => lock[k] \in Mutexes /\ lock[k][2] = Head(quotas[k])
    /\ pc[k] \in {"check", "release"} => locks[k] # <<>>
    /\ pc[k] = "outside" => locks[k] = <<>>

\* A mutex is held by exactly the worker that has it in its list, once.
HeldInv ==
  \A k \in Workers :
    /\ IsInjective(locks[k])
    /\ \A m \in Mutexes : holder[m] = k <=> m \in ToSet(locks[k])

\* The factory files a mutex under its own document; it has those of the known
\* documents, which nobody creates again, so that every worker that gets or
\* holds a mutex of such a document has the one in the factory.
FactoryInv ==
  /\ \A q \in Quotas : factory[q] # NoMutex => factory[q][2] = q
  /\ \A q \in Known : factory[q] # NoMutex
  /\ \A k \in Workers :
       /\ pc[k] = "create" => Head(quotas[k]) \notin Known
       /\ pc[k] = "lock" /\ lock[k][2] \in Known => lock[k] = factory[lock[k][2]]
       /\ \A m \in ToSet(locks[k]) : m[2] \in Known => m = factory[m[2]]

\* What a worker still has to lock is sorted and comes after what it holds.
OrderInv ==
  \A k \in Workers :
    /\ SortedByName(quotas[k])
    /\ Locking(k) => \A m \in ToSet(locks[k]) : \A i \in DOMAIN quotas[k] :
                       Place(m[2]) < Place(quotas[k][i])

IndInv == TypeInv /\ ControlInv /\ HeldInv /\ FactoryInv /\ OrderInv

-----------------------------------------------------------------------------
\* The model's constants: a mutex is never the mark of a missing one.
LEMMA Marks ==
  /\ NoMutex \notin Mutexes
  /\ \A m \in Mutexes : m[1] \in Workers /\ m[2] \in Quotas
  /\ \A k \in Workers, q \in Quotas : <<k, q>> \in Mutexes /\ <<k, q>>[2] = q
  /\ NoWorker \notin Workers /\ Known \subseteq Quotas
BY LocksAssumption DEF Mutexes, NoMutex

\* What lockAquisition locks next, and what remains then.
LEMMA NextDocument ==
  ASSUME NEW s \in Seq(Quotas), s # <<>>, SortedByName(s)
  PROVE  /\ Head(s) \in Quotas /\ Head(s) = s[1] /\ 1 \in DOMAIN s
         /\ Tail(s) \in Seq(Quotas) /\ SortedByName(Tail(s))
         /\ \A i \in DOMAIN Tail(s) : Place(Head(s)) < Place(Tail(s)[i])
         /\ \A i \in DOMAIN Tail(s) : \E j \in DOMAIN s : Tail(s)[i] = s[j]
         /\ Len(s) > 1 => Tail(s) # <<>>
<1>1. /\ Len(s) \in Nat \ {0} /\ DOMAIN s = 1..Len(s)
      /\ Head(s) \in Quotas /\ Tail(s) \in Seq(Quotas)
      /\ Len(Tail(s)) = Len(s) - 1
      /\ \A i \in 1..Len(Tail(s)) : Tail(s)[i] = s[i + 1]
  BY LenProperties, HeadTailProperties, EmptySeq
<1>2. DOMAIN Tail(s) = 1..(Len(s) - 1)
  BY <1>1, LenProperties
<1>3. Head(s) = s[1] /\ 1 \in DOMAIN s
  BY <1>1
<1>4. \A i \in DOMAIN Tail(s) : i + 1 \in DOMAIN s /\ Tail(s)[i] = s[i + 1] /\ 1 < i + 1
  BY <1>1, <1>2
<1>5. SortedByName(Tail(s))
  <2> SUFFICES ASSUME NEW i \in DOMAIN Tail(s), NEW j \in DOMAIN Tail(s), i < j
               PROVE  Place(Tail(s)[i]) < Place(Tail(s)[j])
    BY DEF SortedByName
  <2>1. i + 1 < j + 1
    BY <1>1, <1>2
  <2> QED BY <2>1, <1>4 DEF SortedByName
<1>6. \A i \in DOMAIN Tail(s) : Place(Head(s)) < Place(Tail(s)[i])
  BY <1>3, <1>4 DEF SortedByName
<1>7. Len(s) > 1 => Tail(s) # <<>>
  BY <1>1, EmptySeq
<1> QED BY <1>1, <1>3, <1>4, <1>5, <1>6, <1>7

\* Initially nobody holds or waits for anything.
LEMMA InitInd == Init => IndInv
<1> SUFFICES ASSUME Init PROVE IndInv
  OBVIOUS
<1>1. ToSet(<<>>) = {} /\ IsInjective(<<>>) /\ SortedByName(<<>>)
  BY DEF ToSet, IsInjective, SortedByName
<1>2. \A q \in Known : \E k \in Workers : factory[q] = <<k, q>>
  BY Marks DEF Init
<1>3. TypeInv
  BY EmptySeq DEF Init, TypeInv
<1>4. ControlInv
  BY DEF Init, ControlInv, Locking
<1>5. HeldInv
  BY <1>1, Marks DEF Init, HeldInv
<1>6. FactoryInv
  <2>1. \A q \in Quotas : factory[q] # NoMutex => factory[q][2] = q
    BY Marks DEF Init
  <2>2. \A q \in Known : factory[q] # NoMutex
    BY Marks, <1>2
  <2> QED BY <2>1, <2>2, <1>1 DEF Init, FactoryInv
<1>7. OrderInv
  BY <1>1 DEF Init, OrderInv, Locking
<1> QED BY <1>3, <1>4, <1>5, <1>6, <1>7 DEF IndInv

-----------------------------------------------------------------------------
(* One lemma per action of a worker.                                         *)

\* lockAquisition starts: a sorted list, and nothing held before it.
LEMMA BeginInd ==
  ASSUME IndInv, NEW k \in Workers, Begin(k)
  PROVE  IndInv'
<1> USE DEF IndInv
<1>1. PICK s \in SeqOf(Quotas, Len(ByName)) :
        s # <<>> /\ SortedByName(s) /\ quotas' = [quotas EXCEPT ![k] = s]
  BY DEF Begin
<1>2. s \in Seq(Quotas)
  <2>1. PICK n \in 0..Len(ByName) : s \in [1..n -> Quotas]
    BY <1>1 DEF SeqOf
  <2>2. n \in Nat
    BY <2>1, LocksAssumption, LenProperties
  <2> QED BY <2>1, <2>2
<1>3. TypeInv'
  BY <1>1, <1>2 DEF TypeInv, Begin
<1>4. ControlInv'
  BY <1>1 DEF ControlInv, TypeInv, Begin, Locking
<1>5. HeldInv'
  BY DEF HeldInv, TypeInv, Begin
<1>6. FactoryInv'
  BY <1>1 DEF FactoryInv, TypeInv, Begin
<1>7. OrderInv'
  <2>1. ToSet(locks[k]) = {}
    BY DEF ControlInv, Begin, ToSet
  <2> QED BY <2>1, <1>1, <1>2 DEF OrderInv, TypeInv, Begin, Locking
<1> QED BY <1>3, <1>4, <1>5, <1>6, <1>7

\* getExistingLock: a mutex that is found is that of the next document, and the
\* mutex of a known document is always found.
LEMMA GetExistingLockInd ==
  ASSUME IndInv, NEW k \in Workers, GetExistingLock(k)
  PROVE  IndInv'
<1> USE DEF IndInv
<1> DEFINE q == Head(quotas[k])
<1>1. quotas[k] \in Seq(Quotas) /\ quotas[k] # <<>> /\ SortedByName(quotas[k])
  BY DEF TypeInv, ControlInv, OrderInv, Locking, GetExistingLock
<1>2. q \in Quotas
  BY <1>1, NextDocument
<1>3. CASE factory[q] = NoMutex
  <2>1. /\ pc' = [pc EXCEPT ![k] = "create"]
        /\ UNCHANGED <<factory, holder, quotas, lock, locks>>
    BY <1>3 DEF GetExistingLock
  <2>2. q \notin Known
    BY <1>2, <1>3 DEF FactoryInv
  <2> HIDE DEF q
  <2>3. TypeInv'
    BY <2>1 DEF TypeInv
  <2>4. ControlInv'
    BY <2>1, <1>1 DEF TypeInv, ControlInv, Locking
  <2>5. HeldInv'
    BY <2>1 DEF HeldInv, TypeInv
  <2>6. FactoryInv'
    BY <2>1, <2>2 DEF FactoryInv, TypeInv, q
  <2>7. OrderInv'
    BY <2>1 DEF OrderInv, TypeInv, Locking, GetExistingLock
  <2> QED BY <2>3, <2>4, <2>5, <2>6, <2>7
<1>4. CASE factory[q] # NoMutex
  <2>1. /\ lock' = [lock EXCEPT ![k] = factory[q]]
        /\ pc' = [pc EXCEPT ![k] = "lock"]
        /\ UNCHANGED <<factory, holder, quotas, locks>>
    BY <1>4 DEF GetExistingLock
  <2>2. factory[q] \in Mutexes /\ factory[q][2] = q
    BY <1>2, <1>4 DEF TypeInv, FactoryInv
  <2> HIDE DEF q
  <2>3. TypeInv'
    BY <2>1, <2>2 DEF TypeInv
  <2>4. ControlInv'
    BY <2>1, <2>2, <1>1 DEF TypeInv, ControlInv, Locking, q
  <2>5. HeldInv'
    BY <2>1 DEF HeldInv, TypeInv
  <2>6. FactoryInv'
    BY <2>1, <2>2 DEF FactoryInv, TypeInv
  <2>7. OrderInv'
    BY <2>1 DEF OrderInv, TypeInv, Locking, GetExistingLock
  <2> QED BY <2>3, <2>4, <2>5, <2>6, <2>7
<1> QED BY <1>3, <1>4

\* The rest of GetLock replaces the mutex of a document that is not known.
LEMMA CreateLockInd ==
  ASSUME IndInv, NEW k \in Workers, CreateLock(k)
  PROVE  IndInv'
<1> USE DEF IndInv
<1> DEFINE q == Head(quotas[k])
<1>1. quotas[k] \in Seq(Quotas) /\ quotas[k] # <<>> /\ SortedByName(quotas[k])
  BY DEF TypeInv, ControlInv, OrderInv, Locking, CreateLock
<1>2. q \in Quotas \ Known
  BY <1>1, NextDocument DEF FactoryInv, CreateLock
<1>3. <<k, q>> \in Mutexes /\ <<k, q>>[2] = q /\ <<k, q>> # NoMutex
  BY <1>2, Marks
<1>4. /\ factory' = [factory EXCEPT ![q] = <<k, q>>]
      /\ lock' = [lock EXCEPT ![k] = <<k, q>>]
      /\ pc[k] = "create" /\ pc' = [pc EXCEPT ![k] = "lock"]
      /\ UNCHANGED <<holder, quotas, locks>>
  BY DEF CreateLock
<1> DEFINE m == <<k, q>>
<1> HIDE DEF m
<1>5. TypeInv'
  BY <1>2, <1>3, <1>4 DEF TypeInv, m
<1>6. ControlInv'
  BY <1>1, <1>3, <1>4 DEF TypeInv, ControlInv, Locking
<1>7. HeldInv'
  BY <1>4 DEF HeldInv, TypeInv
<1>8. FactoryInv'
  <2>1. \A r \in Quotas : factory'[r] = IF r = q THEN m ELSE factory[r]
    BY <1>4, <1>2 DEF TypeInv, m
  <2>2. m[2] = q /\ m # NoMutex
    BY <1>3 DEF m
  <2>3. Known \subseteq Quotas
    BY Marks
  <2>4. \A r \in Known : factory'[r] = factory[r]
    BY <2>1, <2>3, <1>2
  <2>5. \A l \in Workers : l # k => pc'[l] = pc[l] /\ lock'[l] = lock[l]
    BY <1>4 DEF TypeInv
  <2>6. pc'[k] = "lock" /\ lock'[k][2] \notin Known
    BY <1>2, <1>3, <1>4 DEF TypeInv
  <2> HIDE DEF q
  <2> QED BY <2>1, <2>2, <2>3, <2>4, <2>5, <2>6, <1>4 DEF FactoryInv
<1>9. OrderInv'
  BY <1>4 DEF OrderInv, TypeInv, Locking
<1> QED BY <1>5, <1>6, <1>7, <1>8, <1>9

\* Lock: a mutex nobody held, of a document after those already locked.
LEMMA LockInd ==
  ASSUME IndInv, NEW k \in Workers, Lock(k)
  PROVE  IndInv'
<1> USE DEF IndInv
<1> DEFINE m == lock[k]  s == quotas[k]
<1>1. /\ s \in Seq(Quotas) /\ s # <<>> /\ SortedByName(s)
      /\ m \in Mutexes /\ m[2] = Head(s) /\ locks[k] \in Seq(Mutexes)
  BY DEF TypeInv, ControlInv, OrderInv, Locking, Lock
<1>2. /\ holder[m] = NoWorker
      /\ holder' = [holder EXCEPT ![m] = k]
      /\ locks' = [locks EXCEPT ![k] = Append(locks[k], m)]
      /\ quotas' = [quotas EXCEPT ![k] = Tail(s)]
      /\ pc[k] = "lock"
      /\ pc' = [pc EXCEPT ![k] = IF Len(s) > 1 THEN "lookup" ELSE "check"]
      /\ UNCHANGED <<factory, lock>>
  BY DEF Lock, TypeInv
<1>3. \A l \in Workers : m \notin ToSet(locks[l])
  BY <1>1, <1>2, Marks DEF HeldInv
<1>4. /\ Append(locks[k], m) \in Seq(Mutexes)
      /\ ToSet(Append(locks[k], m)) = ToSet(locks[k]) \cup {m}
      /\ IsInjective(Append(locks[k], m))
      /\ Append(locks[k], m) # <<>>
  BY <1>1, <1>3, AppendMember, AppendProperties DEF HeldInv
<1>5. /\ Head(s) = s[1] /\ 1 \in DOMAIN s
      /\ Tail(s) \in Seq(Quotas) /\ SortedByName(Tail(s))
      /\ \A i \in DOMAIN Tail(s) : Place(Head(s)) < Place(Tail(s)[i])
      /\ \A i \in DOMAIN Tail(s) : \E j \in DOMAIN s : Tail(s)[i] = s[j]
      /\ Len(s) > 1 => Tail(s) # <<>>
  BY <1>1, NextDocument
<1>6. \A l \in Workers : l # k => /\ locks'[l] = locks[l] /\ quotas'[l] = quotas[l]
                                  /\ pc'[l] = pc[l] /\ lock'[l] = lock[l]
  BY <1>2 DEF TypeInv
<1>7. /\ locks'[k] = Append(locks[k], m) /\ quotas'[k] = Tail(s)
      /\ pc'[k] = IF Len(s) > 1 THEN "lookup" ELSE "check"
  BY <1>2 DEF TypeInv
<1>8. \A n \in Mutexes : holder'[n] = IF n = m THEN k ELSE holder[n]
  BY <1>1, <1>2 DEF TypeInv
<1>9. TypeInv'
  BY <1>1, <1>2, <1>4, <1>5 DEF TypeInv
<1> HIDE DEF m, s
<1>10. ControlInv'
  BY <1>4, <1>5, <1>6, <1>7 DEF ControlInv, Locking
<1>11. HeldInv'
  <2> SUFFICES ASSUME NEW l \in Workers
               PROVE  /\ IsInjective(locks'[l])
                      /\ \A n \in Mutexes : holder'[n] = l <=> n \in ToSet(locks'[l])
    BY DEF HeldInv
  <2>1. CASE l = k
    BY <2>1, <1>4, <1>7, <1>8 DEF HeldInv
  <2>2. CASE l # k
    BY <2>2, <1>3, <1>6, <1>8 DEF HeldInv
  <2> QED BY <2>1, <2>2
<1>12. FactoryInv'
  <2>1. m[2] \in Known => m = factory[m[2]]
    BY <1>2 DEF FactoryInv, m
  <2>2. \A n \in ToSet(locks'[k]) : n[2] \in Known => n = factory[n[2]]
    BY <2>1, <1>4, <1>7 DEF FactoryInv
  <2> QED BY <2>2, <1>2, <1>6, <1>7 DEF FactoryInv
<1>13. OrderInv'
  <2>1. \A n \in ToSet(locks[k]) : \A j \in DOMAIN s : Place(n[2]) < Place(s[j])
    BY <1>2 DEF OrderInv, Locking, s
  <2>2. \A n \in ToSet(locks'[k]) : \A i \in DOMAIN Tail(s) :
          Place(n[2]) < Place(Tail(s)[i])
    BY <2>1, <1>1, <1>4, <1>5, <1>7
  <2> QED BY <2>2, <1>5, <1>6, <1>7 DEF OrderInv, Locking
<1> QED BY <1>9, <1>10, <1>11, <1>12, <1>13

\* checkQuotas returns: nothing but the control changes.
LEMMA CheckQuotasInd ==
  ASSUME IndInv, NEW k \in Workers, CheckQuotas(k)
  PROVE  IndInv'
<1> USE DEF IndInv
<1>1. TypeInv'
  BY DEF TypeInv, CheckQuotas
<1>2. ControlInv'
  BY DEF ControlInv, TypeInv, CheckQuotas, Locking
<1>3. HeldInv'
  BY DEF HeldInv, TypeInv, CheckQuotas
<1>4. FactoryInv'
  BY DEF FactoryInv, TypeInv, CheckQuotas
<1>5. OrderInv'
  BY DEF OrderInv, TypeInv, CheckQuotas, Locking
<1> QED BY <1>1, <1>2, <1>3, <1>4, <1>5

\* Unlock: the last mutex of the list is the one that is given back.
LEMMA UnlockInd ==
  ASSUME IndInv, NEW k \in Workers, Unlock(k)
  PROVE  IndInv'
<1> USE DEF IndInv
<1> DEFINE t == locks[k]  m == Last(locks[k])
<1>1. t \in Seq(Mutexes) /\ t # <<>> /\ IsInjective(t)
  BY DEF TypeInv, ControlInv, HeldInv, Unlock
<1>2. /\ Front(t) \in Seq(Mutexes)
      /\ m \in ToSet(t)
      /\ ToSet(Front(t)) = ToSet(t) \ {m}
      /\ IsInjective(Front(t))
      /\ Front(t) = <<>> <=> Len(t) = 1
  BY <1>1, FrontMembers
<1>3. /\ holder' = [holder EXCEPT ![m] = NoWorker]
      /\ locks' = [locks EXCEPT ![k] = Front(t)]
      /\ pc[k] = "release"
      /\ pc' = [pc EXCEPT ![k] = IF Len(t) > 1 THEN "release" ELSE "outside"]
      /\ UNCHANGED <<factory, quotas, lock>>
  BY DEF Unlock, TypeInv
<1>4. m \in Mutexes /\ holder[m] = k
  BY <1>1, <1>2, MembersOf DEF HeldInv
<1>5. \/ Len(t) > 1 /\ Len(t) # 1
      \/ ~(Len(t) > 1) /\ Len(t) = 1
  <2> DEFINE n == Len(t)
  <2>1. n \in Nat /\ n # 0
    BY <1>1, EmptySeq
  <2> HIDE DEF n
  <2>2. n > 1 <=> n # 1
    BY <2>1
  <2> QED BY <2>2, Zenon DEF n
<1>6. \A l \in Workers : l # k => locks'[l] = locks[l] /\ pc'[l] = pc[l]
  BY <1>3 DEF TypeInv
<1>7. locks'[k] = Front(t) /\ pc'[k] = IF Len(t) > 1 THEN "release" ELSE "outside"
  BY <1>3 DEF TypeInv
<1>8. \A n \in Mutexes : holder'[n] = IF n = m THEN NoWorker ELSE holder[n]
  BY <1>3, <1>4 DEF TypeInv
<1>9. TypeInv'
  BY <1>2, <1>3, <1>4 DEF TypeInv
<1> HIDE DEF t, m
<1>10. ControlInv'
  <2>1. pc'[k] = "release" => Front(t) # <<>>
    BY <1>5, <1>2, <1>7, Zenon
  <2>2. /\ pc'[k] \in {"release", "outside"}
        /\ pc'[k] = "outside" => Front(t) = <<>>
    BY <1>5, <1>2, <1>7, Zenon
  <2>3. quotas' = quotas /\ lock' = lock
    BY <1>3
  <2> QED BY <2>1, <2>2, <2>3, <1>6, <1>7 DEF ControlInv, Locking
<1>11. HeldInv'
  <2> SUFFICES ASSUME NEW l \in Workers
               PROVE  /\ IsInjective(locks'[l])
                      /\ \A n \in Mutexes : holder'[n] = l <=> n \in ToSet(locks'[l])
    BY DEF HeldInv
  <2>1. CASE l = k
    BY <2>1, <1>2, <1>7, <1>8, Marks DEF HeldInv, t
  <2>2. CASE l # k
    BY <2>2, <1>4, <1>6, <1>8, Marks DEF HeldInv
  <2> QED BY <2>1, <2>2
<1>12. FactoryInv'
  BY <1>2, <1>3, <1>6, <1>7 DEF FactoryInv, t
<1>13. OrderInv'
  BY <1>2, <1>3, <1>6, <1>7 DEF OrderInv, Locking
<1> QED BY <1>9, <1>10, <1>11, <1>12, <1>13

\* Every step of the specification keeps the invariant.
LEMMA NextInd == IndInv /\ [Next]_vars => IndInv'
<1> SUFFICES ASSUME IndInv, [Next]_vars PROVE IndInv'
  OBVIOUS
<1>1. CASE UNCHANGED vars
  BY <1>1 DEF vars, IndInv, TypeInv, ControlInv, Locking, HeldInv, FactoryInv, OrderInv
<1>2. ASSUME NEW k \in Workers, Begin(k) \/ Lock(k) \/ Step(k) PROVE IndInv'
  BY <1>2, BeginInd, LockInd, GetExistingLockInd, CreateLockInd, CheckQuotasInd,
     UnlockInd DEF Step
<1> QED BY <1>1, <1>2 DEF Next

-----------------------------------------------------------------------------
(* The theorems.                                                             *)

\* The inductive invariant holds of every state of the specification.
THEOREM Inductive == Spec => []IndInv
BY InitInd, NextInd, PTL DEF Spec

\* The locks exclude two workers from the documents whose mutex the factory
\* has: both would hold the mutex that GetLock returns for the document.
THEOREM LocksKnownExclusion == Spec => []KnownExclusion
<1>1. ASSUME IndInv PROVE KnownExclusion
  <2> SUFFICES ASSUME NEW k \in Workers, NEW l \in Workers, k # l,
                      NEW q \in Holds(k) \cap Holds(l) \cap Known
               PROVE  FALSE
    BY DEF KnownExclusion
  <2>1. PICK m \in ToSet(locks[k]) : m[2] = q
    BY DEF Holds
  <2>2. PICK n \in ToSet(locks[l]) : n[2] = q
    BY DEF Holds
  <2>3. m = n
    BY <1>1, <2>1, <2>2 DEF IndInv, FactoryInv
  <2>4. m \in Mutexes
    BY <1>1, <2>1, MembersOf DEF IndInv, TypeInv
  <2> QED BY <1>1, <2>1, <2>2, <2>3, <2>4 DEF IndInv, HeldInv
<1> QED BY <1>1, Inductive, PTL

\* The cleanup function unlocks all that lockAquisition locked, and only that.
THEOREM LocksReleasesAll == Spec => []ReleasesAll
<1>1. ASSUME IndInv PROVE ReleasesAll
  <2> SUFFICES ASSUME NEW k \in Workers
               PROVE  /\ {m \in Mutexes : holder[m] = k} = ToSet(locks[k])
                      /\ pc[k] = "outside" => locks[k] = <<>>
    BY DEF ReleasesAll
  <2>1. ToSet(locks[k]) \subseteq Mutexes
    BY <1>1, MembersOf DEF IndInv, TypeInv
  <2> QED BY <1>1, <2>1 DEF IndInv, HeldInv, ControlInv
<1> QED BY <1>1, Inductive, PTL

\* Workers wait for each other in the order of names only, so never in a cycle.
THEOREM LocksOrderedWaiting == Spec => []OrderedWaiting
<1>1. ASSUME IndInv PROVE OrderedWaiting
  <2> SUFFICES ASSUME NEW k \in Workers, NEW l \in Workers,
                      pc[k] = "lock", pc[l] = "lock", holder[lock[k]] = l
               PROVE  Place(lock[k][2]) < Place(lock[l][2])
    BY DEF OrderedWaiting
  <2>1. lock[k] \in ToSet(locks[l])
    BY <1>1 DEF IndInv, ControlInv, HeldInv
  <2>2. quotas[l] \in Seq(Quotas) /\ quotas[l] # <<>> /\ SortedByName(quotas[l])
    BY <1>1 DEF IndInv, TypeInv, ControlInv, OrderInv, Locking
  <2>3. lock[l][2] = quotas[l][1] /\ 1 \in DOMAIN quotas[l]
    BY <1>1, <2>2, NextDocument DEF IndInv, ControlInv
  <2> QED BY <1>1, <2>1, <2>3 DEF IndInv, OrderInv, Locking
<1> QED BY <1>1, Inductive, PTL
=============================================================================
