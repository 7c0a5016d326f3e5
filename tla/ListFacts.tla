------------------------------ MODULE ListFacts ------------------------------
(***************************************************************************)
(* Facts about finite lists that the proofs of several components use: the *)
(* Go slices the code appends to, cuts at either end and ranges over.      *)
(***************************************************************************)
EXTENDS Lists, SequencesExt, SequenceTheorems, FiniteSetTheorems, TLAPS

-----------------------------------------------------------------------------
(* Members.                                                                  *)

\* The members of a list, by position.
LEMMA MembersOf ==
  ASSUME NEW S, NEW s \in Seq(S)
  PROVE  /\ ToSet(s) \subseteq S
         /\ \A i \in 1..Len(s) : s[i] \in ToSet(s)
         /\ \A x \in ToSet(s) : \E i \in 1..Len(s) : s[i] = x
         /\ ToSet(s) = {} <=> s = <<>>
<1>1. /\ Len(s) \in Nat /\ DOMAIN s = 1..Len(s)
      /\ \A i \in 1..Len(s) : s[i] \in S
  BY LenProperties, ElementOfSeq
<1>2. s # <<>> => 1 \in 1..Len(s)
  BY <1>1, EmptySeq
<1>3. ToSet(<<>>) = {}
  BY DEF ToSet
<1> QED BY <1>1, <1>2, <1>3 DEF ToSet

\* Appending adds one member, at the end, and keeps the members distinct when
\* it is a new one.
LEMMA AppendMember ==
  ASSUME NEW S, NEW s \in Seq(S), NEW e \in S
  PROVE  /\ Append(s, e) \in Seq(S)
         /\ ToSet(Append(s, e)) = ToSet(s) \cup {e}
         /\ IsInjective(s) /\ e \notin ToSet(s) => IsInjective(Append(s, e))
<1> DEFINE t == Append(s, e)
<1>1. /\ t \in Seq(S)
      /\ Len(t) = Len(s) + 1
      /\ \A i \in 1..Len(s) : t[i] = s[i]
      /\ t[Len(s) + 1] = e
  BY AppendProperties
<1>2. /\ DOMAIN s = 1..Len(s) /\ Len(s) \in Nat
      /\ DOMAIN t = 1..(Len(s) + 1)
  BY <1>1, LenProperties
<1> HIDE DEF t
<1>3. ToSet(t) = ToSet(s) \cup {e}
  <2>1. ToSet(t) \subseteq ToSet(s) \cup {e}
    BY <1>1, <1>2 DEF ToSet
  <2>2. e \in ToSet(t)
    BY <1>1, <1>2 DEF ToSet
  <2>3. ToSet(s) \subseteq ToSet(t)
    BY <1>1, <1>2 DEF ToSet
  <2> QED BY <2>1, <2>2, <2>3
<1>4. ASSUME IsInjective(s), e \notin ToSet(s) PROVE IsInjective(t)
  <2>1. \A m \in 1..Len(s) : s[m] # e
    BY <1>4, <1>2 DEF ToSet
  <2> QED BY <2>1, <1>1, <1>2, <1>4 DEF IsInjective
<1> QED BY <1>1, <1>3, <1>4 DEF t

\* Cutting off the last of distinct members removes that member.
LEMMA FrontMembers ==
  ASSUME NEW S, NEW s \in Seq(S), s # <<>>, IsInjective(s)
  PROVE  /\ Front(s) \in Seq(S)
         /\ Last(s) \in ToSet(s)
         /\ ToSet(Front(s)) = ToSet(s) \ {Last(s)}
         /\ IsInjective(Front(s))
         /\ Front(s) = <<>> <=> Len(s) = 1
<1> DEFINE t == Front(s)  n == Len(s)
<1>1. /\ n \in Nat \ {0} /\ DOMAIN s = 1..n
      /\ \A i \in 1..n : s[i] \in S
  BY LenProperties, ElementOfSeq, EmptySeq
<1>2. /\ t \in Seq(S)
      /\ Len(t) = n - 1
      /\ \A i \in 1..(n - 1) : t[i] = s[i]
  <2>1. /\ SubSeq(s, 1, n - 1) \in Seq(S)
        /\ Len(SubSeq(s, 1, n - 1)) = IF 1 <= n - 1 THEN (n - 1) - 1 + 1 ELSE 0
        /\ \A i \in 1..((n - 1) - 1 + 1) : SubSeq(s, 1, n - 1)[i] = s[1 + i - 1]
    BY <1>1, SubSeqProperties, SMT
  <2> QED BY <2>1, <1>1 DEF Front
<1>3. DOMAIN t = 1..(n - 1)
  BY <1>1, <1>2, LenProperties
<1>4. Last(s) = s[n] /\ n \in DOMAIN s
  BY <1>1 DEF Last
<1> HIDE DEF t
<1>5. ToSet(t) = ToSet(s) \ {Last(s)}
  <2>1. \A i \in 1..(n - 1) : t[i] \in ToSet(s) /\ t[i] # s[n]
    BY <1>1, <1>2 DEF ToSet, IsInjective
  <2>2. ToSet(t) \subseteq ToSet(s) \ {Last(s)}
    BY <2>1, <1>3, <1>4 DEF ToSet
  <2>3. ASSUME NEW x \in ToSet(s), x # s[n] PROVE x \in ToSet(t)
    <3>1. PICK i \in 1..n : s[i] = x
      BY <1>1 DEF ToSet
    <3>2. i \in 1..(n - 1)
      BY <3>1, <2>3, <1>1
    <3> QED BY <3>1, <3>2, <1>2, <1>3 DEF ToSet
  <2> QED BY <2>2, <2>3, <1>4
<1>6. IsInjective(t)
  BY <1>1, <1>2, <1>3 DEF IsInjective
<1>7. t = <<>> <=> n = 1
  BY <1>1, <1>2, EmptySeq
<1> QED BY <1>2, <1>4, <1>5, <1>6, <1>7 DEF t, ToSet

\* The same with the first element taken away.
LEMMA TailMembers ==
  ASSUME NEW S, NEW s \in Seq(S), s # <<>>, IsInjective(s)
  PROVE  /\ Tail(s) \in Seq(S) /\ Len(Tail(s)) = Len(s) - 1
         /\ Head(s) \in ToSet(s) /\ Head(s) \in S
         /\ ToSet(Tail(s)) = ToSet(s) \ {Head(s)}
         /\ IsInjective(Tail(s))
<1> DEFINE t == Tail(s)  n == Len(s)
<1>1. /\ n \in Nat /\ n # 0 /\ DOMAIN s = 1..n
      /\ \A i, j \in 1..n : s[i] = s[j] => i = j
      /\ \A i \in 1..n : s[i] \in S
  BY EmptySeq, LenProperties DEF IsInjective
<1>2. /\ t \in Seq(S) /\ Len(t) = n - 1 /\ DOMAIN t = 1..(n - 1)
      /\ \A i \in 1..(n - 1) : t[i] = s[i + 1]
      /\ Head(s) = s[1]
  BY <1>1
<1> HIDE DEF t, n
<1>3. 1 \in 1..n /\ \A i \in 1..(n - 1) : i + 1 \in 1..n /\ i + 1 # 1
  BY <1>1
<1>4. \A i \in 1..n : i # 1 => i - 1 \in 1..(n - 1) /\ (i - 1) + 1 = i
  BY <1>1
<1>5. IsInjective(t)
  <2>1. \A i, j \in 1..(n - 1) : i + 1 = j + 1 => i = j
    BY <1>1
  <2> QED BY <1>1, <1>2, <1>3, <2>1 DEF IsInjective
<1>6. ToSet(s) = {s[i] : i \in 1..n} /\ ToSet(t) = {t[i] : i \in 1..(n - 1)}
  BY <1>1, <1>2 DEF ToSet
<1>7. ASSUME NEW x \in ToSet(t) PROVE x \in ToSet(s) \ {Head(s)}
  <2>1. PICK i \in 1..(n - 1) : x = s[i + 1]
    BY <1>2, <1>6
  <2> QED BY <1>1, <1>2, <1>3, <1>6, <2>1
<1>8. ASSUME NEW x \in ToSet(s) \ {Head(s)} PROVE x \in ToSet(t)
  <2>1. PICK i \in 1..n : x = s[i] /\ i # 1
    BY <1>2, <1>6
  <2>2. x = t[i - 1] /\ i - 1 \in 1..(n - 1)
    BY <1>2, <1>4, <2>1
  <2> QED BY <1>6, <2>2
<1>9. Head(s) \in ToSet(s) /\ Head(s) \in S
  BY <1>1, <1>2, <1>3, <1>6
<1> QED BY <1>2, <1>5, <1>7, <1>8, <1>9 DEF t, n

\* Two lists that have no element in common, one after the other.
LEMMA ConcatMembers ==
  ASSUME NEW S, NEW s \in Seq(S), NEW t \in Seq(S)
  PROVE  /\ s \o t \in Seq(S)
         /\ ToSet(s \o t) = ToSet(s) \cup ToSet(t)
         /\ /\ IsInjective(s) /\ IsInjective(t)
            /\ ToSet(s) \cap ToSet(t) = {}
            => IsInjective(s \o t)
<1> DEFINE u == s \o t  m == Len(s)  n == Len(t)
<1>1. /\ m \in Nat /\ n \in Nat /\ DOMAIN s = 1..m /\ DOMAIN t = 1..n
  BY LenProperties
<1>2. /\ u \in Seq(S) /\ DOMAIN u = 1..(m + n)
      /\ \A i \in 1..(m + n) : u[i] = IF i <= m THEN s[i] ELSE t[i - m]
  BY <1>1
<1> HIDE DEF u, m, n
<1>3. \A i \in 1..(m + n) : IF i <= m THEN i \in 1..m ELSE i - m \in 1..n
  BY <1>1
<1>4. ToSet(s) = {s[i] : i \in 1..m} /\ ToSet(t) = {t[i] : i \in 1..n}
      /\ ToSet(u) = {u[i] : i \in 1..(m + n)}
  BY <1>1, <1>2 DEF ToSet
<1>5. \A i \in 1..m : i \in 1..(m + n) /\ i <= m
  BY <1>1
<1>6. \A i \in 1..n : i + m \in 1..(m + n) /\ ~(i + m <= m) /\ (i + m) - m = i
  BY <1>1
<1>7. \A i \in 1..m : u[i] = s[i]
  BY <1>2, <1>5
<1>8. \A i \in 1..n : u[i + m] = t[i]
  BY <1>2, <1>6
<1>9. ToSet(s) \cup ToSet(t) \subseteq ToSet(u)
  BY <1>4, <1>5, <1>6, <1>7, <1>8
<1>10. ToSet(u) \subseteq ToSet(s) \cup ToSet(t)
  BY <1>2, <1>3, <1>4
<1>11. ASSUME IsInjective(s), IsInjective(t), ToSet(s) \cap ToSet(t) = {}
       PROVE  IsInjective(u)
  <2>1. \A i \in 1..m, j \in 1..n : s[i] # t[j]
    BY <1>4, <1>11
  <2>2. /\ \A i, j \in 1..m : s[i] = s[j] => i = j
        /\ \A i, j \in 1..n : t[i] = t[j] => i = j
    BY <1>1, <1>11 DEF IsInjective
  <2>3. ASSUME NEW i \in 1..(m + n), NEW j \in 1..(m + n), u[i] = u[j] PROVE i = j
    <3>1. CASE i <= m /\ j <= m
      BY <1>2, <1>3, <2>2, <2>3, <3>1
    <3>2. CASE ~(i <= m) /\ ~(j <= m)
      <4>1. i - m = j - m
        BY <1>2, <1>3, <2>2, <2>3, <3>2
      <4> QED BY <1>1, <4>1
    <3>3. CASE i <= m /\ ~(j <= m)
      BY <1>2, <1>3, <2>1, <2>3, <3>3
    <3>4. CASE ~(i <= m) /\ j <= m
      BY <1>2, <1>3, <2>1, <2>3, <3>4
    <3> QED BY <3>1, <3>2, <3>3, <3>4
  <2> QED BY <1>2, <2>3 DEF IsInjective
<1> QED BY <1>2, <1>9, <1>10, <1>11 DEF u

\* Concatenation is associative (for the provers, as a fact about any lists).
LEMMA ConcatThree ==
  ASSUME NEW S
  PROVE  \A x, y, z \in Seq(S) : (x \o y) \o z = x \o (y \o z)
BY ConcatAssociative

\* The head of one list moved to the end of the list before it.
LEMMA HeadMoves ==
  ASSUME NEW S, NEW r \in Seq(S), NEW s \in Seq(S), NEW t \in Seq(S), t # <<>>
  PROVE  (r \o s) \o t = (r \o Append(s, Head(t))) \o Tail(t)
<1> DEFINE u == Append(s, Head(t))  w == Tail(t)  Cat(x, y) == x \o y
<1>1. Cat(s, t) = Cat(u, w) /\ u \in Seq(S) /\ w \in Seq(S)
  OBVIOUS
<1>2. \A x, y, z \in Seq(S) : Cat(Cat(x, y), z) = Cat(x, Cat(y, z))
  <2> HIDE DEF u, w
  <2> QED BY ONLY ConcatThree
<1> HIDE DEF u, w, Cat
<1>3. Cat(Cat(r, s), t) = Cat(Cat(r, u), w)
  BY <1>1, <1>2
<1> QED BY <1>3 DEF u, w, Cat

-----------------------------------------------------------------------------
(* Induction over positions, and lists of lists.                             *)

\* A non-empty set of natural numbers has a least element.
LEMMA LeastElement ==
  ASSUME NEW T, T \subseteq Nat, T # {}
  PROVE  \E x \in T : \A y \in T : x <= y
<1> DEFINE R == OpToRel(<, Nat)
<1>1. IsWellFoundedOn(R, Nat)
  BY NatLessThanWellFounded
<1>2. \A i, j \in Nat : i < j => <<i, j>> \in R
  BY DEF OpToRel
<1> HIDE DEF R
<1>3. PICK x \in T : \A y \in T : ~(<<y, x>> \in R)
  BY <1>1, WFMin
<1>4. ASSUME NEW y \in T PROVE x <= y
  <2>1. x \in Nat /\ y \in Nat
    OBVIOUS
  <2>2. ~(y < x)
    <3>1. ~(<<y, x>> \in R)
      BY <1>3
    <3>2. y < x => <<y, x>> \in R
      BY <1>2, <2>1
    <3> QED BY <3>1, <3>2
  <2> QED BY <2>1, <2>2
<1> QED BY <1>4

\* Flattened(s, n, g): g[i] is the concatenation of the first i members of s.
Flattened(s, n, g) ==
  g = [i \in 1..n |-> IF i = 1 THEN s[i] ELSE g[i - 1] \o s[i]]

\* Such a g exists for every prefix of s.
LEMMA FlattenedExists ==
  ASSUME NEW s, NEW n \in Nat
  PROVE  \E g : Flattened(s, n, g)
<1> DEFINE T == {i \in Nat : ~(\E g : Flattened(s, i, g))}
<1> SUFFICES ASSUME T # {} PROVE FALSE
  OBVIOUS
<1>1. PICK m \in T : \A y \in T : m <= y
  <2> HIDE DEF T
  <2>1. T \subseteq Nat
    BY DEF T
  <2> QED BY <2>1, LeastElement
<1>2. CASE m = 0
  <2>1. Flattened(s, 0, [i \in 1..0 |-> <<>>])
    BY DEF Flattened
  <2> QED BY <1>2, <2>1
<1>3. CASE m # 0
  <2>1. m \in Nat /\ m - 1 \in Nat /\ m - 1 \notin T
    BY <1>1, <1>3
  <2>2. PICK g : Flattened(s, m - 1, g)
    BY <2>1
  <2> DEFINE h == [i \in 1..m |-> IF i < m THEN g[i]
                                  ELSE IF i = 1 THEN s[i] ELSE g[i - 1] \o s[i]]
             e == [i \in 1..m |-> IF i = 1 THEN s[i] ELSE h[i - 1] \o s[i]]
  <2>3. \A i \in 1..m : h[i] = IF i = 1 THEN s[i] ELSE h[i - 1] \o s[i]
    <3> SUFFICES ASSUME NEW i \in 1..m
                 PROVE  h[i] = IF i = 1 THEN s[i] ELSE h[i - 1] \o s[i]
      OBVIOUS
    <3>1. i # 1 => i - 1 \in 1..m /\ i - 1 < m /\ h[i - 1] = g[i - 1]
      BY <2>1
    <3>2. CASE i = m
      <4>1. ~(i < m)
        BY <3>2, <2>1
      <4> QED BY <3>1, <4>1
    <3>3. CASE i < m
      <4>1. i \in 1..(m - 1)
        BY <3>3, <2>1
      <4>2. g[i] = IF i = 1 THEN s[i] ELSE g[i - 1] \o s[i]
        BY <2>2, <4>1 DEF Flattened
      <4>3. h[i] = g[i]
        BY <3>3
      <4> QED BY <3>1, <4>2, <4>3
    <3> QED BY <3>2, <3>3, <2>1
  <2>4. h = e
    <3>1. DOMAIN h = 1..m /\ DOMAIN e = 1..m
      OBVIOUS
    <3>2. \A i \in 1..m : h[i] = e[i]
      BY <2>3
    <3>3. h = [i \in 1..m |-> h[i]] /\ e = [i \in 1..m |-> e[i]]
      OBVIOUS
    <3> HIDE DEF h, e
    <3> QED BY <3>1, <3>2, <3>3
  <2>5. Flattened(s, m, h)
    BY <2>4 DEF Flattened
  <2> QED BY <2>5
<1> QED BY <1>2, <1>3

\* It is a list of lists, and does not depend on what follows in s.
LEMMA FlattenedUnique ==
  ASSUME NEW S, NEW n \in Nat, NEW m \in Nat, n <= m, NEW s, NEW t,
         \A i \in 1..n : s[i] = t[i] /\ s[i] \in Seq(S),
         NEW g, Flattened(s, n, g), NEW h, Flattened(t, m, h)
  PROVE  \A i \in 1..n : g[i] = h[i] /\ g[i] \in Seq(S)
<1> DEFINE T == {i \in 1..n : ~(g[i] = h[i] /\ g[i] \in Seq(S))}
<1> SUFFICES ASSUME T # {} PROVE FALSE
  OBVIOUS
<1>1. PICK x \in T : \A y \in T : x <= y
  <2> HIDE DEF T
  <2>1. T \subseteq Nat
    BY DEF T
  <2> QED BY <2>1, LeastElement
<1>2. x \in 1..n /\ x \in 1..m
  BY <1>1
<1>3. /\ g[x] = IF x = 1 THEN s[x] ELSE g[x - 1] \o s[x]
      /\ h[x] = IF x = 1 THEN t[x] ELSE h[x - 1] \o t[x]
  BY <1>2 DEF Flattened
<1>4. CASE x = 1
  BY <1>1, <1>2, <1>3, <1>4
<1>5. CASE x # 1
  <2>1. x - 1 \in 1..n /\ x - 1 < x
    BY <1>2, <1>5
  <2>2. x - 1 \notin T
    BY <2>1, <1>1, <1>2
  <2>3. g[x - 1] = h[x - 1] /\ g[x - 1] \in Seq(S)
    BY <2>1, <2>2
  <2>4. g[x - 1] \o s[x] \in Seq(S)
    BY <2>3, <1>2, ConcatProperties
  <2> QED BY <1>1, <1>2, <1>3, <1>5, <2>3, <2>4
<1> QED BY <1>4, <1>5

\* Flattening a list of lists to which one is appended (the dispatch of another
\* batch) appends that one's members.
LEMMA FlattenAppend ==
  ASSUME NEW S, NEW s \in Seq(Seq(S)), NEW e \in Seq(S)
  PROVE  /\ FlattenSeq(s) \in Seq(S)
         /\ FlattenSeq(Append(s, e)) = FlattenSeq(s) \o e
<1> DEFINE n == Len(s)  t == Append(s, e)
<1>1. n \in Nat /\ n + 1 \in Nat /\ n <= n + 1 /\ n + 1 # 0
  <2>1. n \in Nat
    BY LenProperties
  <2> HIDE DEF n
  <2> QED BY <2>1
<1>2. /\ t \in Seq(Seq(S)) /\ Len(t) = n + 1
      /\ \A i \in 1..n : t[i] = s[i]
      /\ t[n + 1] = e
  BY AppendProperties
<1>3. \A i \in 1..n : s[i] = t[i] /\ s[i] \in Seq(S)
  BY <1>2, ElementOfSeq
<1> DEFINE G == CHOOSE g : Flattened(s, n, g)
           H == CHOOSE g : Flattened(t, n + 1, g)
<1>4. Flattened(s, n, G)
  BY <1>1, FlattenedExists
<1>5. Flattened(t, n + 1, H)
  BY <1>1, FlattenedExists
<1>6. FlattenSeq(s) = IF n = 0 THEN s ELSE G[n]
  BY DEF FlattenSeq, Flattened
<1>7. FlattenSeq(t) = H[n + 1]
  <2>1. FlattenSeq(t) = IF Len(t) = 0 THEN t
                        ELSE (CHOOSE g : Flattened(t, Len(t), g))[Len(t)]
    BY DEF FlattenSeq, Flattened
  <2> HIDE DEF t
  <2> QED BY <2>1, <1>1, <1>2
<1> HIDE DEF G, H, t, n
<1>8. \A i \in 1..n : G[i] = H[i] /\ G[i] \in Seq(S)
  BY <1>1, <1>3, <1>4, <1>5, FlattenedUnique
<1>9. H[n + 1] = IF n + 1 = 1 THEN t[n + 1] ELSE H[(n + 1) - 1] \o t[n + 1]
  <2>1. \A m \in Nat : \A i \in 1..m :
          Flattened(t, m, H) => H[i] = IF i = 1 THEN t[i] ELSE H[i - 1] \o t[i]
    BY DEF Flattened
  <2>2. n + 1 \in 1..(n + 1)
    BY <1>1
  <2> QED BY <2>1, <2>2, <1>1, <1>5
<1>10. CASE n = 0
  <2>1. s = <<>>
    BY <1>10, EmptySeq DEF n
  <2>2. FlattenSeq(s) = <<>> /\ FlattenSeq(t) = e
    BY <2>1, <1>2, <1>6, <1>7, <1>9, <1>10
  <2> QED BY <2>2, ConcatEmptySeq, EmptySeq DEF t
<1>11. CASE n # 0
  <2>1. n \in 1..n /\ n + 1 # 1 /\ (n + 1) - 1 = n
    BY <1>1, <1>11
  <2>2. FlattenSeq(s) = G[n] /\ G[n] = H[n] /\ G[n] \in Seq(S)
    BY <2>1, <1>6, <1>8, <1>11
  <2>3. FlattenSeq(t) = G[n] \o e
    BY <2>1, <2>2, <1>2, <1>7, <1>9
  <2> QED BY <2>2, <2>3 DEF t
<1> QED BY <1>10, <1>11

-----------------------------------------------------------------------------
(* Sets of numbers in ascending order.                                       *)

\* The elements of a finite set of numbers have the ranks from 1 on.
LEMMA Ranks ==
  ASSUME NEW S \in SUBSET Nat, IsFiniteSet(S)
  PROVE  /\ Cardinality(S) \in Nat
         /\ \A x \in S : Rank(S, x) \in 1..Cardinality(S)
         /\ \A x, y \in S : x < y => Rank(S, x) < Rank(S, y)
         /\ \A x, y \in S : Rank(S, x) = Rank(S, y) => x = y
         /\ \A n \in 1..Cardinality(S) : \E x \in S : Rank(S, x) = n
<1> DEFINE n == Cardinality(S)  Upto(x) == {y \in S : y <= x}
<1>1. n \in Nat
  BY FS_CardinalityType
<1>2. \A x \in S : IsFiniteSet(Upto(x)) /\ Rank(S, x) <= n /\ Rank(S, x) \in Nat
  <2> TAKE x \in S
  <2>1. Upto(x) \in SUBSET S
    OBVIOUS
  <2> HIDE DEF Upto
  <2>2. IsFiniteSet(Upto(x)) /\ Cardinality(Upto(x)) <= Cardinality(S)
    BY <2>1, FS_Subset
  <2>3. Cardinality(Upto(x)) \in Nat
    BY <2>2, FS_CardinalityType
  <2> QED BY <2>2, <2>3 DEF Rank, Upto
<1>3. \A x \in S : Rank(S, x) # 0
  <2> TAKE x \in S
  <2>1. x \in Upto(x)
    OBVIOUS
  <2> HIDE DEF Upto
  <2>2. Cardinality(Upto(x)) # 0
    BY <1>2, <2>1, FS_EmptySet
  <2> QED BY <2>2 DEF Rank, Upto
<1>4. ASSUME NEW x \in S, NEW y \in S, x < y PROVE Rank(S, x) < Rank(S, y)
  <2>0. S \subseteq Nat /\ x \in Nat /\ y \in Nat /\ x < y
    BY <1>4
  <2>4. \A z \in S : z <= x => z <= y
    BY <2>0
  <2>5. y <= y /\ ~(y <= x)
    BY <2>0
  <2>1. Upto(x) \in SUBSET Upto(y) /\ y \in Upto(y) /\ y \notin Upto(x)
    BY <2>4, <2>5
  <2> HIDE DEF Upto
  <2>2. /\ Cardinality(Upto(x)) <= Cardinality(Upto(y))
        /\ Cardinality(Upto(y)) # Cardinality(Upto(x))
    BY <1>2, <2>1, FS_Subset
  <2>3. /\ Rank(S, x) = Cardinality(Upto(x))
        /\ Rank(S, y) = Cardinality(Upto(y))
    BY DEF Rank, Upto
  <2> QED BY <1>2, <2>2, <2>3
<1> HIDE DEF n, Upto
<1>a. \A x \in S : x \in Nat /\ Rank(S, x) \in Nat /\ Rank(S, x) <= n
  BY <1>2
<1>5. \A x, y \in S : Rank(S, x) = Rank(S, y) => x = y
  BY <1>a, <1>4
<1>6. \A x \in S : Rank(S, x) \in 1..n
  BY <1>1, <1>a, <1>3
<1> DEFINE f == [x \in S |-> Rank(S, x)]
<1>7. f \in Injection(S, 1..n)
  BY <1>5, <1>6 DEF Injection, IsInjective
<1>8. IsFiniteSet(1..n) /\ Cardinality(1..n) = n
  BY <1>1, FS_Interval
<1>9. f \in Surjection(S, 1..n)
  <2> HIDE DEF f
  <2> QED BY <1>7, <1>8, FS_Injection DEF n
<1>10. \A i \in 1..n : \E x \in S : Rank(S, x) = i
  BY <1>9 DEF Surjection
<1> QED BY <1>1, <1>4, <1>5, <1>6, <1>10 DEF n

\* Ascending lists the set, each element at its rank.
LEMMA AscendingList ==
  ASSUME NEW S \in SUBSET Nat, IsFiniteSet(S)
  PROVE  /\ Ascending(S) \in Seq(S) /\ Len(Ascending(S)) = Cardinality(S)
         /\ IsInjective(Ascending(S)) /\ ToSet(Ascending(S)) = S
         /\ \A x \in S : Ascending(S)[Rank(S, x)] = x
<1> DEFINE n == Cardinality(S)  a == Ascending(S)
<1>1. /\ n \in Nat /\ DOMAIN a = 1..n
      /\ \A i \in 1..n : a[i] = CHOOSE x \in S : Rank(S, x) = i
  BY Ranks DEF Ascending
<1> HIDE DEF a
<1>2. \A i \in 1..n : a[i] \in S /\ Rank(S, a[i]) = i
  BY <1>1, Ranks
<1>3. a \in Seq(S) /\ Len(a) = n
  <2>1. a = [i \in 1..n |-> a[i]]
    BY <1>1 DEF a, Ascending
  <2> QED BY <1>1, <1>2, <2>1
<1>0. /\ \A x \in S : Rank(S, x) \in 1..n
      /\ \A x, y \in S : Rank(S, x) = Rank(S, y) => x = y
  BY Ranks
<1> HIDE DEF n
<1>4. \A x \in S : Rank(S, x) \in 1..n /\ a[Rank(S, x)] = x
  BY <1>0, <1>2
<1>5. IsInjective(a)
  BY <1>1, <1>2 DEF IsInjective
<1>6. ToSet(a) = S
  <2>1. \A x \in S : \E i \in 1..n : a[i] = x
    BY <1>4
  <2>2. ToSet(a) = {a[i] : i \in 1..n}
    BY <1>1 DEF ToSet
  <2> QED BY <1>2, <2>1, <2>2
<1> QED BY <1>3, <1>4, <1>5, <1>6 DEF a, n

\* A subsequence holds the chosen elements, each at the rank of its position.
LEMMA SubsequenceList ==
  ASSUME NEW T, NEW s \in Seq(T), NEW S \in SUBSET (1..Len(s))
  PROVE  /\ IsFiniteSet(S) /\ Cardinality(S) \in Nat
         /\ Subsequence(s, S) \in Seq(T) /\ Len(Subsequence(s, S)) = Cardinality(S)
         /\ \A x \in S : /\ Rank(S, x) \in 1..Cardinality(S)
                         /\ Subsequence(s, S)[Rank(S, x)] = s[x]
         /\ \A n \in 1..Cardinality(S) : \E x \in S : Subsequence(s, S)[n] = s[x]
<1> DEFINE n == Cardinality(S)  a == Ascending(S)  u == Subsequence(s, S)
<1>1. S \in SUBSET Nat /\ IsFiniteSet(S) /\ Len(s) \in Nat
  <2>1. Len(s) \in Nat
    BY LenProperties
  <2>2. IsFiniteSet(1..Len(s))
    BY <2>1, FS_Interval
  <2>3. IsFiniteSet(S)
    BY <2>2, FS_Subset
  <2>4. S \subseteq Nat
    BY <2>1
  <2> QED BY <2>1, <2>3, <2>4
<1>2. /\ n \in Nat /\ a \in Seq(S) /\ Len(a) = n
      /\ \A x \in S : Rank(S, x) \in 1..n /\ a[Rank(S, x)] = x
  BY <1>1, Ranks, AscendingList
<1>3. \A i \in 1..n : a[i] \in S
  BY <1>2
<1>4. u = [i \in 1..n |-> s[a[i]]]
  BY DEF Subsequence
<1> HIDE DEF a, u, n
<1>5. \A i \in 1..n : u[i] = s[a[i]] /\ u[i] \in T
  <2> TAKE i \in 1..n
  <2>1. a[i] \in 1..Len(s) /\ u[i] = s[a[i]]
    BY <1>3, <1>4
  <2>2. s[a[i]] \in T
    BY <2>1, ElementOfSeq
  <2> QED BY <2>1, <2>2
<1>6. u \in Seq(T) /\ Len(u) = n
  BY <1>2, <1>4, <1>5
<1> QED BY <1>1, <1>2, <1>3, <1>5, <1>6 DEF u, n

\* The positions of a subsequence in the list it is taken from.
TakenFrom(u, s, S) ==
  \E a : \A i \in 1..Len(u) : /\ a[i] \in S /\ u[i] = s[a[i]]
                              /\ \A j \in 1..Len(u) : a[i] = a[j] => i = j

LEMMA SubsequencePlaces ==
  ASSUME NEW T, NEW s \in Seq(T), NEW S \in SUBSET (1..Len(s))
  PROVE  Subsequence(s, S) \in Seq(T) /\ TakenFrom(Subsequence(s, S), s, S)
<1> DEFINE n == Cardinality(S)  a == Ascending(S)  u == Subsequence(s, S)
<1>1. /\ IsFiniteSet(S) /\ n \in Nat /\ u \in Seq(T) /\ Len(u) = n
      /\ \A x \in S : Rank(S, x) \in 1..n /\ u[Rank(S, x)] = s[x]
      /\ \A i \in 1..n : \E x \in S : u[i] = s[x]
  BY SubsequenceList
<1>2. S \subseteq Nat
  <2>1. Len(s) \in Nat
    BY LenProperties
  <2> QED BY <2>1
<1>3. a \in Seq(S) /\ Len(a) = n /\ IsInjective(a)
  BY <1>1, <1>2, AscendingList
<1>4. \A i \in 1..n : u[i] = s[a[i]]
  BY DEF Subsequence
<1> HIDE DEF a, u, n
<1>5. \A i \in 1..n : a[i] \in S
  BY <1>1, <1>3
<1>8. DOMAIN a = 1..n
  BY <1>1, <1>3
<1>6. \A i, j \in 1..n : a[i] = a[j] => i = j
  BY <1>3, <1>8 DEF IsInjective
<1>7. \E b : \A i \in 1..n : /\ b[i] \in S /\ u[i] = s[b[i]]
                             /\ \A j \in 1..n : b[i] = b[j] => i = j
  BY <1>4, <1>5, <1>6
<1>9. TakenFrom(u, s, S)
  BY <1>1, <1>7 DEF TakenFrom
<1> QED BY <1>1, <1>9 DEF u

-----------------------------------------------------------------------------
(* Sums over finite sets.                                                    *)

\* g is the function that SumFunction defines by recursion over subsets of S.
IsSum(f, S, g) ==
  g = [s \in SUBSET S |-> IF s = {} THEN 0
                          ELSE f[CHOOSE x \in s : TRUE]
                                 + g[s \ {CHOOSE x \in s : TRUE}]]

Small(S, m) == {s \in SUBSET S : Cardinality(s) <= m}
IsSumUpTo(f, S, m, g) ==
  g = [s \in Small(S, m) |-> IF s = {} THEN 0
                             ELSE f[CHOOSE x \in s : TRUE]
                                    + g[s \ {CHOOSE x \in s : TRUE}]]

LEMMA Smaller ==
  ASSUME NEW S, IsFiniteSet(S), NEW s \in SUBSET S, NEW x \in s
  PROVE  /\ IsFiniteSet(s) /\ Cardinality(s) \in Nat /\ Cardinality(s) # 0
         /\ s \ {x} \in SUBSET S /\ Cardinality(s \ {x}) = Cardinality(s) - 1
<1>1. IsFiniteSet(s)
  BY FS_Subset
<1>2. Cardinality(s \ {x}) = Cardinality(s) - 1
  BY <1>1, FS_RemoveElement
<1> QED BY <1>1, <1>2, FS_CardinalityType, FS_EmptySet

LEMMA SumUpToExists ==
  ASSUME NEW f, NEW S, IsFiniteSet(S), NEW n \in Nat
  PROVE  \E g : IsSumUpTo(f, S, n, g)
<1> DEFINE T == {i \in Nat : ~(\E g : IsSumUpTo(f, S, i, g))}
<1> SUFFICES ASSUME T # {} PROVE FALSE
  OBVIOUS
<1>1. PICK m \in T : \A y \in T : m <= y
  <2> HIDE DEF T
  <2>1. T \subseteq Nat
    BY DEF T
  <2> QED BY <2>1, LeastElement
<1>2. m \in Nat /\ ~(\E g : IsSumUpTo(f, S, m, g))
  OBVIOUS
<1>3. \A s \in Small(S, m) : s # {} =>
        LET x == CHOOSE x \in s : TRUE IN
        /\ x \in s /\ s \ {x} \in SUBSET S /\ Cardinality(s) # 0
        /\ Cardinality(s) \in Nat /\ Cardinality(s \ {x}) = Cardinality(s) - 1
  <2> TAKE s \in Small(S, m)
  <2> DEFINE x == CHOOSE x \in s : TRUE
  <2> SUFFICES ASSUME s # {}
               PROVE  /\ x \in s /\ s \ {x} \in SUBSET S /\ Cardinality(s) # 0
                      /\ Cardinality(s) \in Nat
                      /\ Cardinality(s \ {x}) = Cardinality(s) - 1
    OBVIOUS
  <2>1. x \in s /\ s \in SUBSET S
    BY DEF Small
  <2> HIDE DEF x
  <2> QED BY <2>1, Smaller
<1> DEFINE c(s) == CHOOSE x \in s : TRUE
<1>4. CASE m = 0
  <2>1. \A s \in Small(S, 0) : s = {}
    <3> SUFFICES ASSUME NEW s \in Small(S, 0), s # {} PROVE FALSE
      OBVIOUS
    <3>1. Cardinality(s) \in Nat /\ Cardinality(s) # 0
      BY <1>3, <1>4
    <3>2. Cardinality(s) <= 0
      BY DEF Small
    <3> QED BY <3>1, <3>2
  <2>2. IsSumUpTo(f, S, 0, [s \in Small(S, 0) |-> 0])
    BY <2>1 DEF IsSumUpTo
  <2> QED BY <1>2, <1>4, <2>2
<1>5. CASE m # 0
  <2>1. m - 1 \in Nat /\ m - 1 \notin T
    BY <1>1, <1>2, <1>5
  <2>2. PICK g : IsSumUpTo(f, S, m - 1, g)
    BY <2>1
  <2> DEFINE h == [s \in Small(S, m) |-> IF s = {} THEN 0
                                         ELSE f[c(s)] + g[s \ {c(s)}]]
  <2>3. \A t \in Small(S, m - 1) : t \in Small(S, m) /\ h[t] = g[t]
    <3> TAKE t \in Small(S, m - 1)
    <3>1. t \in Small(S, m)
      <4>1. t \in SUBSET S /\ Cardinality(t) <= m - 1 /\ IsFiniteSet(t)
        BY FS_Subset DEF Small
      <4>2. Cardinality(t) \in Nat
        BY <4>1, FS_CardinalityType
      <4> QED BY <1>2, <4>1, <4>2 DEF Small
    <3>2. g[t] = IF t = {} THEN 0 ELSE f[c(t)] + g[t \ {c(t)}]
      BY <2>2 DEF IsSumUpTo
    <3> QED BY <3>1, <3>2
  <2>4. \A s \in Small(S, m) : s # {} => s \ {c(s)} \in Small(S, m - 1)
    <3> TAKE s \in Small(S, m)
    <3> SUFFICES ASSUME s # {} PROVE s \ {c(s)} \in Small(S, m - 1)
      OBVIOUS
    <3>1. /\ s \ {c(s)} \in SUBSET S /\ Cardinality(s) \in Nat
          /\ Cardinality(s \ {c(s)}) = Cardinality(s) - 1
      BY <1>3
    <3>2. Cardinality(s) <= m
      BY DEF Small
    <3> HIDE DEF c
    <3> QED BY <1>2, <3>1, <3>2 DEF Small
  <2>5. \A s \in Small(S, m) : h[s] = IF s = {} THEN 0
                                      ELSE f[c(s)] + h[s \ {c(s)}]
    <3> TAKE s \in Small(S, m)
    <3>1. h[s] = IF s = {} THEN 0 ELSE f[c(s)] + g[s \ {c(s)}]
      OBVIOUS
    <3> HIDE DEF h, c
    <3> QED BY <2>3, <2>4, <3>1
  <2>6. h = [s \in Small(S, m) |-> h[s]]
    OBVIOUS
  <2>7. IsSumUpTo(f, S, m, h)
    <3> HIDE DEF h
    <3> QED BY <2>5, <2>6 DEF IsSumUpTo
  <2> QED BY <1>2, <2>7
<1> QED BY <1>4, <1>5

LEMMA SumExists ==
  ASSUME NEW f, NEW S, IsFiniteSet(S)
  PROVE  \E g : IsSum(f, S, g)
<1>1. Cardinality(S) \in Nat
  BY FS_CardinalityType
<1>2. Small(S, Cardinality(S)) = SUBSET S
  BY FS_Subset DEF Small
<1>3. PICK g : IsSumUpTo(f, S, Cardinality(S), g)
  BY <1>1, SumUpToExists
<1> QED BY <1>2, <1>3 DEF IsSum, IsSumUpTo

LEMMA SumFunctionIsSum ==
  ASSUME NEW f, IsFiniteSet(DOMAIN f)
  PROVE  \E g : IsSum(f, DOMAIN f, g) /\ SumFunction(f) = g[DOMAIN f]
<1> DEFINE h == CHOOSE g : IsSum(f, DOMAIN f, g)
<1>1. IsSum(f, DOMAIN f, h)
  BY SumExists
<1>2. SumFunction(f) = h[DOMAIN f]
  BY DEF SumFunction, SumFunctionOnSet, FoldFunctionOnSet, MapThenFoldSet, IsSum
<1> QED BY <1>1, <1>2

\* Two such functions agree where their arguments do.
LEMMA SumAgrees ==
  ASSUME NEW S, IsFiniteSet(S), NEW U \in SUBSET S, NEW f, NEW h,
         \A x \in U : f[x] = h[x],
         NEW g, IsSum(f, S, g), NEW k, IsSum(h, U, k)
  PROVE  \A s \in SUBSET U : g[s] = k[s]
<1> DEFINE T == {i \in Nat : \E s \in SUBSET U : Cardinality(s) = i /\ g[s] # k[s]}
<1> SUFFICES ASSUME NEW r \in SUBSET U, g[r] # k[r] PROVE FALSE
  OBVIOUS
<1>1. Cardinality(r) \in T
  <2>1. IsFiniteSet(r)
    BY FS_Subset
  <2> QED BY <2>1, FS_CardinalityType
<1>2. PICK m \in T : \A y \in T : m <= y
  <2> HIDE DEF T
  <2>1. T \subseteq Nat /\ T # {}
    BY <1>1 DEF T
  <2> QED BY <2>1, LeastElement
<1>3. PICK s \in SUBSET U : Cardinality(s) = m /\ g[s] # k[s]
  OBVIOUS
<1> DEFINE c == CHOOSE x \in s : TRUE  t == s \ {c}
<1>4. /\ g[s] = IF s = {} THEN 0 ELSE f[c] + g[t]
      /\ k[s] = IF s = {} THEN 0 ELSE h[c] + k[t]
  BY DEF IsSum
<1>5. s # {} /\ c \in s /\ c \in U
  BY <1>3, <1>4
<1> HIDE DEF c
<1>6. t \in SUBSET U /\ Cardinality(s) \in Nat /\ Cardinality(t) = Cardinality(s) - 1
      /\ Cardinality(s) # 0
  BY <1>5, Smaller
<1>7. g[t] = k[t]
  <2> SUFFICES ASSUME g[t] # k[t] PROVE FALSE
    OBVIOUS
  <2> HIDE DEF t
  <2>1. Cardinality(t) \in Nat /\ Cardinality(t) < m
    BY <1>3, <1>6
  <2>2. Cardinality(t) \in T
    BY <1>6, <2>1
  <2> HIDE DEF T
  <2>3. m <= Cardinality(t) /\ m \in Nat
    BY <1>2, <1>3, <1>6, <2>2
  <2> QED BY <2>1, <2>3
<1>8. f[c] = h[c]
  BY <1>5
<1> QED BY <1>3, <1>4, <1>5, <1>7, <1>8

\* g[s] with x taken out of s.
TakesOut(f, g, s, x) ==
  \E i, j \in Int : i = f[x] /\ j = g[s \ {x}] /\ g[s] = i + j

\* A sum may be taken in any order.
LEMMA SumExchange ==
  ASSUME NEW S, IsFiniteSet(S), NEW f \in [S -> Int], NEW g, IsSum(f, S, g)
  PROVE  /\ g[{}] = 0
         /\ \A s \in SUBSET S : g[s] \in Int
         /\ \A s \in SUBSET S : \A x \in s : TakesOut(f, g, s, x)
<1> DEFINE Good(s) == g[s] \in Int /\ \A x \in s : g[s] = f[x] + g[s \ {x}]
           T == {i \in Nat : \E s \in SUBSET S : Cardinality(s) = i /\ ~Good(s)}
<1>0. g[{}] = 0
  BY DEF IsSum
<1>a. ASSUME \A s \in SUBSET S : Good(s)
      PROVE  \A s \in SUBSET S : \A x \in s : TakesOut(f, g, s, x)
  <2> TAKE s \in SUBSET S
  <2> TAKE x \in s
  <2>1. f[x] \in Int /\ s \ {x} \in SUBSET S /\ g[s] = f[x] + g[s \ {x}]
    BY <1>a
  <2>2. g[s \ {x}] \in Int
    BY <1>a, <2>1
  <2> QED BY <2>1, <2>2 DEF TakesOut
<1> SUFFICES ASSUME NEW r \in SUBSET S, ~Good(r) PROVE FALSE
  BY <1>0, <1>a
<1>1. Cardinality(r) \in T
  <2>1. IsFiniteSet(r)
    BY FS_Subset
  <2>2. Cardinality(r) \in Nat
    BY <2>1, FS_CardinalityType
  <2> HIDE DEF Good
  <2> QED BY <2>2
<1>2. PICK m \in T : \A y \in T : m <= y
  <2> HIDE DEF T
  <2>1. T \subseteq Nat /\ T # {}
    BY <1>1 DEF T
  <2> QED BY <2>1, LeastElement
<1>3. PICK s \in SUBSET S : Cardinality(s) = m /\ ~Good(s)
  <2> HIDE DEF Good
  <2> QED OBVIOUS
<1>4. \A t \in SUBSET S : Cardinality(t) \in Nat /\ Cardinality(t) < m => Good(t)
  <2> SUFFICES ASSUME NEW t \in SUBSET S, Cardinality(t) \in Nat, Cardinality(t) < m,
                      ~Good(t)
               PROVE  FALSE
    OBVIOUS
  <2> HIDE DEF Good
  <2>1. Cardinality(t) \in T
    OBVIOUS
  <2>2. m \in Nat /\ m <= Cardinality(t)
    <3>1. m \in Nat
      OBVIOUS
    <3> HIDE DEF T
    <3> QED BY <1>2, <2>1, <3>1
  <2> QED BY <2>2
<1>5. \A x \in s : s \ {x} \in SUBSET S /\ Good(s \ {x})
  <2> TAKE x \in s
  <2> HIDE DEF Good
  <2>1. /\ s \ {x} \in SUBSET S /\ Cardinality(s) \in Nat
        /\ Cardinality(s \ {x}) = Cardinality(s) - 1 /\ Cardinality(s) # 0
    BY Smaller
  <2>2. Cardinality(s \ {x}) \in Nat /\ Cardinality(s \ {x}) < m
    BY <1>3, <2>1
  <2> QED BY <1>4, <2>1, <2>2
<1> DEFINE c == CHOOSE x \in s : TRUE
<1>6. s # {}
  <2>1. Good({})
    BY <1>0
  <2> HIDE DEF Good
  <2> QED BY <1>3, <2>1
<1>7. c \in s /\ g[s] = f[c] + g[s \ {c}]
  BY <1>6 DEF IsSum
<1> HIDE DEF c, T
<1>8. g[s] \in Int
  <2>1. f[c] \in Int
    BY <1>7
  <2>2. g[s \ {c}] \in Int
    BY <1>5, <1>7
  <2>3. PICK i \in Int, j \in Int : i = f[c] /\ j = g[s \ {c}]
    BY <2>1, <2>2
  <2>4. g[s] = i + j
    BY <1>7, <2>3
  <2> QED BY <2>4
<1>9. ASSUME NEW x \in s PROVE g[s] = f[x] + g[s \ {x}]
  <2>1. CASE x = c
    BY <1>7, <2>1
  <2>2. CASE x # c
    <3>1. x \in s \ {c} /\ c \in s \ {x}
      BY <1>7, <2>2
    <3>2. (s \ {c}) \ {x} = (s \ {x}) \ {c}
      OBVIOUS
    <3>3. /\ g[s \ {c}] = f[x] + g[(s \ {c}) \ {x}]
          /\ g[s \ {x}] = f[c] + g[(s \ {x}) \ {c}]
      BY <1>5, <1>7, <3>1
    <3>4. /\ g[s \ {c}] \in Int /\ g[s \ {x}] \in Int /\ f[x] \in Int /\ f[c] \in Int
      BY <1>5, <1>7
    <3>5. g[(s \ {c}) \ {x}] \in Int
      <4>1. (s \ {c}) \ {x} \in SUBSET S /\ IsFiniteSet(s \ {c})
        BY FS_Subset
      <4>2. /\ Cardinality((s \ {c}) \ {x}) = Cardinality(s \ {c}) - 1
            /\ Cardinality(s \ {c}) # 0 /\ Cardinality(s \ {c}) \in Nat
        BY <1>5, <1>7, <3>1, Smaller
      <4>3. Cardinality(s \ {c}) = Cardinality(s) - 1 /\ Cardinality(s) \in Nat
        BY <1>7, Smaller
      <4>4. Cardinality((s \ {c}) \ {x}) \in Nat /\ Cardinality((s \ {c}) \ {x}) < m
        BY <1>3, <4>2, <4>3
      <4> QED BY <1>4, <4>1, <4>4
    <3> DEFINE z == g[(s \ {c}) \ {x}]  y == g[s \ {c}]  u == g[s \ {x}]
    <3>6. /\ g[s] = f[c] + y /\ y = f[x] + z /\ u = f[c] + z
          /\ y \in Int /\ u \in Int /\ z \in Int /\ f[x] \in Int /\ f[c] \in Int
      BY <1>7, <3>2, <3>3, <3>4, <3>5
    <3>7. g[s] = f[x] + u
      <4> HIDE DEF y, u, z
      <4> QED BY <3>6
    <3> QED BY <3>7
  <2> QED BY <2>1, <2>2
<1> QED BY <1>3, <1>8, <1>9

\* The sum of a function, with one argument taken out.
LEMMA SumRemove ==
  ASSUME NEW S, IsFiniteSet(S), NEW f \in [S -> Int], NEW x \in S,
         NEW h, h = [y \in S \ {x} |-> f[y]]
  PROVE  /\ SumFunction(f) \in Int /\ SumFunction(h) \in Int
         /\ SumFunction(f) = f[x] + SumFunction(h)
<1> DEFINE U == S \ {x}
<1>1. U \in SUBSET S /\ IsFiniteSet(U) /\ DOMAIN f = S /\ DOMAIN h = U
      /\ \A y \in U : f[y] = h[y]
  BY FS_Subset
<1>2. PICK g : IsSum(f, S, g) /\ SumFunction(f) = g[S]
  BY <1>1, SumFunctionIsSum
<1>3. PICK k : IsSum(h, U, k) /\ SumFunction(h) = k[U]
  BY <1>1, SumFunctionIsSum
<1>4. g[U] = k[U]
  <2> HIDE DEF U
  <2>1. U \in SUBSET U
    OBVIOUS
  <2> QED BY <1>1, <1>2, <1>3, <2>1, SumAgrees
<1>5. g[S] = f[x] + g[U] /\ g[S] \in Int /\ g[U] \in Int
  <2>0. IsSum(f, S, g)
    BY <1>2
  <2>1. \A s \in SUBSET S : g[s] \in Int
    BY <2>0, SumExchange
  <2>3. S \in SUBSET S
    OBVIOUS
  <2>2. TakesOut(f, g, S, x)
    BY <2>0, <2>3, SumExchange
  <2> QED BY <2>2 DEF TakesOut
<1> QED BY <1>2, <1>3, <1>4, <1>5

LEMMA SumInt ==
  ASSUME NEW S, IsFiniteSet(S), NEW f \in [S -> Int]
  PROVE  SumFunction(f) \in Int /\ (S = {} => SumFunction(f) = 0)
<1>1. PICK g : IsSum(f, S, g) /\ SumFunction(f) = g[S]
  BY SumFunctionIsSum
<1>2. g[S] \in Int /\ g[{}] = 0
  BY <1>1, SumExchange
<1> QED BY <1>1, <1>2

\* A sum of zeros.
LEMMA SumZero ==
  ASSUME NEW S, IsFiniteSet(S), NEW f \in [S -> Int], \A x \in S : f[x] = 0
  PROVE  SumFunction(f) = 0
<1>1. PICK g : IsSum(f, S, g) /\ SumFunction(f) = g[S]
  BY SumFunctionIsSum
<1> DEFINE k == [s \in SUBSET S |-> 0]
<1>2. IsSum(f, S, k)
  <2>1. \A s \in SUBSET S : s # {} =>
          (CHOOSE x \in s : TRUE) \in S /\ s \ {CHOOSE x \in s : TRUE} \in SUBSET S
    OBVIOUS
  <2>2. \A s \in SUBSET S : k[s] = IF s = {} THEN 0
                                   ELSE f[CHOOSE x \in s : TRUE]
                                          + k[s \ {CHOOSE x \in s : TRUE}]
    BY <2>1
  <2>3. k = [s \in SUBSET S |-> k[s]]
    OBVIOUS
  <2> HIDE DEF k
  <2> QED BY <2>2, <2>3 DEF IsSum
<1>3. g[S] = k[S]
  <2> HIDE DEF k
  <2>1. S \in SUBSET S /\ \A x \in S : f[x] = f[x]
    OBVIOUS
  <2> QED BY <1>1, <1>2, <2>1, SumAgrees
<1>4. k[S] = 0
  BY DEF k
<1> QED BY <1>1, <1>3, <1>4

\* Induction over the subsets of a finite set; G is the set of the good ones.
LEMMA SubsetInduction ==
  ASSUME NEW S, IsFiniteSet(S), NEW G, {} \in G,
         \A s \in SUBSET S : \A x \in s : s \ {x} \in G => s \in G
  PROVE  S \in G
<1> DEFINE T == {i \in Nat : \E s \in SUBSET S : Cardinality(s) = i /\ s \notin G}
<1> SUFFICES ASSUME S \notin G PROVE FALSE
  OBVIOUS
<1>1. Cardinality(S) \in T
  BY FS_CardinalityType
<1>2. PICK m \in T : \A y \in T : m <= y
  <2> HIDE DEF T
  <2>1. T \subseteq Nat /\ T # {}
    BY <1>1 DEF T
  <2> QED BY <2>1, LeastElement
<1>3. PICK s \in SUBSET S : Cardinality(s) = m /\ s \notin G
  OBVIOUS
<1>4. PICK x : x \in s
  BY <1>3
<1>5. PICK t : t = s \ {x}
  OBVIOUS
<1>6. /\ t \in SUBSET S /\ Cardinality(s) \in Nat /\ Cardinality(s) # 0
      /\ Cardinality(t) = Cardinality(s) - 1
  BY <1>4, <1>5, Smaller
<1>7. t \notin G
  BY <1>3, <1>4, <1>5
<1>8. Cardinality(t) \in T
  <2>1. Cardinality(t) \in Nat
    BY <1>6
  <2> QED BY <1>6, <1>7, <2>1
<1> HIDE DEF T
<1>9. m <= Cardinality(t) /\ m \in Nat
  BY <1>2, <1>3, <1>6, <1>8
<1> QED BY <1>3, <1>6, <1>9

\* f on the set A.
Part(f, A) == [x \in A |-> f[x]]

\* A sum in two parts.
LEMMA SumSplit ==
  ASSUME NEW S, IsFiniteSet(S), NEW f \in [S -> Int], NEW A \in SUBSET S,
         NEW a, a = Part(f, A), NEW b, b = Part(f, S \ A)
  PROVE  /\ SumFunction(a) \in Int /\ SumFunction(b) \in Int
         /\ SumFunction(f) = SumFunction(a) + SumFunction(b)
<1>1. PICK B \in SUBSET S : B = S \ A
  OBVIOUS
<1>2. PICK g : IsSum(f, S, g) /\ SumFunction(f) = g[S]
  BY SumFunctionIsSum
<1>3. ASSUME NEW U \in SUBSET S, NEW u, u = Part(f, U)
      PROVE  SumFunction(u) = g[U]
  <2>1. IsFiniteSet(U) /\ DOMAIN u = U /\ \A x \in U : f[x] = u[x]
    BY <1>3, FS_Subset DEF Part
  <2>2. PICK k : IsSum(u, U, k) /\ SumFunction(u) = k[U]
    BY <2>1, SumFunctionIsSum
  <2>3. U \in SUBSET U
    OBVIOUS
  <2>4. g[U] = k[U]
    BY <1>2, <2>1, <2>2, <2>3, SumAgrees
  <2> QED BY <2>2, <2>4
<1>4. SumFunction(a) = g[A] /\ SumFunction(b) = g[B]
  BY <1>1, <1>3
<1>5. /\ g[{}] = 0 /\ \A s \in SUBSET S : g[s] \in Int
      /\ \A s \in SUBSET S : \A x \in s : TakesOut(f, g, s, x)
  BY <1>2, SumExchange
<1> DEFINE G == {s \in SUBSET B : g[A \cup s] = g[A] + g[s]}
<1>6. {} \in G
  <2>1. A \cup {} = A /\ {} \in SUBSET B /\ g[A] \in Int
    BY <1>5
  <2>2. g[A] = g[A] + 0
    BY <2>1
  <2> QED BY <1>5, <2>1, <2>2
<1>7. ASSUME NEW s \in SUBSET B, NEW x \in s, s \ {x} \in G PROVE s \in G
  <2>1. PICK t : t = s \ {x}
    OBVIOUS
  <2>2. PICK p : p = A \cup s
    OBVIOUS
  <2>3. p \ {x} = A \cup t /\ x \in p /\ p \in SUBSET S /\ s \in SUBSET S /\ t \in SUBSET S
    BY <1>1, <2>1, <2>2
  <2>4. TakesOut(f, g, p, x) /\ TakesOut(f, g, s, x)
    BY <1>5, <2>3
  <2>5. /\ g[p] = f[x] + g[A \cup t] /\ g[s] = f[x] + g[t] /\ f[x] \in Int
    BY <2>1, <2>3, <2>4 DEF TakesOut
  <2>6. g[A \cup t] = g[A] + g[t]
    BY <1>7, <2>1
  <2>7. PICK i \in Int : i = g[A]
    BY <1>5
  <2>8. PICK j \in Int : j = g[t]
    BY <1>5, <2>3
  <2>9. PICK z \in Int : z = f[x]
    BY <2>5
  <2>10. g[p] = z + (i + j) /\ g[s] = z + j
    BY <2>5, <2>6, <2>7, <2>8, <2>9
  <2>11. z + (i + j) = i + (z + j)
    BY ONLY i \in Int, j \in Int, z \in Int
  <2> QED BY <2>2, <2>7, <2>10, <2>11
<1>8. B \in G
  <2> HIDE DEF G
  <2>1. IsFiniteSet(B)
    BY FS_Subset
  <2> QED BY <1>6, <1>7, <2>1, SubsetInduction
<1>9. A \cup B = S
  BY <1>1
<1> QED BY <1>2, <1>4, <1>5, <1>8, <1>9

\* A smaller function has a smaller sum.
LEMMA SumLess ==
  ASSUME NEW S, IsFiniteSet(S), NEW f \in [S -> Int], NEW h \in [S -> Int],
         \A x \in S : f[x] <= h[x]
  PROVE  SumFunction(f) <= SumFunction(h)
<1>1. PICK g : IsSum(f, S, g) /\ SumFunction(f) = g[S]
  BY SumFunctionIsSum
<1>2. PICK k : IsSum(h, S, k) /\ SumFunction(h) = k[S]
  BY SumFunctionIsSum
<1>3. /\ g[{}] = 0 /\ \A s \in SUBSET S : g[s] \in Int
      /\ \A s \in SUBSET S : \A x \in s : TakesOut(f, g, s, x)
  BY <1>1, SumExchange
<1>4. /\ k[{}] = 0 /\ \A s \in SUBSET S : k[s] \in Int
      /\ \A s \in SUBSET S : \A x \in s : TakesOut(h, k, s, x)
  BY <1>2, SumExchange
<1> DEFINE G == {s \in SUBSET S : g[s] <= k[s]}
<1>5. {} \in G
  BY <1>3, <1>4
<1>6. ASSUME NEW s \in SUBSET S, NEW x \in s, s \ {x} \in G PROVE s \in G
  <2>1. PICK t \in SUBSET S : t = s \ {x}
    OBVIOUS
  <2>2. TakesOut(f, g, s, x) /\ TakesOut(h, k, s, x) /\ f[x] <= h[x]
    BY <1>3, <1>4
  <2>3. PICK a \in Int, b \in Int : a = f[x] /\ b = g[t] /\ g[s] = a + b
    BY <2>1, <2>2 DEF TakesOut
  <2>4. PICK c \in Int, d \in Int : c = h[x] /\ d = k[t] /\ k[s] = c + d
    BY <2>1, <2>2 DEF TakesOut
  <2>5. a <= c /\ b <= d
    BY <1>6, <2>1, <2>2, <2>3, <2>4
  <2>6. a + b <= c + d
    BY ONLY <2>5, a \in Int, b \in Int, c \in Int, d \in Int
  <2> QED BY <2>3, <2>4, <2>6
<1>7. S \in G
  <2> HIDE DEF G
  <2> QED BY <1>5, <1>6, SubsetInduction
<1> QED BY <1>1, <1>2, <1>7

=============================================================================
