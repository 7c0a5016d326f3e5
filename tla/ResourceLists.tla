--------------------------- MODULE ResourceLists ---------------------------
(***************************************************************************)
(* The arithmetic of corev1.ResourceList (kube/pkg/quota/v1/resources.go). *)
(* A resource list is a map from resource names to quantities; here, a     *)
(* function whose domain is the set of names that are present.  A missing  *)
(* name is not the same as a zero: Equals tells them apart, and            *)
(* LessThanOrEqual constrains only names present on both sides.            *)
(***************************************************************************)
EXTENDS Integers

IsResourceList(a, Names) == DOMAIN a \subseteq Names /\ a \in [DOMAIN a -> Int]

Nothing == [n \in {} |-> 0]

\* The quantity of a name, zero when it is missing.
At(a, n) == IF n \in DOMAIN a THEN a[n] ELSE 0

Equals(a, b) ==
  /\ DOMAIN a = DOMAIN b
  /\ \A n \in DOMAIN a : a[n] = b[n]

\* The names that exceed b; LessThanOrEqual when there are none.
Exceeded(a, b) == {n \in DOMAIN a \cap DOMAIN b : a[n] > b[n]}

LessThanOrEqual(a, b) == Exceeded(a, b) = {}

Larger(a, b) ==
  [n \in DOMAIN a \cup DOMAIN b |->
     IF n \notin DOMAIN a THEN b[n]
     ELSE IF n \notin DOMAIN b THEN a[n]
     ELSE IF a[n] <= b[n] THEN b[n] ELSE a[n]]

Add(a, b) == [n \in DOMAIN a \cup DOMAIN b |-> At(a, n) + At(b, n)]

Subtract(a, b) == [n \in DOMAIN a \cup DOMAIN b |-> At(a, n) - At(b, n)]

SubtractWithNonNegativeResult(a, b) ==
  [n \in DOMAIN a \cup DOMAIN b |->
     IF n \in DOMAIN a /\ a[n] > At(b, n) THEN a[n] - At(b, n) ELSE 0]

Mask(a, names) == [n \in DOMAIN a \cap names |-> a[n]]

IsZero(a) == \A n \in DOMAIN a : a[n] = 0

IsNegative(a) == {n \in DOMAIN a : a[n] < 0}
=============================================================================
