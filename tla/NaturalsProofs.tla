--------------------------- MODULE NaturalsProofs ---------------------------
(***************************************************************************)
(* Induction over the natural numbers for the proofs of this project, in   *)
(* the form of sets: every non-empty set of naturals has a least element,  *)
(* because < is well-founded on them.  From it follow induction, the least *)
(* and greatest elements that Min and Max choose, and the growth of powers *)
(* of two.                                                                 *)
(***************************************************************************)
EXTENDS FiniteSetsExt, FiniteSetTheorems, FunctionTheorems, WellFoundedInduction, TLAPS

(* The well-ordering of the natural numbers. *)
LEMMA LeastNatural ==
  ASSUME NEW S, S \subseteq Nat, S # {}
  PROVE  \E m \in S : \A k \in S : m <= k
<1> DEFINE R == OpToRel(<, Nat)
<1>1. IsWellFoundedOn(R, Nat)
  BY NatLessThanWellFounded
<1>2. \A x, y \in Nat : x < y => <<x, y>> \in R
  BY DEF OpToRel
<1> HIDE DEF R
<1>3. \E m \in S : \A k \in S : ~(<<k, m>> \in R)
  BY <1>1, WFMin, Zenon
<1>4. PICK m \in S : \A k \in S : ~(<<k, m>> \in R)
  BY <1>3
<1>5. ASSUME NEW k \in S PROVE m <= k
  <2>1. k \in Nat /\ m \in Nat
    BY <1>4
  <2>2. ~(k < m)
    BY <1>2, <1>4, <2>1
  <2> QED BY <2>1, <2>2
<1> QED BY <1>4, <1>5

(* Induction: a set that has 0 and with every number its successor. *)
LEMMA InductionBySet ==
  ASSUME NEW S, 0 \in S, \A n \in Nat : n \in S => n + 1 \in S
  PROVE  Nat \subseteq S
<1> DEFINE Missing == {n \in Nat : n \notin S}
<1>1. SUFFICES ASSUME Missing # {} PROVE FALSE
  OBVIOUS
<1>2. PICK m \in Missing : \A k \in Missing : m <= k
  BY <1>1, LeastNatural
<1>3. m # 0 /\ m - 1 \in Nat
  BY <1>2
<1>4. m - 1 \in S
  BY <1>2, <1>3
<1> QED BY <1>2, <1>3, <1>4

(* Min and Max of FiniteSetsExt, where they are defined. *)
LEMMA MinProperties ==
  ASSUME NEW S, S \subseteq Nat, S # {}
  PROVE  Min(S) \in S /\ \A k \in S : Min(S) <= k
<1>1. \E m \in S : \A k \in S : m <= k
  BY LeastNatural
<1> QED BY <1>1 DEF Min

LEMMA MaxProperties ==
  ASSUME NEW n \in Nat, NEW S, S \subseteq 0..n, S # {}
  PROVE  Max(S) \in S /\ \A k \in S : k <= Max(S)
<1> DEFINE Bounds == {m \in Nat : \A k \in S : k <= m}
<1>1. n \in Bounds
  OBVIOUS
<1>2. PICK m \in Bounds : \A k \in Bounds : m <= k
  BY <1>1, LeastNatural
<1>3. m \in S
  <2>1. SUFFICES ASSUME m \notin S PROVE FALSE
    OBVIOUS
  <2>2. PICK x : x \in S
    OBVIOUS
  <2>3. x \in Nat /\ x <= m /\ x # m
    BY <1>2, <2>1, <2>2
  <2>4. m - 1 \in Nat
    BY <1>2, <2>3
  <2>5. \A k \in S : k <= m - 1
    BY <1>2, <2>1
  <2> QED BY <1>2, <2>4, <2>5
<1>4. \E x \in S : \A k \in S : k <= x
  BY <1>2, <1>3
<1> QED BY <1>4 DEF Max

-----------------------------------------------------------------------------
(* A set of n elements has 2 ^ n subsets, one of them for each element.    *)
LEMMA PowerOfTwo ==
  ASSUME NEW n \in Nat
  PROVE  2 ^ n \in Nat /\ 2 ^ n >= n /\ 2 ^ n >= 1
<1> DEFINE S == 1..n
<1>1. IsFiniteSet(S) /\ Cardinality(S) = n
  BY FS_Interval
<1>2. IsFiniteSet(SUBSET S) /\ Cardinality(SUBSET S) = 2 ^ n
  BY <1>1, FS_SUBSET
<1>3. 2 ^ n \in Nat
  BY <1>2, FS_CardinalityType
<1>4. 2 ^ n >= n
  <2> DEFINE f == [k \in S |-> {k}]
  <2>1. f \in [S -> SUBSET S] /\ \A a, b \in S : f[a] = f[b] => a = b
    OBVIOUS
  <2>2. f \in Injection(S, SUBSET S)
    BY <2>1, Fun_IsInj
  <2>3. Cardinality(S) <= Cardinality(SUBSET S)
    BY <1>2, <2>2, FS_Injection
  <2> QED BY <2>3, <1>1, <1>2
<1>5. 2 ^ n >= 1
  <2>1. {} \in SUBSET S
    OBVIOUS
  <2>2. Cardinality(SUBSET S) # 0
    BY <1>2, <2>1, FS_EmptySet
  <2> QED BY <1>2, <1>3, <2>2
<1> QED BY <1>3, <1>4, <1>5
-----------------------------------------------------------------------------
(* Recursion: iterating a function from a first value.  The iterations of  *)
(* n steps agree, so that together they are one function.                  *)
Iterates(f, n, S, a, G) ==
  f \in [0..n -> S] /\ f[0] = a /\ \A k \in 0..n - 1 : f[k + 1] = G[f[k]]

LEMMA IterationExists ==
  ASSUME NEW S, NEW a \in S, NEW G \in [S -> S], NEW n \in Nat
  PROVE  \E f : Iterates(f, n, S, a, G)
<1> DEFINE Good == {k \in Nat : \E f : Iterates(f, k, S, a, G)}
<1>1. 0 \in Good
  <2>1. Iterates([k \in 0..0 |-> a], 0, S, a, G)
    BY DEF Iterates
  <2> QED BY <2>1
<1>2. ASSUME NEW k \in Nat, k \in Good PROVE k + 1 \in Good
  <2>1. PICK f : Iterates(f, k, S, a, G)
    BY <1>2
  <2> DEFINE g == [i \in 0..k + 1 |-> IF i <= k THEN f[i] ELSE G[f[k]]]
  <2>2. f \in [0..k -> S] /\ f[0] = a /\ \A i \in 0..k - 1 : f[i + 1] = G[f[i]]
    BY <2>1 DEF Iterates
  <2>3. G[f[k]] \in S
    BY <2>2
  <2>4. g \in [0..k + 1 -> S] /\ g[0] = a
    BY <2>2, <2>3
  <2>5. ASSUME NEW i \in 0..k PROVE g[i + 1] = G[g[i]]
    <3>1. g[i] = f[i]
      OBVIOUS
    <3>2. CASE i = k
      BY <3>1, <3>2
    <3>3. CASE i # k
      <4>1. i \in 0..k - 1 /\ i + 1 \in 0..k + 1 /\ i + 1 <= k
        BY <3>3
      <4>2. g[i + 1] = f[i + 1]
        BY <4>1
      <4> QED BY <3>1, <4>1, <4>2, <2>2
    <3> QED BY <3>2, <3>3
  <2> HIDE DEF g
  <2>6. Iterates(g, k + 1, S, a, G)
    <3>1. (k + 1) - 1 = k
      OBVIOUS
    <3> QED BY <2>4, <2>5, <3>1 DEF Iterates
  <2> QED BY <2>6
<1>3. Nat \subseteq Good
  <2> HIDE DEF Good
  <2> QED BY <1>1, <1>2, InductionBySet
<1> QED BY <1>3

LEMMA IterationsAgree ==
  ASSUME NEW S, NEW a, NEW G, NEW n \in Nat, NEW m \in Nat, NEW f, NEW g,
         Iterates(f, n, S, a, G), Iterates(g, m, S, a, G),
         NEW k \in Nat, k <= n, k <= m
  PROVE  f[k] = g[k]
<1> DEFINE Good == {i \in Nat : i <= n /\ i <= m => f[i] = g[i]}
<1>1. f[0] = a /\ g[0] = a
  BY DEF Iterates
<1>2. /\ \A i \in 0..n - 1 : f[i + 1] = G[f[i]]
      /\ \A i \in 0..m - 1 : g[i + 1] = G[g[i]]
  BY DEF Iterates
<1>3. 0 \in Good
  BY <1>1
<1>4. ASSUME NEW i \in Nat, i \in Good PROVE i + 1 \in Good
  <2>1. SUFFICES ASSUME i + 1 <= n, i + 1 <= m PROVE f[i + 1] = g[i + 1]
    OBVIOUS
  <2>2. i \in 0..n - 1 /\ i \in 0..m - 1 /\ f[i] = g[i]
    BY <1>4, <2>1
  <2> QED BY <2>2, <1>2
<1>5. Nat \subseteq Good
  <2> HIDE DEF Good
  <2> QED BY <1>3, <1>4, InductionBySet
<1> QED BY <1>5

LEMMA FunctionByIteration ==
  ASSUME NEW S, NEW a \in S, NEW G \in [S -> S]
  PROVE  \E f \in [Nat -> S] : f[0] = a /\ \A k \in Nat : f[k + 1] = G[f[k]]
<1> DEFINE of(n) == CHOOSE f : Iterates(f, n, S, a, G)
           h == [n \in Nat |-> of(n)[n]]
<1>1. ASSUME NEW n \in Nat PROVE Iterates(of(n), n, S, a, G)
  BY IterationExists
<1> HIDE DEF of
<1>2. ASSUME NEW n \in Nat PROVE h[n] = of(n)[n] /\ h[n] \in S
  <2>1. of(n) \in [0..n -> S]
    BY <1>1 DEF Iterates
  <2> QED BY <2>1
<1>3. h[0] = a
  BY <1>1, <1>2 DEF Iterates
<1>4. ASSUME NEW k \in Nat PROVE h[k + 1] = G[h[k]]
  <2>1. Iterates(of(k), k, S, a, G) /\ Iterates(of(k + 1), k + 1, S, a, G)
    BY <1>1
  <2>2. of(k)[k] = of(k + 1)[k]
    <3>1. k + 1 \in Nat /\ k <= k /\ k <= k + 1
      OBVIOUS
    <3> QED BY ONLY <2>1, <3>1, IterationsAgree, k \in Nat
  <2>3. of(k + 1)[k + 1] = G[of(k + 1)[k]]
    <3>1. k \in 0..(k + 1) - 1
      OBVIOUS
    <3> QED BY <2>1, <3>1 DEF Iterates
  <2> QED BY <2>2, <2>3, <1>2
<1>5. h \in [Nat -> S]
  BY <1>2
<1> QED BY <1>3, <1>4, <1>5
=============================================================================
