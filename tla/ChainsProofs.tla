----------------------------- MODULE ChainsProofs -----------------------------
(***************************************************************************)
(* Chains of nodes, for the proofs about the linked structures: which      *)
(* sequence of nodes a pointer and the links lead through, what becomes of *)
(* it when links are set, and when several chains share one heap.  And     *)
(* search trees, by the chain of nodes from the root to each node.         *)
(***************************************************************************)
EXTENDS NaturalsProofs, SequencesExt, SequenceTheorems

N == INSTANCE Nodes WITH Address <- {}, Type <- {}

-----------------------------------------------------------------------------
(* Parts of a sequence, InsertAt and RemoveAt, entry by entry. *)
IsPart(S, s, m, n, u) ==
  /\ u \in Seq(S) /\ u = SubSeq(s, m, n) /\ Len(u) = n - m + 1
  /\ \A i \in 1..n - m + 1 : u[i] = s[m + i - 1]

LEMMA PartOf ==
  ASSUME NEW S, NEW s \in Seq(S), NEW m \in 1..Len(s) + 1, NEW n \in m - 1..Len(s)
  PROVE  IsPart(S, s, m, n, SubSeq(s, m, n))
<1>1. m \in Int /\ n \in Int /\ \A i \in m..n : s[i] \in S
  OBVIOUS
<1>2. /\ SubSeq(s, m, n) \in Seq(S)
      /\ Len(SubSeq(s, m, n)) = IF m <= n THEN n - m + 1 ELSE 0
      /\ \A i \in 1..n - m + 1 : SubSeq(s, m, n)[i] = s[m + i - 1]
  BY <1>1, SubSeqProperties
<1>3. n - m + 1 = IF m <= n THEN n - m + 1 ELSE 0
  OBVIOUS
<1> QED BY ONLY <1>2, <1>3, Zenon DEF IsPart

IsFront(S, s, k, u) ==
  /\ u \in Seq(S) /\ u = SubSeq(s, 1, k - 1) /\ Len(u) = k - 1
  /\ \A i \in 1..k - 1 : u[i] = s[i]

LEMMA FrontPart ==
  ASSUME NEW S, NEW s \in Seq(S), NEW k \in 1..Len(s) + 1
  PROVE  IsFront(S, s, k, SubSeq(s, 1, k - 1))
<1>1. PICK m \in 1..Len(s) + 1 : m = 1
  OBVIOUS
<1>2. PICK n \in m - 1..Len(s) : n = k - 1
  BY <1>1
<1>3. PICK u : u = SubSeq(s, m, n) /\ IsPart(S, s, m, n, u)
  BY PartOf
<1>4. n - m + 1 = k - 1 /\ \A i \in 1..k - 1 : m + i - 1 = i
  BY <1>1, <1>2
<1>5. Len(u) = k - 1 /\ \A i \in 1..k - 1 : u[i] = s[i]
  BY ONLY <1>3, <1>4, Zenon DEF IsPart
<1> QED BY ONLY <1>1, <1>2, <1>3, <1>5, Zenon DEF IsPart, IsFront

LEMMA BackPart ==
  ASSUME NEW S, NEW s \in Seq(S), NEW k \in 1..Len(s) + 1
  PROVE  IsPart(S, s, k, Len(s), SubSeq(s, k, Len(s)))
<1>1. PICK n \in k - 1..Len(s) : n = Len(s)
  OBVIOUS
<1>2. IsPart(S, s, k, n, SubSeq(s, k, n))
  BY PartOf
<1> QED BY ONLY <1>1, <1>2, Zenon

IsInsert(S, s, k, a, t) ==
  /\ t \in Seq(S) /\ t = InsertAt(s, k, a) /\ Len(t) = Len(s) + 1
  /\ \A i \in 1..Len(s) + 1 : t[i] = IF i < k THEN s[i] ELSE IF i = k THEN a ELSE s[i - 1]

IsRemove(S, s, k, t) ==
  /\ t \in Seq(S) /\ t = RemoveAt(s, k) /\ Len(t) = Len(s) - 1
  /\ \A i \in 1..Len(s) - 1 : t[i] = IF i < k THEN s[i] ELSE s[i + 1]

LEMMA InsertIs ==
  ASSUME NEW S, NEW s \in Seq(S), NEW k \in 1..Len(s) + 1, NEW a \in S
  PROVE  IsInsert(S, s, k, a, InsertAt(s, k, a))
<1>1. PICK n \in Nat : n = Len(s)
  OBVIOUS
<1>2. PICK u \in Seq(S) : /\ u = SubSeq(s, 1, k - 1) /\ Len(u) = k - 1
                          /\ \A i \in 1..k - 1 : u[i] = s[i]
  <2>1. IsFront(S, s, k, SubSeq(s, 1, k - 1))
    BY FrontPart
  <2> QED BY ONLY <2>1, Zenon DEF IsFront
<1>3. PICK v \in Seq(S) : /\ v = SubSeq(s, k, Len(s)) /\ Len(v) = Len(s) - k + 1
                          /\ \A i \in 1..Len(s) - k + 1 : v[i] = s[k + i - 1]
  <2>1. IsPart(S, s, k, Len(s), SubSeq(s, k, Len(s)))
    BY BackPart
  <2> QED BY ONLY <2>1, Zenon DEF IsPart
<1>4. PICK e \in Seq(S) : e = <<a>> /\ Len(e) = 1 /\ e[1] = a
  <2>1. <<a>> \in Seq(S) /\ Len(<<a>>) = 1 /\ <<a>>[1] = a
    OBVIOUS
  <2> QED BY ONLY <2>1, Zenon
<1>5. PICK w \in Seq(S) : /\ w = u \o e /\ Len(w) = k
                          /\ \A i \in 1..k : w[i] = IF i < k THEN u[i] ELSE a
  <2>1. /\ u \o e \in Seq(S) /\ Len(u \o e) = Len(u) + Len(e)
        /\ \A i \in 1..Len(u) + Len(e) : (u \o e)[i] = IF i <= Len(u) THEN u[i] ELSE e[i - Len(u)]
    BY ConcatProperties
  <2>2. PICK w \in Seq(S) : w = u \o e
    BY ONLY <2>1, Zenon
  <2>3. /\ Len(w) = Len(u) + Len(e)
        /\ \A i \in 1..Len(u) + Len(e) : w[i] = IF i <= Len(u) THEN u[i] ELSE e[i - Len(u)]
    BY ONLY <2>1, <2>2, Zenon
  <2>4. Len(w) = k
    BY <1>2, <1>4, <2>3
  <2>5. ASSUME NEW i \in 1..k PROVE w[i] = IF i < k THEN u[i] ELSE a
    <3>1. i \in 1..Len(u) + Len(e) /\ (i < k <=> i <= Len(u)) /\ (~(i < k) => i - Len(u) = 1)
      BY <1>2, <1>4
    <3> QED BY <2>3, <3>1, <1>4
  <2> QED BY ONLY <2>2, <2>4, <2>5, Zenon
<1>6. /\ w \o v \in Seq(S) /\ Len(w \o v) = Len(w) + Len(v)
      /\ \A i \in 1..Len(w) + Len(v) : (w \o v)[i] = IF i <= Len(w) THEN w[i] ELSE v[i - Len(w)]
  BY ConcatProperties
<1>7. Len(w) = k /\ Len(w) + Len(v) = n + 1
  BY <1>1, <1>3, <1>5
<1>8. InsertAt(s, k, a) = w \o v
  BY ONLY <1>2, <1>3, <1>4, <1>5, Zenon DEF InsertAt
<1>9. ASSUME NEW i \in 1..n + 1
      PROVE  (w \o v)[i] = IF i < k THEN s[i] ELSE IF i = k THEN a ELSE s[i - 1]
  <2>1. CASE i < k
    <3>1. i \in 1..k /\ i \in 1..k - 1 /\ i <= k
      BY <2>1
    <3> QED BY <3>1, <2>1, <1>2, <1>5, <1>6, <1>7
  <2>2. CASE i = k
    BY <2>2, <1>5, <1>6, <1>7
  <2>3. CASE i > k
    <3>1. i - k \in 1..Len(s) - k + 1 /\ k + (i - k) - 1 = i - 1 /\ ~(i <= k) /\ ~(i < k)
      BY <2>3, <1>1
    <3>2. (w \o v)[i] = v[i - k]
      BY <3>1, <1>6, <1>7
    <3>3. v[i - k] = s[i - 1]
      BY <3>1, <1>3
    <3> QED BY <3>1, <3>2, <3>3, <2>3
  <2>4. i < k \/ i = k \/ i > k
    BY <1>1
  <2> QED BY ONLY <2>1, <2>2, <2>3, <2>4, Zenon
<1>10. Len(w \o v) = Len(s) + 1 /\ w \o v \in Seq(S)
  BY <1>1, <1>6, <1>7
<1> QED BY ONLY <1>1, <1>8, <1>9, <1>10, Zenon DEF IsInsert

LEMMA RemoveIs ==
  ASSUME NEW S, NEW s \in Seq(S), NEW k \in 1..Len(s)
  PROVE  IsRemove(S, s, k, RemoveAt(s, k))
<1>1. PICK n \in Nat : n = Len(s)
  OBVIOUS
<1>2. PICK u \in Seq(S) : /\ u = SubSeq(s, 1, k - 1) /\ Len(u) = k - 1
                          /\ \A i \in 1..k - 1 : u[i] = s[i]
  <2>1. IsFront(S, s, k, SubSeq(s, 1, k - 1))
    BY FrontPart
  <2> QED BY ONLY <2>1, Zenon DEF IsFront
<1>3. PICK h \in 1..Len(s) + 1 : h = k + 1
  OBVIOUS
<1>4. PICK v \in Seq(S) : /\ v = SubSeq(s, h, Len(s)) /\ Len(v) = Len(s) - h + 1
                          /\ \A i \in 1..Len(s) - h + 1 : v[i] = s[h + i - 1]
  <2>1. IsPart(S, s, h, Len(s), SubSeq(s, h, Len(s)))
    BY BackPart
  <2> QED BY ONLY <2>1, Zenon DEF IsPart
<1>5. /\ u \o v \in Seq(S) /\ Len(u \o v) = Len(u) + Len(v)
      /\ \A i \in 1..Len(u) + Len(v) : (u \o v)[i] = IF i <= Len(u) THEN u[i] ELSE v[i - Len(u)]
  BY ConcatProperties
<1>6. Len(u) = k - 1 /\ Len(u) + Len(v) = n - 1
  <2>1. Len(u) = k - 1 /\ Len(v) = Len(s) - h + 1
    BY <1>2, <1>4
  <2> QED BY <1>1, <1>3, <2>1
<1>7. RemoveAt(s, k) = u \o v
  BY ONLY <1>2, <1>3, <1>4, Zenon DEF RemoveAt
<1>8. ASSUME NEW i \in 1..n - 1 PROVE (u \o v)[i] = IF i < k THEN s[i] ELSE s[i + 1]
  <2>1. CASE i < k
    <3>1. i \in 1..k - 1 /\ i <= k - 1
      BY <2>1
    <3> QED BY <3>1, <2>1, <1>2, <1>5, <1>6
  <2>2. CASE i >= k
    <3>1. /\ i - (k - 1) \in 1..Len(s) - h + 1 /\ h + (i - (k - 1)) - 1 = i + 1
          /\ ~(i <= k - 1) /\ ~(i < k)
      BY <2>2, <1>1, <1>3
    <3>2. (u \o v)[i] = v[i - (k - 1)]
      BY <3>1, <1>5, <1>6
    <3>3. v[i - (k - 1)] = s[i + 1]
      BY <3>1, <1>4
    <3> QED BY <3>1, <3>2, <3>3
  <2>3. i < k \/ i >= k
    BY <1>1
  <2> QED BY ONLY <2>1, <2>2, <2>3, Zenon
<1>9. Len(u \o v) = Len(s) - 1 /\ u \o v \in Seq(S)
  BY <1>1, <1>5, <1>6
<1> QED BY ONLY <1>1, <1>7, <1>8, <1>9, Zenon DEF IsRemove

LEMMA InsertAtEnds ==
  ASSUME NEW S, NEW s \in Seq(S), NEW a \in S
  PROVE  InsertAt(s, 1, a) = <<a>> \o s /\ InsertAt(s, Len(s) + 1, a) = Append(s, a)
<1>1. PICK n \in Nat : n = Len(s)
  OBVIOUS
<1>2. PICK e \in Seq(S) : e = <<a>> /\ Len(e) = 1 /\ e[1] = a
  <2>1. <<a>> \in Seq(S) /\ Len(<<a>>) = 1 /\ <<a>>[1] = a
    OBVIOUS
  <2> QED BY ONLY <2>1, Zenon
<1>3. InsertAt(s, 1, a) = e \o s
  <2>1. PICK k \in 1..Len(s) + 1 : k = 1
    OBVIOUS
  <2>2. /\ InsertAt(s, k, a) \in Seq(S) /\ Len(InsertAt(s, k, a)) = Len(s) + 1
        /\ \A i \in 1..Len(s) + 1 :
              InsertAt(s, k, a)[i] = IF i < k THEN s[i] ELSE IF i = k THEN a ELSE s[i - 1]
    <3>1. IsInsert(S, s, k, a, InsertAt(s, k, a))
      BY InsertIs
    <3> QED BY ONLY <3>1, Zenon DEF IsInsert
  <2>3. /\ e \o s \in Seq(S) /\ Len(e \o s) = Len(e) + Len(s)
        /\ \A i \in 1..Len(e) + Len(s) : (e \o s)[i] = IF i <= Len(e) THEN e[i] ELSE s[i - Len(e)]
    BY ConcatProperties
  <2>4. Len(e \o s) = Len(s) + 1
    BY <1>1, <1>2, <2>3
  <2>5. ASSUME NEW i \in 1..Len(s) + 1 PROVE InsertAt(s, k, a)[i] = (e \o s)[i]
    <3>1. (e \o s)[i] = IF i <= 1 THEN e[i] ELSE s[i - 1]
      BY <1>1, <1>2, <2>3
    <3>2. CASE i = 1
      BY <3>1, <3>2, <2>1, <2>2, <1>2
    <3>3. CASE i # 1
      BY <3>1, <3>3, <2>1, <2>2
    <3> QED BY <3>2, <3>3
  <2>6. InsertAt(s, k, a) = e \o s
    BY <2>2, <2>3, <2>4, <2>5, SeqEqual
  <2> QED BY ONLY <2>1, <2>6, Zenon
<1>4. InsertAt(s, Len(s) + 1, a) = Append(s, a)
  <2>1. PICK k \in 1..Len(s) + 1 : k = Len(s) + 1
    OBVIOUS
  <2>2. /\ InsertAt(s, k, a) \in Seq(S) /\ Len(InsertAt(s, k, a)) = Len(s) + 1
        /\ \A i \in 1..Len(s) + 1 :
              InsertAt(s, k, a)[i] = IF i < k THEN s[i] ELSE IF i = k THEN a ELSE s[i - 1]
    <3>1. IsInsert(S, s, k, a, InsertAt(s, k, a))
      BY InsertIs
    <3> QED BY ONLY <3>1, Zenon DEF IsInsert
  <2>3. Append(s, a) \in Seq(S) /\ Len(Append(s, a)) = Len(s) + 1
    OBVIOUS
  <2>4. ASSUME NEW i \in 1..Len(s) + 1 PROVE InsertAt(s, k, a)[i] = Append(s, a)[i]
    <3>1. CASE i = Len(s) + 1
      BY <3>1, <2>1, <2>2
    <3>2. CASE i # Len(s) + 1
      <4>1. i \in 1..Len(s) /\ i < k
        BY <3>2, <2>1
      <4> QED BY <4>1, <2>2
    <3> QED BY <3>1, <3>2
  <2>5. InsertAt(s, k, a) = Append(s, a)
    BY <2>2, <2>3, <2>4, SeqEqual
  <2> QED BY ONLY <2>1, <2>5, Zenon
<1> QED BY ONLY <1>2, <1>3, <1>4, Zenon

LEMMA RemoveAtFirst ==
  ASSUME NEW S, NEW s \in Seq(S), s # <<>>
  PROVE  RemoveAt(s, 1) = Tail(s)
<1>1. PICK k \in 1..Len(s) : k = 1
  BY EmptySeq
<1>2. /\ RemoveAt(s, k) \in Seq(S) /\ Len(RemoveAt(s, k)) = Len(s) - 1
      /\ \A i \in 1..Len(s) - 1 : RemoveAt(s, k)[i] = IF i < k THEN s[i] ELSE s[i + 1]
  <2>1. IsRemove(S, s, k, RemoveAt(s, k))
    BY RemoveIs
  <2> QED BY ONLY <2>1, Zenon DEF IsRemove
<1>3. /\ Tail(s) \in Seq(S) /\ Len(Tail(s)) = Len(s) - 1
      /\ \A i \in 1..Len(s) - 1 : Tail(s)[i] = s[i + 1]
  BY HeadTailProperties
<1>4. \A i \in 1..Len(s) - 1 : RemoveAt(s, k)[i] = Tail(s)[i]
  BY <1>1, <1>2, <1>3
<1>5. RemoveAt(s, k) = Tail(s)
  BY <1>2, <1>3, <1>4, SeqEqual
<1> QED BY ONLY <1>1, <1>5, Zenon

-----------------------------------------------------------------------------
(* Chains of nodes.  Linked(next, p, s): the pointer p and the links next  *)
(* lead through the nodes of s, each once, and then to null.               *)
Pointers(next) ==
  /\ DOMAIN next \subseteq Nat \ {0} /\ IsFiniteSet(DOMAIN next)
  /\ \A a \in DOMAIN next : next[a] \in Nat

At(s, i) == IF i \in 1..Len(s) THEN s[i] ELSE 0

Linked(next, p, s) ==
  /\ s \in Seq(Nat) /\ IsInjective(s)
  /\ \A i \in 1..Len(s) : s[i] \in DOMAIN next /\ next[s[i]] = At(s, i + 1)
  /\ p = At(s, 1)

(* The function that Chain defines by recursion. *)
Walk(w, next) ==
  /\ w \in [Nat -> [Nat -> Seq(Nat)]]
  /\ \A q \in Nat : w[0][q] = <<>>
  /\ \A k, q \in Nat :
       w[k + 1][q] = IF q \notin DOMAIN next THEN <<>> ELSE <<q>> \o w[k][next[q]]

LEMMA WalkExists ==
  ASSUME NEW next, Pointers(next)
  PROVE  \E w : Walk(w, next)
<1> DEFINE S == [Nat -> Seq(Nat)]
           Step(w) == [q \in Nat |-> IF q \notin DOMAIN next THEN <<>> ELSE <<q>> \o w[next[q]]]
           G == [w \in S |-> Step(w)]
           a == [q \in Nat |-> <<>>]
<1>1. a \in S
  OBVIOUS
<1>2. ASSUME NEW w \in S PROVE Step(w) \in S
  <2>1. ASSUME NEW q \in Nat, q \in DOMAIN next PROVE <<q>> \o w[next[q]] \in Seq(Nat)
    <3>1. next[q] \in Nat
      BY <2>1 DEF Pointers
    <3>2. PICK r \in Seq(Nat) : r = w[next[q]]
      BY <3>1
    <3>3. <<q>> \in Seq(Nat)
      OBVIOUS
    <3> QED BY <3>2, <3>3, ConcatProperties
  <2> QED BY <2>1
<1>3. G \in [S -> S]
  <2> HIDE DEF Step
  <2> QED BY <1>2
<1>4. ASSUME NEW w \in S PROVE G[w] = Step(w)
  BY <1>4
<1> HIDE DEF G, a
<1>5. PICK f \in [Nat -> S] : f[0] = a /\ \A k \in Nat : f[k + 1] = G[f[k]]
  <2> HIDE DEF S
  <2> QED BY <1>1, <1>3, FunctionByIteration
<1>6. \A q \in Nat : f[0][q] = <<>>
  BY <1>5 DEF a
<1>7. ASSUME NEW k \in Nat, NEW q \in Nat
      PROVE  f[k + 1][q] = IF q \notin DOMAIN next THEN <<>> ELSE <<q>> \o f[k][next[q]]
  <2>1. f[k] \in S /\ f[k + 1] = Step(f[k])
    BY <1>4, <1>5
  <2> QED BY <2>1
<1>8. f \in [Nat -> [Nat -> Seq(Nat)]]
  BY <1>5
<1>9. \A k, q \in Nat :
        f[k + 1][q] = IF q \notin DOMAIN next THEN <<>> ELSE <<q>> \o f[k][next[q]]
  BY <1>7
<1> QED BY ONLY <1>6, <1>8, <1>9, Zenon DEF Walk

(* Chain is what the walk gives with steps enough for all nodes. *)
LEMMA ChainWalks ==
  ASSUME NEW next, Pointers(next), NEW p
  PROVE  \E w : Walk(w, next) /\ N!Chain(next, p) = w[Cardinality(DOMAIN next) + 1][p]
<1> DEFINE Is(w) ==
      w = [k \in Nat |-> [q \in Nat |->
            IF k = 0 \/ q \notin DOMAIN next THEN <<>> ELSE <<q>> \o w[k - 1][next[q]]]]
           c == CHOOSE w : Is(w)
<1>1. N!Chain(next, p) = c[Cardinality(DOMAIN next) + 1][p]
  BY DEF N!Chain, N!Cardinality, Cardinality
<1>2. PICK f : Walk(f, next)
  BY WalkExists
<1>3. Is(f)
  <2>1. f = [k \in Nat |-> [q \in Nat |-> f[k][q]]]
    BY <1>2 DEF Walk
  <2>2. ASSUME NEW k \in Nat, NEW q \in Nat
        PROVE  f[k][q] = IF k = 0 \/ q \notin DOMAIN next THEN <<>> ELSE <<q>> \o f[k - 1][next[q]]
    <3>1. CASE k = 0
      BY <3>1, <1>2 DEF Walk
    <3>2. CASE k # 0
      <4>1. PICK j \in Nat : j + 1 = k /\ j = k - 1
        <5>1. k - 1 \in Nat /\ (k - 1) + 1 = k
          BY <3>2
        <5> QED BY <5>1
      <4>2. f[j + 1][q] = IF q \notin DOMAIN next THEN <<>> ELSE <<q>> \o f[j][next[q]]
        BY <1>2, Zenon DEF Walk
      <4> QED BY <3>2, <4>1, <4>2, Zenon
    <3> QED BY <3>1, <3>2
  <2>3. [k \in Nat |-> [q \in Nat |-> f[k][q]]] =
          [k \in Nat |-> [q \in Nat |->
            IF k = 0 \/ q \notin DOMAIN next THEN <<>> ELSE <<q>> \o f[k - 1][next[q]]]]
    BY <2>2, Zenon
  <2> QED BY <2>1, <2>3, Zenon
<1>4. Is(c)
  <2> HIDE DEF Is
  <2> QED BY <1>3, Zenon
<1> HIDE DEF c
<1>5. \A k \in Nat : c[k] = [q \in Nat |->
            IF k = 0 \/ q \notin DOMAIN next THEN <<>> ELSE <<q>> \o c[k - 1][next[q]]]
  <2>1. PICK d : d = c
    OBVIOUS
  <2>2. c = [k \in Nat |-> [q \in Nat |->
            IF k = 0 \/ q \notin DOMAIN next THEN <<>> ELSE <<q>> \o d[k - 1][next[q]]]]
    BY <1>4, <2>1, Zenon
  <2>3. \A k \in Nat : c[k] = [q \in Nat |->
            IF k = 0 \/ q \notin DOMAIN next THEN <<>> ELSE <<q>> \o d[k - 1][next[q]]]
    BY <2>2
  <2> QED BY <2>3, <2>1, Zenon
<1> DEFINE Good == {k \in Nat : c[k] = f[k]}
<1>6. 0 \in Good
  <2>1. c[0] = [q \in Nat |-> <<>>]
    <3>1. 0 \in Nat
      OBVIOUS
    <3>2. c[0] = [q \in Nat |->
            IF 0 = 0 \/ q \notin DOMAIN next THEN <<>> ELSE <<q>> \o c[0 - 1][next[q]]]
      BY <1>5, <3>1, Zenon
    <3>3. ASSUME NEW q \in Nat
          PROVE (IF 0 = 0 \/ q \notin DOMAIN next THEN <<>> ELSE <<q>> \o c[0 - 1][next[q]]) = <<>>
      BY Zenon
    <3> QED BY <3>2, <3>3, Zenon
  <2>2. f[0] = [q \in Nat |-> <<>>]
    BY <1>2 DEF Walk
  <2> QED BY <2>1, <2>2
<1>7. ASSUME NEW k \in Nat, k \in Good PROVE k + 1 \in Good
  <2>1. (k + 1) - 1 = k /\ k + 1 # 0 /\ k + 1 \in Nat /\ c[k] = f[k]
    BY <1>7
  <2>2. c[k + 1] = [q \in Nat |-> IF q \notin DOMAIN next THEN <<>> ELSE <<q>> \o f[k][next[q]]]
    <3>1. c[k + 1] = [q \in Nat |-> IF k + 1 = 0 \/ q \notin DOMAIN next THEN <<>>
                                    ELSE <<q>> \o c[(k + 1) - 1][next[q]]]
      BY <2>1, <1>5, Zenon
    <3> QED BY <3>1, <2>1, Zenon
  <2>3. f[k + 1] = [q \in Nat |-> f[k + 1][q]]
    BY <1>2, <2>1 DEF Walk
  <2>4. \A q \in Nat :
          f[k + 1][q] = IF q \notin DOMAIN next THEN <<>> ELSE <<q>> \o f[k][next[q]]
    BY <1>2 DEF Walk
  <2>5. [q \in Nat |-> f[k + 1][q]] =
          [q \in Nat |-> IF q \notin DOMAIN next THEN <<>> ELSE <<q>> \o f[k][next[q]]]
    BY <2>4, Zenon
  <2>6. c[k + 1] = f[k + 1]
    BY <2>2, <2>3, <2>5, Zenon
  <2> QED BY <2>1, <2>6
<1>8. Nat \subseteq Good
  <2> HIDE DEF Good
  <2> QED BY <1>6, <1>7, InductionBySet
<1>9. Cardinality(DOMAIN next) + 1 \in Nat
  BY FS_CardinalityType DEF Pointers
<1>10. N!Chain(next, p) = f[Cardinality(DOMAIN next) + 1][p]
  BY <1>1, <1>8, <1>9
<1> QED BY <1>2, <1>10

(* A chain that is linked is what Chain returns. *)
LEMMA LinkedLength ==
  ASSUME NEW next, Pointers(next), NEW p, NEW s, Linked(next, p, s)
  PROVE  Len(s) \in Nat /\ Len(s) <= Cardinality(DOMAIN next) /\ Cardinality(DOMAIN next) \in Nat
<1>1. s \in Seq(Nat) /\ IsInjective(s) /\ \A i \in 1..Len(s) : s[i] \in DOMAIN next
  BY DEF Linked
<1>2. PICK n \in Nat : n = Len(s) /\ DOMAIN s = 1..n
  BY <1>1
<1>3. s \in [1..n -> DOMAIN next] /\ \A i, j \in 1..n : s[i] = s[j] => i = j
  BY <1>1, <1>2 DEF IsInjective
<1>4. s \in Injection(1..n, DOMAIN next)
  BY <1>3, Fun_IsInj
<1>5. IsFiniteSet(1..n) /\ Cardinality(1..n) = n
  BY FS_Interval
<1>6. Cardinality(1..n) <= Cardinality(DOMAIN next)
  BY <1>4, FS_Injection DEF Pointers
<1> QED BY <1>2, <1>5, <1>6, FS_CardinalityType DEF Pointers

LEMMA ChainIs ==
  ASSUME NEW next, Pointers(next), NEW p, NEW s, Linked(next, p, s)
  PROVE  N!Chain(next, p) = s
<1>1. PICK w : Walk(w, next) /\ N!Chain(next, p) = w[Cardinality(DOMAIN next) + 1][p]
  BY ChainWalks
<1>2. PICK n \in Nat : n = Len(s) /\ n <= Cardinality(DOMAIN next) /\ Cardinality(DOMAIN next) \in Nat
  BY LinkedLength
<1>3. /\ s \in Seq(Nat) /\ p = At(s, 1) /\ DOMAIN next \subseteq Nat \ {0}
      /\ \A i \in 1..n : s[i] \in DOMAIN next /\ next[s[i]] = At(s, i + 1)
  BY <1>2 DEF Linked, Pointers
<1> DEFINE Rest(j) == [m \in 1..j |-> s[n - j + m]]
           Good == {j \in Nat : j <= n => \A k \in Nat : k >= j => w[k][At(s, n - j + 1)] = Rest(j)}
<1>4. 0 \in Good
  <2>1. At(s, n - 0 + 1) = 0
    BY <1>2 DEF At
  <2>2. Rest(0) = <<>>
    OBVIOUS
  <2>3. ASSUME NEW k \in Nat PROVE w[k][0] = <<>>
    <3>1. CASE k = 0
      BY <3>1, <1>1 DEF Walk
    <3>2. CASE k # 0
      <4>1. k - 1 \in Nat /\ (k - 1) + 1 = k /\ 0 \notin DOMAIN next /\ 0 \in Nat
        BY <3>2, <1>3
      <4> QED BY <4>1, <1>1 DEF Walk
    <3> QED BY <3>1, <3>2
  <2> QED BY <2>1, <2>2, <2>3
<1>5. ASSUME NEW j \in Nat, j \in Good PROVE j + 1 \in Good
  <2>1. SUFFICES ASSUME j + 1 <= n, NEW k \in Nat, k >= j + 1
                 PROVE  w[k][At(s, n - (j + 1) + 1)] = Rest(j + 1)
    OBVIOUS
  <2>2. PICK i \in 1..n : i = n - j
    BY <2>1, <1>2
  <2>3. At(s, n - (j + 1) + 1) = s[i] /\ n - j + 1 = i + 1
    BY <2>2, <1>2, <2>1 DEF At
  <2>4. PICK h \in Nat : k = h + 1 /\ h >= j
    <3>1. k - 1 \in Nat /\ k = (k - 1) + 1 /\ k - 1 >= j
      BY <2>1
    <3> QED BY <3>1
  <2>5. w[h][At(s, i + 1)] = Rest(j)
    BY <1>5, <2>1, <2>3, <2>4
  <2>6. s[i] \in DOMAIN next /\ next[s[i]] = At(s, i + 1) /\ s[i] \in Nat
    BY <1>3, <2>2
  <2>7. w[h + 1][s[i]] = <<s[i]>> \o w[h][At(s, i + 1)]
    <3>1. PICK q \in Nat : q = s[i]
      BY <2>6
    <3>2. w[h + 1][q] = IF q \notin DOMAIN next THEN <<>> ELSE <<q>> \o w[h][next[q]]
      BY <1>1 DEF Walk
    <3>3. w[h + 1][q] = <<q>> \o w[h][next[q]]
      BY ONLY <3>1, <3>2, <2>6
    <3> QED BY <3>1, <3>3, <2>6, Zenon
  <2>8. <<s[i]>> \o Rest(j) = Rest(j + 1)
    <3>1. Rest(j) \in Seq(Nat) /\ Len(Rest(j)) = j
      <4>1. \A m \in 1..j : n - j + m \in 1..n
        BY <2>1
      <4>2. \A m \in 1..j : s[n - j + m] \in Nat
        BY <4>1, <1>2, <1>3
      <4> QED BY <4>2
    <3>2. Rest(j + 1) \in Seq(Nat) /\ Len(Rest(j + 1)) = j + 1
      <4>1. \A m \in 1..j + 1 : n - (j + 1) + m \in 1..n
        BY <2>1
      <4>2. \A m \in 1..j + 1 : s[n - (j + 1) + m] \in Nat
        BY <4>1, <1>2, <1>3
      <4> QED BY <4>2
    <3>3. <<s[i]>> \in Seq(Nat) /\ Len(<<s[i]>>) = 1
      BY <2>6
    <3>4. /\ Len(<<s[i]>> \o Rest(j)) = j + 1 /\ <<s[i]>> \o Rest(j) \in Seq(Nat)
          /\ \A m \in 1..j + 1 : (<<s[i]>> \o Rest(j))[m] = IF m <= 1 THEN <<s[i]>>[m] ELSE Rest(j)[m - 1]
      <4>1. PICK r \in Seq(Nat) : r = Rest(j) /\ Len(r) = j
        BY <3>1
      <4>2. PICK u \in Seq(Nat) : u = <<s[i]>> /\ Len(u) = 1
        BY <3>3
      <4>3. /\ Len(u \o r) = Len(u) + Len(r) /\ u \o r \in Seq(Nat)
            /\ \A m \in 1..Len(u) + Len(r) : (u \o r)[m] = IF m <= Len(u) THEN u[m] ELSE r[m - Len(u)]
        BY ONLY u \in Seq(Nat), r \in Seq(Nat), ConcatProperties, Zenon
      <4>4. Len(u) + Len(r) = j + 1
        BY <4>1, <4>2
      <4>5. /\ Len(u \o r) = j + 1 /\ u \o r \in Seq(Nat)
            /\ \A m \in 1..j + 1 : (u \o r)[m] = IF m <= 1 THEN u[m] ELSE r[m - 1]
        BY ONLY <4>1, <4>2, <4>3, <4>4, Zenon
      <4> HIDE DEF Rest
      <4> QED BY ONLY <4>1, <4>2, <4>5, Zenon
    <3>5. ASSUME NEW m \in 1..j + 1 PROVE (<<s[i]>> \o Rest(j))[m] = Rest(j + 1)[m]
      <4>1. CASE m = 1
        <5>1. n - (j + 1) + m = i
          BY <4>1, <2>2
        <5> QED BY <4>1, <5>1, <3>4
      <4>2. CASE m # 1
        <5>1. m - 1 \in 1..j /\ n - j + (m - 1) = n - (j + 1) + m /\ ~(m <= 1)
          BY <4>2
        <5>2. Rest(j)[m - 1] = s[n - (j + 1) + m]
          BY <5>1
        <5> QED BY <5>1, <5>2, <3>4
      <4> QED BY <4>1, <4>2
    <3> HIDE DEF Rest
    <3> QED BY <3>2, <3>4, <3>5, SeqEqual
  <2> HIDE DEF Rest
  <2> QED BY <2>3, <2>4, <2>5, <2>7, <2>8
<1>6. Nat \subseteq Good
  <2> HIDE DEF Good
  <2> QED BY <1>4, <1>5, InductionBySet
<1>7. w[Cardinality(DOMAIN next) + 1][At(s, n - n + 1)] = Rest(n)
  <2>1. n \in Good /\ Cardinality(DOMAIN next) + 1 \in Nat /\ Cardinality(DOMAIN next) + 1 >= n
    BY <1>2, <1>6
  <2> HIDE DEF Rest
  <2> QED BY <2>1
<1>8. Rest(n) = s
  BY <1>2, <1>3
<1>9. n - n + 1 = 1
  OBVIOUS
<1> QED BY <1>1, <1>3, <1>7, <1>8, <1>9

LEMMA ProperIs ==
  ASSUME NEW next, Pointers(next), NEW p, NEW s, Linked(next, p, s)
  PROVE  N!Proper(next, p)
<1>1. N!Chain(next, p) = s
  BY ChainIs
<1>2. /\ s \in Seq(Nat) /\ IsInjective(s) /\ p = At(s, 1)
      /\ \A i \in 1..Len(s) : s[i] \in DOMAIN next /\ next[s[i]] = At(s, i + 1)
  BY DEF Linked
<1>3. s = <<>> => p = 0
  BY <1>2 DEF At
<1>4. ASSUME s # <<>> PROVE next[s[Len(s)]] = 0
  <2>1. PICK n \in Nat : n = Len(s) /\ n \in 1..n /\ n + 1 \notin 1..n
    BY <1>2, <1>4
  <2> QED BY <2>1, <1>2 DEF At
<1>5. N!IsInjective(s)
  BY <1>2 DEF IsInjective, N!IsInjective
<1> QED BY <1>1, <1>3, <1>4, <1>5 DEF N!Proper, N!Last, N!null

-----------------------------------------------------------------------------
(* A chain after a node came into it, and after one left. *)
LEMMA LinkedEntries ==
  ASSUME NEW next, NEW p, NEW s, Linked(next, p, s)
  PROVE  /\ s \in Seq(Nat) /\ Len(s) \in Nat /\ DOMAIN s = 1..Len(s)
         /\ \A i, j \in 1..Len(s) : s[i] = s[j] => i = j
         /\ \A i \in 1..Len(s) : s[i] \in DOMAIN next /\ next[s[i]] = At(s, i + 1) /\ s[i] \in Nat
         /\ p = At(s, 1)
         /\ ToSet(s) = {s[i] : i \in 1..Len(s)}
<1>1. s \in Seq(Nat) /\ IsInjective(s)
  BY DEF Linked
<1>2. Len(s) \in Nat /\ DOMAIN s = 1..Len(s) /\ \A i \in 1..Len(s) : s[i] \in Nat
  BY <1>1
<1>3. \A i, j \in 1..Len(s) : s[i] = s[j] => i = j
  BY ONLY <1>1, <1>2, Zenon DEF IsInjective
<1>4. ToSet(s) = {s[i] : i \in 1..Len(s)}
  BY ONLY <1>2, Zenon DEF ToSet
<1>5. p = At(s, 1) /\ \A i \in 1..Len(s) : s[i] \in DOMAIN next /\ next[s[i]] = At(s, i + 1)
  BY Zenon DEF Linked
<1> QED BY ONLY <1>1, <1>2, <1>3, <1>4, <1>5, Zenon

LEMMA LinkedSame ==
  ASSUME NEW next, NEW next2, NEW p, NEW s, Linked(next, p, s),
         \A b \in ToSet(s) : b \in DOMAIN next2 /\ next2[b] = next[b]
  PROVE  Linked(next2, p, s)
<1>1. \A i \in 1..Len(s) : s[i] \in ToSet(s)
  BY LinkedEntries
<1> QED BY <1>1 DEF Linked

Inserted(next, next2, s, k, a) ==
  /\ a \notin ToSet(s) /\ a \in DOMAIN next2 /\ next2[a] = At(s, k)
  /\ k > 1 => next2[s[k - 1]] = a
  /\ \A b \in ToSet(s) : b \in DOMAIN next2 /\ (~(k > 1 /\ b = s[k - 1]) => next2[b] = next[b])

LEMMA LinkedInsert ==
  ASSUME NEW next, NEW next2, NEW p, NEW s, Linked(next, p, s),
         NEW k \in 1..Len(s) + 1, NEW a \in Nat, Inserted(next, next2, s, k, a)
  PROVE  /\ Linked(next2, IF k = 1 THEN a ELSE p, InsertAt(s, k, a))
         /\ ToSet(InsertAt(s, k, a)) = ToSet(s) \cup {a}
<1> USE DEF Inserted
<1>1. s \in Seq(Nat)
  BY DEF Linked
<1>2. PICK n \in Nat : n = Len(s)
  BY <1>1
<1>3. \A i, j \in 1..n : s[i] = s[j] => i = j
  BY <1>2, LinkedEntries
<1>4. \A i \in 1..n : next[s[i]] = At(s, i + 1) /\ s[i] \in Nat
  BY <1>2, LinkedEntries
<1>5. p = At(s, 1)
  BY LinkedEntries
<1>6. ToSet(s) = {s[i] : i \in 1..n}
  BY ONLY Linked(next, p, s), <1>2, LinkedEntries, Zenon
<1>7. k \in Nat /\ 1 <= k /\ k <= n + 1
  BY <1>2
<1>8. PICK t \in Seq(Nat) : /\ t = InsertAt(s, k, a) /\ Len(t) = Len(s) + 1
                            /\ \A i \in 1..Len(s) + 1 : t[i] = IF i < k THEN s[i] ELSE IF i = k THEN a ELSE s[i - 1]
  <2>1. IsInsert(Nat, s, k, a, InsertAt(s, k, a))
    BY <1>1, InsertIs
  <2> QED BY ONLY <2>1, Zenon DEF IsInsert
<1>9. t \in Seq(Nat) /\ Len(t) = n + 1 /\ DOMAIN t = 1..n + 1
  BY <1>2, <1>8
<1> DEFINE o(i) == IF i < k THEN i ELSE i - 1
<1>10. ASSUME NEW i \in 1..n + 1 PROVE i # k => o(i) \in 1..n /\ t[i] = s[o(i)]
  <2>1. i # k => o(i) \in 1..n
    BY <1>7
  <2> QED BY <1>2, <1>8, <2>1
<1>11. t[k] = a
  BY <1>2, <1>7, <1>8
<1>12. ASSUME NEW j \in 1..n PROVE \E i \in 1..n + 1 : i # k /\ o(i) = j
  <2>1. CASE j < k
    <3>1. j \in 1..n + 1 /\ o(j) = j /\ j # k
      BY <2>1, <1>7
    <3> QED BY <3>1
  <2>2. CASE ~(j < k)
    <3>1. j + 1 \in 1..n + 1 /\ o(j + 1) = j /\ j + 1 # k
      BY <2>2, <1>7
    <3> QED BY <3>1
  <2> QED BY <2>1, <2>2
<1>13. \A i, j \in 1..n + 1 : i # k /\ j # k /\ o(i) = o(j) => i = j
  BY <1>7
<1>14. k \in 1..n + 1 /\ (k > 1 => k - 1 \in 1..n)
  BY <1>7
<1>15. ASSUME NEW i \in 1..n + 1, i # k
       PROVE  At(t, i + 1) = IF o(i) = k - 1 /\ k > 1 THEN a ELSE At(s, o(i) + 1)
  <2>1. CASE i = n + 1
    <3>1. o(i) = n /\ ~(o(i) = k - 1) /\ ~(n + 1 + 1 \in 1..n + 1) /\ ~(n + 1 \in 1..n)
      BY <2>1, <1>7, <1>15
    <3> HIDE DEF o
    <3> QED BY <3>1, <2>1, <1>2, <1>9 DEF At
  <2>2. CASE i # n + 1
    <3>1. i + 1 \in 1..n + 1
      BY <2>2
    <3>2. At(t, i + 1) = t[i + 1]
      BY <3>1, <1>9 DEF At
    <3>3. CASE i + 1 = k
      <4>1. o(i) = k - 1 /\ k > 1
        BY <3>3
      <4> QED BY <4>1, <3>2, <3>3, <1>11
    <3>4. CASE i + 1 # k
      <4>1. t[i + 1] = s[o(i + 1)] /\ o(i + 1) \in 1..n
        BY <3>1, <3>4, <1>10
      <4>2. o(i + 1) = o(i) + 1 /\ ~(o(i) = k - 1)
        BY <3>4, <1>7, <1>15
      <4> HIDE DEF o
      <4> QED BY <4>1, <4>2, <3>2, <1>2 DEF At
    <3> QED BY <3>3, <3>4
  <2> QED BY <2>1, <2>2
<1>16. At(t, k + 1) = At(s, k)
  <2>1. CASE k = n + 1
    BY <2>1, <1>2, <1>9 DEF At
  <2>2. CASE k # n + 1
    <3>1. k + 1 \in 1..n + 1 /\ k + 1 # k /\ o(k + 1) = k /\ k \in 1..n
      BY <2>2, <1>7
    <3>2. t[k + 1] = s[k]
      BY <3>1, <1>10
    <3> QED BY <3>1, <3>2, <1>2, <1>9 DEF At
  <2> QED BY <2>1, <2>2
<1> HIDE DEF o
<1>17. ToSet(t) = ToSet(s) \cup {a}
  <2>1. ToSet(t) = {t[i] : i \in 1..n + 1}
    BY ONLY <1>9, Zenon DEF ToSet
  <2>2. \A i \in 1..n + 1 : t[i] \in ToSet(s) \cup {a}
    BY <1>6, <1>10, <1>11
  <2>3. \A j \in 1..n : \E i \in 1..n + 1 : t[i] = s[j]
    BY <1>10, <1>12
  <2>4. a \in ToSet(t)
    BY <2>1, <1>11, <1>14
  <2>5. ToSet(s) \subseteq ToSet(t)
    BY <2>1, <2>3, <1>6
  <2> QED BY <2>1, <2>2, <2>4, <2>5
<1>18. IsInjective(t)
  <2>1. \A i \in 1..n : s[i] # a
    BY <1>6
  <2>2. ASSUME NEW i \in 1..n + 1, NEW j \in 1..n + 1, t[i] = t[j] PROVE i = j
    <3>1. CASE i # k /\ j # k
      <4>1. s[o(i)] = s[o(j)] /\ o(i) \in 1..n /\ o(j) \in 1..n
        BY <3>1, <2>2, <1>10
      <4>2. o(i) = o(j)
        BY ONLY <4>1, <1>3, Zenon
      <4> QED BY <3>1, <4>2, <1>13
    <3>2. CASE i = k /\ j # k
      BY <3>2, <2>1, <2>2, <1>10, <1>11
    <3>3. CASE i # k /\ j = k
      BY <3>3, <2>1, <2>2, <1>10, <1>11
    <3> QED BY <3>1, <3>2, <3>3
  <2> QED BY ONLY <1>9, <2>2, Zenon DEF IsInjective
<1>19. ASSUME NEW i \in 1..n + 1 PROVE t[i] \in DOMAIN next2 /\ next2[t[i]] = At(t, i + 1)
  <2>1. CASE i = k
    BY <2>1, <1>11, <1>16
  <2>2. CASE i # k
    <3>1. t[i] = s[o(i)] /\ o(i) \in 1..n /\ t[i] \in ToSet(s)
      BY <2>2, <1>6, <1>10
    <3>2. CASE o(i) = k - 1 /\ k > 1
      BY <2>2, <3>1, <3>2, <1>15
    <3>3. CASE ~(o(i) = k - 1 /\ k > 1)
      <4>1. ~(k > 1 /\ t[i] = s[k - 1])
        BY <3>1, <3>3, <1>3, <1>14
      <4>2. next2[t[i]] = next[t[i]]
        BY <3>1, <4>1
      <4> QED BY <2>2, <3>1, <3>3, <4>2, <1>4, <1>15
    <3> QED BY <3>2, <3>3
  <2> QED BY <2>1, <2>2
<1>20. (IF k = 1 THEN a ELSE p) = At(t, 1)
  <2>1. CASE k = 1
    BY <2>1, <1>9, <1>11 DEF At
  <2>2. CASE k # 1
    <3>1. 1 \in 1..n /\ 1 \in 1..n + 1 /\ 1 < k
      BY <2>2, <1>7
    <3>2. t[1] = s[1]
      BY <3>1, <1>2, <1>8
    <3> QED BY <2>2, <3>1, <3>2, <1>2, <1>5, <1>9 DEF At
  <2> QED BY <2>1, <2>2
<1>21. Linked(next2, IF k = 1 THEN a ELSE p, t)
  BY <1>9, <1>18, <1>19, <1>20 DEF Linked
<1> QED BY ONLY <1>8, <1>17, <1>21, Zenon

LEMMA LinkedRemove ==
  ASSUME NEW next, NEW next2, NEW p, NEW s, Linked(next, p, s), NEW k \in 1..Len(s),
         k > 1 => next2[s[k - 1]] = next[s[k]],
         \A b \in ToSet(s) \ {s[k]} :
           b \in DOMAIN next2 /\ (~(k > 1 /\ b = s[k - 1]) => next2[b] = next[b])
  PROVE  /\ Linked(next2, IF k = 1 THEN next[s[k]] ELSE p, RemoveAt(s, k))
         /\ ToSet(RemoveAt(s, k)) = ToSet(s) \ {s[k]}
<1>1. s \in Seq(Nat)
  BY DEF Linked
<1>2. PICK n \in Nat : n = Len(s)
  BY <1>1
<1>3. \A i, j \in 1..n : s[i] = s[j] => i = j
  BY <1>2, LinkedEntries
<1>4. \A i \in 1..n : next[s[i]] = At(s, i + 1) /\ s[i] \in Nat
  BY <1>2, LinkedEntries
<1>5. p = At(s, 1)
  BY LinkedEntries
<1>6. ToSet(s) = {s[i] : i \in 1..n}
  BY ONLY Linked(next, p, s), <1>2, LinkedEntries, Zenon
<1>7. k \in Nat /\ 1 <= k /\ k <= n
  BY <1>2
<1>8. PICK t \in Seq(Nat) : /\ t = RemoveAt(s, k) /\ Len(t) = Len(s) - 1
                            /\ \A i \in 1..Len(s) - 1 : t[i] = IF i < k THEN s[i] ELSE s[i + 1]
  <2>1. IsRemove(Nat, s, k, RemoveAt(s, k))
    BY <1>1, RemoveIs
  <2> QED BY ONLY <2>1, Zenon DEF IsRemove
<1>9. t \in Seq(Nat) /\ Len(t) = n - 1 /\ DOMAIN t = 1..n - 1
  BY <1>2, <1>8
<1> DEFINE o(i) == IF i < k THEN i ELSE i + 1
<1>10. ASSUME NEW i \in 1..n - 1 PROVE o(i) \in 1..n /\ o(i) # k /\ t[i] = s[o(i)]
  <2>1. o(i) \in 1..n /\ o(i) # k
    BY <1>7
  <2> QED BY <1>2, <1>8, <2>1
<1>11. k \in 1..n /\ (k > 1 => k - 1 \in 1..n) /\ (k <= 1 => k = 1)
  BY <1>7
<1>12. ASSUME NEW j \in 1..n, j # k PROVE \E i \in 1..n - 1 : o(i) = j
  <2>1. CASE j < k
    <3>1. j \in 1..n - 1 /\ o(j) = j
      BY <2>1, <1>7
    <3> QED BY <3>1
  <2>2. CASE ~(j < k)
    <3>1. j - 1 \in 1..n - 1 /\ o(j - 1) = j
      BY <2>2, <1>7, <1>12
    <3> QED BY <3>1
  <2> QED BY <2>1, <2>2
<1>13. \A i, j \in 1..n - 1 : o(i) = o(j) => i = j
  BY <1>7
<1>15. ASSUME NEW i \in 1..n - 1
       PROVE  At(t, i + 1) = IF o(i) = k - 1 THEN At(s, k + 1) ELSE At(s, o(i) + 1)
  <2>1. CASE i = n - 1
    <3>1. /\ ~(i + 1 \in 1..n - 1) /\ (o(i) = k - 1 => k + 1 = n + 1)
          /\ (~(o(i) = k - 1) => o(i) + 1 = n + 1) /\ ~(n + 1 \in 1..n)
      BY <2>1, <1>7
    <3> HIDE DEF o
    <3> QED BY <3>1, <1>2, <1>9 DEF At
  <2>2. CASE i # n - 1
    <3>1. i + 1 \in 1..n - 1
      BY <2>2
    <3>2. At(t, i + 1) = t[i + 1]
      BY <3>1, <1>9 DEF At
    <3>3. t[i + 1] = s[o(i + 1)] /\ o(i + 1) \in 1..n
      BY <3>1, <1>10
    <3>4. o(i + 1) = IF o(i) = k - 1 THEN k + 1 ELSE o(i) + 1
      BY <1>7
    <3> HIDE DEF o
    <3>5. At(s, o(i + 1)) = s[o(i + 1)]
      BY <3>3, <1>2 DEF At
    <3> QED BY <3>2, <3>3, <3>4, <3>5
  <2> QED BY <2>1, <2>2
<1> HIDE DEF o
<1>17. ToSet(t) = ToSet(s) \ {s[k]}
  <2>1. ToSet(t) = {t[i] : i \in 1..n - 1}
    BY ONLY <1>9, Zenon DEF ToSet
  <2>2. ASSUME NEW i \in 1..n - 1 PROVE t[i] \in ToSet(s) \ {s[k]}
    <3>1. t[i] = s[o(i)] /\ o(i) \in 1..n /\ o(i) # k
      BY <1>10
    <3> QED BY <3>1, <1>3, <1>6, <1>11
  <2>3. ASSUME NEW j \in 1..n, j # k PROVE \E i \in 1..n - 1 : t[i] = s[j]
    <3>1. PICK i \in 1..n - 1 : o(i) = j
      BY <2>3, <1>12
    <3> QED BY <3>1, <1>10
  <2>4. ToSet(s) \ {s[k]} \subseteq ToSet(t)
    BY <2>1, <2>3, <1>6
  <2>5. ToSet(t) \subseteq ToSet(s) \ {s[k]}
    BY <2>1, <2>2
  <2> QED BY <2>4, <2>5
<1>18. IsInjective(t)
  <2>1. ASSUME NEW i \in 1..n - 1, NEW j \in 1..n - 1, t[i] = t[j] PROVE i = j
    <3>1. s[o(i)] = s[o(j)] /\ o(i) \in 1..n /\ o(j) \in 1..n
      BY <2>1, <1>10
    <3>2. o(i) = o(j)
      BY ONLY <3>1, <1>3, Zenon
    <3> QED BY <3>2, <1>13
  <2> QED BY ONLY <1>9, <2>1, Zenon DEF IsInjective
<1>19. ASSUME NEW i \in 1..n - 1 PROVE t[i] \in DOMAIN next2 /\ next2[t[i]] = At(t, i + 1)
  <2>1. t[i] = s[o(i)] /\ o(i) \in 1..n /\ o(i) # k
    BY <1>10
  <2>2. t[i] \in ToSet(s) \ {s[k]}
    BY <2>1, <1>3, <1>6, <1>11
  <2>3. CASE o(i) = k - 1
    <3>1. k > 1
      BY <2>1, <2>3, <1>7
    <3>2. next2[t[i]] = At(s, k + 1)
      BY <2>1, <2>3, <3>1, <1>4, <1>11
    <3> QED BY <2>2, <2>3, <3>2, <1>15
  <2>4. CASE o(i) # k - 1
    <3>1. ~(k > 1 /\ t[i] = s[k - 1])
      BY <2>1, <2>4, <1>3, <1>11
    <3>2. next2[t[i]] = next[t[i]]
      BY <2>2, <3>1
    <3> QED BY <2>1, <2>2, <2>4, <3>2, <1>4, <1>15
  <2> QED BY <2>3, <2>4
<1>20. (IF k = 1 THEN next[s[k]] ELSE p) = At(t, 1)
  <2>1. CASE k = 1
    <3>1. next[s[k]] = At(s, 2)
      BY <2>1, <1>4, <1>11
    <3>2. CASE n >= 2
      <4>1. 1 \in 1..n - 1 /\ 2 \in 1..n /\ ~(1 < k)
        BY <2>1, <3>2
      <4>2. t[1] = s[2]
        BY <4>1, <1>2, <1>8
      <4> QED BY <2>1, <3>1, <4>1, <4>2, <1>2, <1>9 DEF At
    <3>3. CASE ~(n >= 2)
      BY <2>1, <3>1, <3>3, <1>2, <1>9 DEF At
    <3> QED BY <3>2, <3>3
  <2>2. CASE k # 1
    <3>1. 1 \in 1..n - 1 /\ 1 < k /\ 1 \in 1..n
      BY <2>2, <1>7
    <3>2. t[1] = s[1]
      BY <3>1, <1>2, <1>8
    <3> QED BY <2>2, <3>1, <3>2, <1>2, <1>5, <1>9 DEF At
  <2> QED BY <2>1, <2>2
<1>21. Linked(next2, IF k = 1 THEN next[s[k]] ELSE p, t)
  BY <1>9, <1>18, <1>19, <1>20 DEF Linked
<1> QED BY ONLY <1>8, <1>17, <1>21, Zenon
(* The first and the last node then. *)
LEMMA InsertEnds ==
  ASSUME NEW s \in Seq(Nat), NEW k \in 1..Len(s) + 1, NEW a \in Nat
  PROVE  /\ At(InsertAt(s, k, a), 1) = IF k = 1 THEN a ELSE At(s, 1)
         /\ At(InsertAt(s, k, a), Len(s) + 1) = IF k = Len(s) + 1 THEN a ELSE At(s, Len(s))
<1>1. PICK t \in Seq(Nat) : /\ t = InsertAt(s, k, a) /\ Len(t) = Len(s) + 1
                            /\ \A i \in 1..Len(s) + 1 : t[i] = IF i < k THEN s[i] ELSE IF i = k THEN a ELSE s[i - 1]
  <2>1. IsInsert(Nat, s, k, a, InsertAt(s, k, a))
    BY InsertIs
  <2> QED BY ONLY <2>1, Zenon DEF IsInsert
<1>2. PICK n \in Nat : n = Len(s)
  OBVIOUS
<1>3. At(t, 1) = IF k = 1 THEN a ELSE At(s, 1)
  <2>1. 1 \in 1..n + 1 /\ (k # 1 => 1 < k /\ 1 \in 1..n)
    BY <1>2
  <2> QED BY <2>1, <1>1, <1>2 DEF At
<1>4. At(t, n + 1) = IF k = n + 1 THEN a ELSE At(s, n)
  <2>1. n + 1 \in 1..n + 1 /\ (k # n + 1 => ~(n + 1 < k) /\ n \in 1..n /\ (n + 1) - 1 = n)
    BY <1>2
  <2> QED BY <2>1, <1>1, <1>2 DEF At
<1> QED BY ONLY <1>1, <1>2, <1>3, <1>4, Zenon

LEMMA RemoveEnds ==
  ASSUME NEW s \in Seq(Nat), NEW k \in 1..Len(s)
  PROVE  /\ At(RemoveAt(s, k), 1) = IF k = 1 THEN At(s, 2) ELSE At(s, 1)
         /\ At(RemoveAt(s, k), Len(s) - 1) = IF k = Len(s) THEN At(s, Len(s) - 1) ELSE At(s, Len(s))
<1>1. PICK t \in Seq(Nat) : /\ t = RemoveAt(s, k) /\ Len(t) = Len(s) - 1
                            /\ \A i \in 1..Len(s) - 1 : t[i] = IF i < k THEN s[i] ELSE s[i + 1]
  <2>1. IsRemove(Nat, s, k, RemoveAt(s, k))
    BY RemoveIs
  <2> QED BY ONLY <2>1, Zenon DEF IsRemove
<1>2. PICK n \in Nat : n = Len(s) /\ k \in 1..n
  OBVIOUS
<1>3. At(t, 1) = IF k = 1 THEN At(s, 2) ELSE At(s, 1)
  <2>1. CASE n = 1
    BY <2>1, <1>1, <1>2 DEF At
  <2>2. CASE n # 1
    <3>1. 1 \in 1..n - 1 /\ 2 \in 1..n /\ 1 \in 1..n /\ (k # 1 => 1 < k) /\ (k = 1 => ~(1 < k))
      BY <2>2, <1>2
    <3>2. t[1] = IF k = 1 THEN s[2] ELSE s[1]
      BY <3>1, <1>1, <1>2
    <3> QED BY <3>1, <3>2, <1>1, <1>2 DEF At
  <2> QED BY <2>1, <2>2
<1>4. At(t, n - 1) = IF k = n THEN At(s, n - 1) ELSE At(s, n)
  <2>1. CASE n = 1
    BY <2>1, <1>1, <1>2 DEF At
  <2>2. CASE n # 1
    <3>1. n - 1 \in 1..n - 1 /\ n - 1 \in 1..n /\ n \in 1..n
          /\ (k = n => n - 1 < k) /\ (k # n => ~(n - 1 < k) /\ (n - 1) + 1 = n)
      BY <2>2, <1>2
    <3>2. t[n - 1] = IF k = n THEN s[n - 1] ELSE s[n]
      BY <3>1, <1>1, <1>2
    <3> QED BY <3>1, <3>2, <1>1, <1>2 DEF At
  <2> QED BY <2>1, <2>2
<1> QED BY ONLY <1>1, <1>2, <1>3, <1>4, Zenon

-----------------------------------------------------------------------------
(* Several objects over one heap of nodes: cs[l] is the chain of the       *)
(* object l.  No two share a node, and there is no node beside them.       *)
Heap(A, T, L, info, link, cs) ==
  /\ DOMAIN info \subseteq A /\ info \in [DOMAIN info -> T] /\ link \in [DOMAIN info -> A \cup {0}]
  /\ cs \in [L -> Seq(A)]
  /\ \A l \in L : Linked(link, At(cs[l], 1), cs[l])
  /\ \A l, m \in L : l # m => ToSet(cs[l]) \cap ToSet(cs[m]) = {}
  /\ DOMAIN info = UNION {ToSet(cs[l]) : l \in L}

(* What the objects hold. *)
Items(L, info, cs) == [l \in L |-> N!Values(info, cs[l])]

LEMMA ToSetIs ==
  ASSUME NEW S, NEW s \in Seq(S)
  PROVE  ToSet(s) = {s[i] : i \in 1..Len(s)} /\ ToSet(s) \subseteq S
BY DEF ToSet

(* The chain of one object, and what its nodes hold, is replaced.  Kept    *)
(* are the nodes of the others.                                            *)
Kept(info, s) == DOMAIN info \ ToSet(s)

Replaces(A, T, info, link, s, t, info2, link2) ==
  /\ t \in Seq(A) /\ Linked(link2, At(t, 1), t) /\ ToSet(t) \cap Kept(info, s) = {}
  /\ info2 \in [Kept(info, s) \cup ToSet(t) -> T]
  /\ link2 \in [Kept(info, s) \cup ToSet(t) -> A \cup {0}]
  /\ \A b \in Kept(info, s) : info2[b] = info[b] /\ link2[b] = link[b]

(* The object l then has the chain t, which holds v, and the others have   *)
(* what they had.                                                          *)
Becomes(A, T, L, info, cs, l, t, v, info2, link2) ==
  /\ Heap(A, T, L, info2, link2, [cs EXCEPT ![l] = t])
  /\ Items(L, info2, [cs EXCEPT ![l] = t]) = [Items(L, info, cs) EXCEPT ![l] = v]

LEMMA HeapReplace ==
  ASSUME NEW A, NEW T, NEW L, NEW info, NEW link, NEW cs, Heap(A, T, L, info, link, cs),
         NEW l \in L, NEW t, NEW info2, NEW link2, Replaces(A, T, info, link, cs[l], t, info2, link2)
  PROVE  Becomes(A, T, L, info, cs, l, t, N!Values(info2, t), info2, link2)
<1> USE DEF Replaces
<1> DEFINE cs2 == [cs EXCEPT ![l] = t]
           K == Kept(info, cs[l])
<1>1. cs2 \in [L -> Seq(A)] /\ cs2[l] = t /\ \A m \in L : m # l => cs2[m] = cs[m]
  BY DEF Heap
<1>2. ASSUME NEW m \in L, m # l PROVE ToSet(cs[m]) \subseteq K
  BY <1>2 DEF Heap, Kept
<1>3. \A b \in K \cup ToSet(t) : b \in DOMAIN info2 /\ b \in DOMAIN link2
  OBVIOUS
<1>4. ToSet(t) \subseteq A
  BY ToSetIs
<1>5. K \subseteq A
  BY DEF Heap, Kept
<1> HIDE DEF cs2
<1>6. ASSUME NEW m \in L PROVE Linked(link2, At(cs2[m], 1), cs2[m])
  <2>1. CASE m = l
    BY <2>1, <1>1
  <2>2. CASE m # l
    <3>1. Linked(link, At(cs[m], 1), cs[m])
      BY DEF Heap
    <3>2. \A b \in ToSet(cs[m]) : b \in DOMAIN link2 /\ link2[b] = link[b]
      BY <2>2, <1>2, <1>3
    <3>3. Linked(link2, At(cs[m], 1), cs[m])
      BY <3>1, <3>2, LinkedSame
    <3> QED BY <2>2, <3>3, <1>1
  <2> QED BY <2>1, <2>2
<1>7. ASSUME NEW m \in L, NEW h \in L, m # h PROVE ToSet(cs2[m]) \cap ToSet(cs2[h]) = {}
  <2>1. ToSet(cs[m]) \cap ToSet(cs[h]) = {}
    BY <1>7 DEF Heap
  <2>2. CASE m # l /\ h # l
    BY <2>1, <2>2, <1>1
  <2>3. CASE m = l
    <3>1. h # l /\ ToSet(cs[h]) \subseteq K
      BY <2>3, <1>2, <1>7
    <3> QED BY <2>3, <3>1, <1>1
  <2>4. CASE h = l
    <3>1. m # l /\ ToSet(cs[m]) \subseteq K
      BY <2>4, <1>2, <1>7
    <3> QED BY <2>4, <3>1, <1>1
  <2> QED BY <2>2, <2>3, <2>4
<1>8. K \cup ToSet(t) = UNION {ToSet(cs2[m]) : m \in L}
  <2>1. ASSUME NEW b \in K PROVE \E m \in L : b \in ToSet(cs2[m])
    <3>1. PICK m \in L : b \in ToSet(cs[m])
      BY DEF Heap, Kept
    <3>2. m # l
      BY <3>1 DEF Kept
    <3> QED BY <3>1, <3>2, <1>1
  <2>2. ASSUME NEW m \in L PROVE ToSet(cs2[m]) \subseteq K \cup ToSet(t)
    BY <1>1, <1>2
  <2> QED BY <2>1, <2>2, <1>1
<1>9. DOMAIN info2 = K \cup ToSet(t) /\ DOMAIN link2 = K \cup ToSet(t)
  OBVIOUS
<1>10. Heap(A, T, L, info2, link2, cs2)
  <2>1. DOMAIN info2 \subseteq A
    BY <1>4, <1>5, <1>9
  <2>2. info2 \in [DOMAIN info2 -> T] /\ link2 \in [DOMAIN info2 -> A \cup {0}]
    BY <1>9
  <2>3. DOMAIN info2 = UNION {ToSet(cs2[m]) : m \in L}
    BY <1>8, <1>9
  <2> QED BY ONLY <2>1, <2>2, <2>3, <1>1, <1>6, <1>7, Zenon DEF Heap
<1>11. Items(L, info2, cs2) = [Items(L, info, cs) EXCEPT ![l] = N!Values(info2, t)]
  <2>1. ASSUME NEW m \in L, m # l PROVE N!Values(info2, cs[m]) = N!Values(info, cs[m])
    <3>1. cs[m] \in Seq(A)
      BY DEF Heap
    <3>2. \A i \in 1..Len(cs[m]) : cs[m][i] \in ToSet(cs[m])
      BY <3>1, ToSetIs
    <3>3. \A i \in 1..Len(cs[m]) : info2[cs[m][i]] = info[cs[m][i]]
      BY <3>2, <2>1, <1>2
    <3> QED BY <3>3 DEF N!Values
  <2>2. \A m \in L : Items(L, info2, cs2)[m] = IF m = l THEN N!Values(info2, t) ELSE N!Values(info, cs[m])
    BY <2>1, <1>1 DEF Items
  <2>3. Items(L, info2, cs2) = [m \in L |-> IF m = l THEN N!Values(info2, t) ELSE N!Values(info, cs[m])]
    BY <2>2 DEF Items
  <2>4. [Items(L, info, cs) EXCEPT ![l] = N!Values(info2, t)]
          = [m \in L |-> IF m = l THEN N!Values(info2, t) ELSE N!Values(info, cs[m])]
    BY DEF Items
  <2> QED BY <2>3, <2>4
<1> QED BY <1>10, <1>11 DEF cs2, Becomes

-----------------------------------------------------------------------------
(* The elements of a chain, and where one is first found in it. *)
LEMMA ValuesAre ==
  ASSUME NEW A, NEW T, NEW s \in Seq(A), NEW info, \A b \in ToSet(s) : info[b] \in T
  PROVE  /\ N!Values(info, s) \in Seq(T) /\ Len(N!Values(info, s)) = Len(s)
         /\ \A i \in 1..Len(s) : N!Values(info, s)[i] = info[s[i]]
<1>1. \A i \in 1..Len(s) : info[s[i]] \in T
  BY ToSetIs
<1> QED BY <1>1 DEF N!Values

LEMMA ValuesInsert ==
  ASSUME NEW A, NEW T, NEW s \in Seq(A), NEW info, \A b \in ToSet(s) : info[b] \in T,
         NEW k \in 1..Len(s) + 1, NEW a \in A, NEW x \in T, NEW info2,
         info2[a] = x, \A b \in ToSet(s) : info2[b] = info[b]
  PROVE  N!Values(info2, InsertAt(s, k, a)) = InsertAt(N!Values(info, s), k, x)
<1>1. PICK t : t = InsertAt(s, k, a) /\ IsInsert(A, s, k, a, t)
  BY InsertIs
<1>2. PICK v \in Seq(T) : /\ v = N!Values(info, s) /\ Len(v) = Len(s)
                          /\ \A i \in 1..Len(s) : v[i] = info[s[i]]
  <2>1. /\ N!Values(info, s) \in Seq(T) /\ Len(N!Values(info, s)) = Len(s)
        /\ \A i \in 1..Len(s) : N!Values(info, s)[i] = info[s[i]]
    BY ONLY s \in Seq(A), \A b \in ToSet(s) : info[b] \in T, ValuesAre
  <2> QED BY ONLY <2>1, Zenon
<1>3. PICK u : u = InsertAt(v, k, x) /\ IsInsert(T, v, k, x, u)
  <2>1. k \in 1..Len(v) + 1
    BY <1>2
  <2> QED BY <2>1, InsertIs
<1>4. PICK n \in Nat : n = Len(s) /\ k \in 1..n + 1
  OBVIOUS
<1>5. /\ t \in Seq(A) /\ Len(t) = n + 1 /\ u \in Seq(T) /\ Len(u) = n + 1
      /\ \A i \in 1..n + 1 : t[i] = IF i < k THEN s[i] ELSE IF i = k THEN a ELSE s[i - 1]
      /\ \A i \in 1..n + 1 : u[i] = IF i < k THEN v[i] ELSE IF i = k THEN x ELSE v[i - 1]
  BY ONLY <1>1, <1>2, <1>3, <1>4, Zenon DEF IsInsert
<1>6. \A i \in 1..n : v[i] = info[s[i]] /\ info2[s[i]] = info[s[i]]
  BY <1>2, <1>4, ToSetIs
<1>7. ASSUME NEW i \in 1..n + 1 PROVE info2[t[i]] = u[i]
  <2>1. CASE i < k
    <3>1. i \in 1..n
      BY <2>1, <1>4
    <3> QED BY <2>1, <3>1, <1>5, <1>6
  <2>2. CASE i = k
    BY <2>2, <1>5
  <2>3. CASE i > k
    <3>1. i - 1 \in 1..n /\ ~(i < k) /\ i # k
      BY <2>3, <1>4
    <3>2. t[i] = s[i - 1] /\ u[i] = v[i - 1]
      BY ONLY <3>1, <1>5, Zenon
    <3> QED BY ONLY <3>1, <3>2, <1>6, Zenon
  <2> QED BY <2>1, <2>2, <2>3, <1>4
<1>8. N!Values(info2, t) = [i \in 1..n + 1 |-> info2[t[i]]]
  BY <1>5 DEF N!Values
<1>9. u = [i \in 1..n + 1 |-> u[i]]
  BY <1>5
<1>10. N!Values(info2, t) = u
  BY <1>7, <1>8, <1>9
<1> QED BY ONLY <1>1, <1>2, <1>3, <1>10, Zenon

Agree(f, g, D) == \A b \in D : g[b] = f[b]
Holding(T, info, s) == \A b \in ToSet(s) : info[b] \in T

LEMMA ValuesRemove ==
  ASSUME NEW A, NEW T, NEW s \in Seq(A), NEW info, Holding(T, info, s),
         IsInjective(s), NEW k \in 1..Len(s), NEW info2, Agree(info, info2, ToSet(s) \ {s[k]})
  PROVE  N!Values(info2, RemoveAt(s, k)) = RemoveAt(N!Values(info, s), k)
<1>1. PICK t : t = RemoveAt(s, k) /\ IsRemove(A, s, k, t)
  BY RemoveIs
<1>2. PICK v \in Seq(T) : /\ v = N!Values(info, s) /\ Len(v) = Len(s)
                          /\ \A i \in 1..Len(s) : v[i] = info[s[i]]
  <2>1. /\ N!Values(info, s) \in Seq(T) /\ Len(N!Values(info, s)) = Len(s)
        /\ \A i \in 1..Len(s) : N!Values(info, s)[i] = info[s[i]]
    BY ONLY s \in Seq(A), Holding(T, info, s), ValuesAre DEF Holding
  <2> QED BY ONLY <2>1, Zenon
<1>3. PICK u : u = RemoveAt(v, k) /\ IsRemove(T, v, k, u)
  <2>1. k \in 1..Len(v)
    BY <1>2
  <2> QED BY <2>1, RemoveIs
<1>4. PICK n \in Nat : n = Len(s) /\ k \in 1..n
  OBVIOUS
<1>5. /\ t \in Seq(A) /\ Len(t) = n - 1 /\ u \in Seq(T) /\ Len(u) = n - 1
      /\ \A i \in 1..n - 1 : t[i] = IF i < k THEN s[i] ELSE s[i + 1]
      /\ \A i \in 1..n - 1 : u[i] = IF i < k THEN v[i] ELSE v[i + 1]
  BY ONLY <1>1, <1>2, <1>3, <1>4, Zenon DEF IsRemove
<1>6. \A i \in 1..n : i # k => v[i] = info[s[i]] /\ info2[s[i]] = info[s[i]]
  <2>1. \A i \in 1..n : s[i] \in ToSet(s)
    BY <1>4, ToSetIs
  <2>2. \A i \in 1..n : i # k => s[i] # s[k]
    BY <1>4 DEF IsInjective
  <2> QED BY <2>1, <2>2, <1>2, <1>4 DEF Agree
<1>7. ASSUME NEW i \in 1..n - 1 PROVE info2[t[i]] = u[i]
  <2>1. CASE i < k
    <3>1. i \in 1..n /\ i # k
      BY <2>1, <1>4
    <3> QED BY <2>1, <3>1, <1>5, <1>6
  <2>2. CASE ~(i < k)
    <3>1. i + 1 \in 1..n /\ i + 1 # k
      BY <2>2, <1>4
    <3>2. t[i] = s[i + 1] /\ u[i] = v[i + 1]
      BY ONLY <2>2, <1>5, Zenon
    <3> QED BY ONLY <3>1, <3>2, <1>6, Zenon
  <2> QED BY <2>1, <2>2
<1>8. N!Values(info2, t) = [i \in 1..n - 1 |-> info2[t[i]]]
  BY <1>5 DEF N!Values
<1>9. u = [i \in 1..n - 1 |-> u[i]]
  BY <1>5
<1>10. N!Values(info2, t) = u
  BY <1>7, <1>8, <1>9
<1> QED BY ONLY <1>1, <1>2, <1>3, <1>10, Zenon

(* The position of the first x among the elements, 0 if it is not there. *)
Find(v, x) == SelectInSeq(v, LAMBDA y : y = x)

LEMMA FindIs ==
  ASSUME NEW T, NEW v \in Seq(T), NEW x
  PROVE  \/ Find(v, x) = 0 /\ \A i \in 1..Len(v) : v[i] # x
         \/ /\ Find(v, x) \in 1..Len(v) /\ v[Find(v, x)] = x
            /\ \A i \in 1..Len(v) : v[i] = x => Find(v, x) <= i
<1> DEFINE I == {i \in 1..Len(v) : v[i] = x}
<1>1. Find(v, x) = IF I # {} THEN Min(I) ELSE 0
  BY DEF Find, SelectInSeq
<1>2. CASE I = {}
  BY <1>1, <1>2
<1>3. CASE I # {}
  <2>1. Min(I) \in I /\ \A i \in I : Min(I) <= i
    <3>1. I \subseteq Nat
      OBVIOUS
    <3> HIDE DEF I
    <3> QED BY <3>1, <1>3, MinProperties
  <2> QED BY <1>1, <1>3, <2>1
<1> QED BY <1>2, <1>3

LEMMA FindOnly ==
  ASSUME NEW T, NEW v \in Seq(T), NEW x, NEW k \in 1..Len(v), v[k] = x,
         \A i \in 1..k - 1 : v[i] # x
  PROVE  Find(v, x) = k
<1>1. PICK f : f = Find(v, x)
  OBVIOUS
<1>2. f \in 1..Len(v) /\ v[f] = x /\ f <= k
  BY <1>1, FindIs
<1>3. ~(f \in 1..k - 1)
  BY <1>2
<1> QED BY <1>1, <1>2, <1>3

LEMMA FirstWithIsFind ==
  ASSUME NEW A, NEW c \in Seq(A), NEW info, NEW x
  PROVE  N!FirstWith(info, c, x) = Find(N!Values(info, c), x)
<1> DEFINE v == N!Values(info, c)
           I == {i \in 1..Len(c) : info[c[i]] = x}
           J == {i \in 1..Len(v) : v[i] = x}
<1>1. Len(v) = Len(c) /\ \A i \in 1..Len(c) : v[i] = info[c[i]]
  <2>1. Len(c) \in Nat
    OBVIOUS
  <2> QED BY <2>1 DEF N!Values
<1>2. N!FirstWith(info, c, x) = IF I # {} THEN N!Min(I) ELSE 0
  BY DEF N!FirstWith, N!SelectInSeq
<1>3. Find(v, x) = IF J # {} THEN Min(J) ELSE 0
  BY DEF Find, SelectInSeq
<1>4. I = J
  BY <1>1
<1>5. N!Min(I) = Min(I)
  BY DEF N!Min, Min
<1> HIDE DEF I, J, v
<1>6. N!FirstWith(info, c, x) = Find(v, x)
  BY <1>2, <1>3, <1>4, <1>5
<1> QED BY <1>6 DEF v

LEMMA FirstFromIs ==
  ASSUME NEW A, NEW c \in Seq(A), NEW info, NEW x, x \in Nat,
         \A b \in ToSet(c) : info[b] \in Nat
  PROVE  /\ N!FirstFrom(info, c, x) \in 1..Len(c) + 1
         /\ \A i \in 1..N!FirstFrom(info, c, x) - 1 : info[c[i]] < x
         /\ N!FirstFrom(info, c, x) <= Len(c) => info[c[N!FirstFrom(info, c, x)]] >= x
<1> DEFINE I == {i \in 1..Len(c) : info[c[i]] >= x}
           m == IF I # {} THEN N!Min(I) ELSE 0
<1>1. N!FirstFrom(info, c, x) = IF m = 0 THEN Len(c) + 1 ELSE m
  BY DEF N!FirstFrom, N!SelectInSeq
<1>2. \A i \in 1..Len(c) : info[c[i]] \in Nat
  BY ToSetIs
<1>3. PICK f : f = N!FirstFrom(info, c, x)
  OBVIOUS
<1>4. CASE I = {}
  <2>1. f = Len(c) + 1 /\ Len(c) \in Nat
    BY <1>1, <1>3, <1>4
  <2>2. \A i \in 1..Len(c) : info[c[i]] < x
    BY <1>2, <1>4
  <2>3. f \in 1..Len(c) + 1 /\ f - 1 = Len(c) /\ ~(f <= Len(c))
    BY <2>1
  <2> QED BY <1>3, <2>2, <2>3
<1>5. CASE I # {}
  <2>1. N!Min(I) \in I /\ \A i \in I : N!Min(I) <= i
    <3>1. I \subseteq Nat
      OBVIOUS
    <3>2. N!Min(I) = Min(I)
      BY DEF N!Min, Min
    <3> HIDE DEF I
    <3> QED BY <3>1, <3>2, <1>5, MinProperties
  <2>2. f = N!Min(I) /\ f \in I /\ \A i \in I : f <= i
    <3>1. m = N!Min(I) /\ m # 0
      BY <1>5, <2>1
    <3> HIDE DEF m, I
    <3> QED BY <1>1, <1>3, <2>1, <3>1
  <2>3. f \in 1..Len(c) /\ info[c[f]] >= x
    BY <2>2
  <2>4. ASSUME NEW i \in 1..f - 1 PROVE info[c[i]] < x
    <3>1. i \in 1..Len(c) /\ ~(f <= i)
      BY <2>3
    <3>2. ~(i \in I)
      BY <2>2, <3>1
    <3> QED BY <3>1, <3>2, <1>2
  <2> QED BY <1>3, <2>3, <2>4
<1> QED BY <1>4, <1>5

-----------------------------------------------------------------------------
(* The fields of the objects, and of one object after another chain was    *)
(* put in it.                                                              *)
Firsts(L, cs)  == [l \in L |-> At(cs[l], 1)]
Lasts(L, cs)   == [l \in L |-> At(cs[l], Len(cs[l]))]
Lengths(L, cs) == [l \in L |-> Len(cs[l])]

SetTo(L, cs, ds, l, t) == l \in L /\ ds[l] = t /\ \A m \in L : m # l => ds[m] = cs[m]

LEMMA FieldsSet ==
  ASSUME NEW L, NEW cs, NEW ds, NEW l, NEW t, SetTo(L, cs, ds, l, t)
  PROVE  /\ Firsts(L, ds) = [Firsts(L, cs) EXCEPT ![l] = At(t, 1)]
         /\ Lasts(L, ds) = [Lasts(L, cs) EXCEPT ![l] = At(t, Len(t))]
         /\ Lengths(L, ds) = [Lengths(L, cs) EXCEPT ![l] = Len(t)]
<1>0. l \in L
  BY DEF SetTo
<1>1. ds[l] = t /\ \A m \in L : m # l => ds[m] = cs[m]
  BY DEF SetTo
<1>2. Firsts(L, ds) = [Firsts(L, cs) EXCEPT ![l] = At(t, 1)]
  <2> HIDE DEF At
  <2> QED BY ONLY <1>1, <1>0 DEF Firsts
<1>3. Lasts(L, ds) = [Lasts(L, cs) EXCEPT ![l] = At(t, Len(t))]
  BY ONLY <1>1, <1>0 DEF Lasts
<1>4. Lengths(L, ds) = [Lengths(L, cs) EXCEPT ![l] = Len(t)]
  BY ONLY <1>1, <1>0 DEF Lengths
<1> QED BY <1>2, <1>3, <1>4

(* What the code makes of the last node when one is deleted. *)
LEMMA LastAfterRemove ==
  ASSUME NEW s, s \in Seq(Nat \ {0}), IsInjective(s), NEW k, k \in 1..Len(s)
  PROVE  /\ At(RemoveAt(s, k), Len(RemoveAt(s, k))) =
              IF k = 1 /\ At(s, 2) = 0 THEN 0
              ELSE IF k > 1 /\ At(s, Len(s)) = s[k] THEN s[k - 1] ELSE At(s, Len(s))
         /\ At(RemoveAt(s, k), 1) = IF k = 1 THEN At(s, 2) ELSE At(s, 1)
         /\ Len(RemoveAt(s, k)) = Len(s) - 1
         /\ At(s, Len(s)) = s[k] <=> k = Len(s)
<1>1. PICK n \in Nat : n = Len(s) /\ k \in 1..n /\ n \in 1..n
  OBVIOUS
<1>2. s \in Seq(Nat) /\ DOMAIN s = 1..n
  BY <1>1
<1>3. /\ At(RemoveAt(s, k), 1) = IF k = 1 THEN At(s, 2) ELSE At(s, 1)
      /\ At(RemoveAt(s, k), n - 1) = IF k = n THEN At(s, n - 1) ELSE At(s, n)
  BY <1>1, <1>2, RemoveEnds
<1>4. IsRemove(Nat, s, k, RemoveAt(s, k))
  BY <1>1, <1>2, RemoveIs
<1>5. Len(RemoveAt(s, k)) = n - 1
  BY ONLY <1>4, <1>1, Zenon DEF IsRemove
<1>6. At(s, n) = s[n] /\ (s[n] = s[k] <=> n = k)
  <2>1. n \in DOMAIN s /\ k \in DOMAIN s
    BY <1>1, <1>2
  <2>2. s[n] = s[k] => n = k
    BY ONLY <2>1, IsInjective(s), Zenon DEF IsInjective
  <2> QED BY <2>2, <1>1 DEF At
<1>7. CASE n = 1
  BY <1>1, <1>3, <1>5, <1>6, <1>7 DEF At
<1>8. CASE n # 1
  <2>1. At(s, 2) # 0
    BY <1>1, <1>8 DEF At
  <2>2. CASE k = n
    <3>1. k > 1 /\ At(s, n - 1) = s[k - 1]
      BY <1>1, <1>8, <2>2 DEF At
    <3> QED BY <1>1, <1>3, <1>5, <1>6, <2>1, <2>2, <3>1
  <2>3. CASE k # n
    BY <1>1, <1>3, <1>5, <1>6, <2>1, <2>3
  <2> QED BY <2>2, <2>3
<1> QED BY <1>7, <1>8

(* The steps of the structures on such a heap. *)
Room(A) == A \subseteq Nat \ {0} /\ IsFiniteSet(A)

LEMMA HeapFacts ==
  ASSUME NEW A, Room(A), NEW T, NEW L, NEW info, NEW link, NEW cs, Heap(A, T, L, info, link, cs),
         NEW l \in L
  PROVE  /\ cs[l] \in Seq(A) /\ cs[l] \in Seq(Nat) /\ Len(cs[l]) \in Nat
         /\ ToSet(cs[l]) \subseteq DOMAIN info /\ DOMAIN link = DOMAIN info
         /\ \A i, j \in 1..Len(cs[l]) : cs[l][i] = cs[l][j] => i = j
         /\ \A i \in 1..Len(cs[l]) : /\ cs[l][i] \in ToSet(cs[l]) /\ cs[l][i] \in A
                                     /\ link[cs[l][i]] = At(cs[l], i + 1)
         /\ \A b \in ToSet(cs[l]) : info[b] \in T
         /\ N!Chain(link, At(cs[l], 1)) = cs[l] /\ N!Proper(link, At(cs[l], 1))
         /\ Len(cs[l]) <= Cardinality(A)
<1>1. cs[l] \in Seq(A) /\ Linked(link, At(cs[l], 1), cs[l]) /\ DOMAIN link = DOMAIN info
  BY DEF Heap
<1>2. cs[l] \in Seq(Nat)
  BY <1>1 DEF Linked
<1>3. ToSet(cs[l]) \subseteq DOMAIN info
  BY DEF Heap
<1>4. \A b \in ToSet(cs[l]) : info[b] \in T
  BY <1>3 DEF Heap
<1>5. \A i, j \in 1..Len(cs[l]) : cs[l][i] = cs[l][j] => i = j
  BY <1>1 DEF Linked, IsInjective
<1>6. \A i \in 1..Len(cs[l]) : /\ cs[l][i] \in ToSet(cs[l]) /\ cs[l][i] \in A
                               /\ link[cs[l][i]] = At(cs[l], i + 1)
  <2>1. \A i \in 1..Len(cs[l]) : link[cs[l][i]] = At(cs[l], i + 1)
    BY <1>1 DEF Linked
  <2>2. \A i \in 1..Len(cs[l]) : cs[l][i] \in ToSet(cs[l]) /\ cs[l][i] \in A
    BY <1>1, ToSetIs
  <2> QED BY <2>1, <2>2
<1>7. Pointers(link) /\ Cardinality(DOMAIN link) <= Cardinality(A) /\ Cardinality(A) \in Nat
  <2>1. DOMAIN link \subseteq A /\ \A a \in DOMAIN link : link[a] \in A \cup {0}
    BY DEF Heap
  <2>2. IsFiniteSet(A)
    BY DEF Room
  <2>3. IsFiniteSet(DOMAIN link) /\ Cardinality(DOMAIN link) <= Cardinality(A)
    BY <2>1, <2>2, FS_Subset
  <2>4. Cardinality(A) \in Nat
    BY <2>2, FS_CardinalityType
  <2>0. A \subseteq Nat \ {0}
    BY Zenon DEF Room
  <2>5. DOMAIN link \subseteq Nat \ {0} /\ A \cup {0} \subseteq Nat
    <3>1. DOMAIN link \subseteq Nat \ {0}
      BY ONLY <2>0, <2>1, Zenon
    <3>2. A \cup {0} \subseteq Nat
      BY ONLY <2>0
    <3> QED BY ONLY <3>1, <3>2, Zenon
  <2>6. \A a \in DOMAIN link : link[a] \in Nat
    BY ONLY <2>1, <2>5, Zenon
  <2> QED BY ONLY <2>3, <2>4, <2>5, <2>6, Zenon DEF Pointers
<1>8. N!Chain(link, At(cs[l], 1)) = cs[l] /\ N!Proper(link, At(cs[l], 1))
  BY <1>1, <1>7, ChainIs, ProperIs
<1>9. Len(cs[l]) <= Cardinality(A) /\ Len(cs[l]) \in Nat
  <2>1. Len(cs[l]) \in Nat /\ Len(cs[l]) <= Cardinality(DOMAIN link) /\ Cardinality(DOMAIN link) \in Nat
    BY <1>1, <1>7, LinkedLength
  <2> QED BY <2>1, <1>7
<1> QED BY ONLY <1>1, <1>2, <1>3, <1>4, <1>5, <1>6, <1>8, <1>9, Zenon

LEMMA HeapEmpty ==
  ASSUME NEW A, NEW T, NEW L, NEW info, NEW link, NEW cs,
         info = <<>>, link = <<>>, cs = [l \in L |-> <<>>]
  PROVE  Heap(A, T, L, info, link, cs) /\ Items(L, info, cs) = [l \in L |-> <<>>]
<1>1. DOMAIN info = {} /\ info \in [DOMAIN info -> T] /\ link \in [DOMAIN info -> A \cup {0}]
  OBVIOUS
<1>2. cs \in [L -> Seq(A)] /\ \A l \in L : cs[l] = <<>>
  OBVIOUS
<1>3. ToSet(<<>>) = {}
  BY DEF ToSet
<1>4. \A q : Linked(q, At(<<>>, 1), <<>>)
  BY DEF Linked, IsInjective, At
<1>5. Heap(A, T, L, info, link, cs)
  BY <1>1, <1>2, <1>3, <1>4 DEF Heap
<1>6. N!Values(info, <<>>) = <<>>
  BY DEF N!Values
<1> QED BY <1>2, <1>5, <1>6 DEF Items

LEMMA HeapInsert ==
  ASSUME NEW A, Room(A), NEW T, NEW L, NEW info, NEW link, NEW cs, Heap(A, T, L, info, link, cs),
         NEW l \in L, NEW k \in 1..Len(cs[l]) + 1, NEW a \in A, a \notin DOMAIN info, NEW x \in T,
         NEW info2, info2 = N!With(info, a, x), NEW link2,
         link2 = N!With(IF k = 1 THEN link ELSE [link EXCEPT ![cs[l][k - 1]] = a], a, At(cs[l], k))
  PROVE  Becomes(A, T, L, info, cs, l, InsertAt(cs[l], k, a), InsertAt(N!Values(info, cs[l]), k, x),
                 info2, link2)
<1> DEFINE K == Kept(info, cs[l])
<1>1. PICK s : s = cs[l]
  OBVIOUS
<1>2. /\ s \in Seq(A) /\ s \in Seq(Nat) /\ Len(s) \in Nat /\ ToSet(s) \subseteq DOMAIN info
      /\ DOMAIN link = DOMAIN info /\ \A b \in ToSet(s) : info[b] \in T
  BY <1>1, HeapFacts
<1>3. \A i \in 1..Len(s) : s[i] \in ToSet(s) /\ s[i] \in A
  BY <1>2, ToSetIs
<1>4. PICK t : t = InsertAt(s, k, a) /\ t \in Seq(A)
  <2>1. PICK t : t = InsertAt(s, k, a) /\ IsInsert(A, s, k, a, t)
    BY <1>1, <1>2, InsertIs
  <2> QED BY ONLY <2>1, Zenon DEF IsInsert
<1>5. k \in 1..Len(s) + 1 /\ a \notin ToSet(s) /\ a \in Nat /\ (k > 1 <=> k # 1)
  BY <1>1, <1>2 DEF Room
<1>6. k > 1 => k - 1 \in 1..Len(s)
  BY <1>5, <1>2
<1>7. At(s, k) \in A \cup {0}
  BY <1>3 DEF At
<1>8. link \in [DOMAIN info -> A \cup {0}] /\ info \in [DOMAIN info -> T]
  BY DEF Heap
<1>9. info2 \in [DOMAIN info \cup {a} -> T] /\ info2[a] = x /\ \A b \in DOMAIN info : info2[b] = info[b]
  BY <1>8 DEF N!With
<1>10. /\ DOMAIN link2 = DOMAIN info \cup {a} /\ link2[a] = At(s, k)
       /\ k > 1 => link2[s[k - 1]] = a
       /\ \A b \in DOMAIN info : ~(k > 1 /\ b = s[k - 1]) => link2[b] = link[b]
       /\ link2 = [b \in DOMAIN info \cup {a} |-> link2[b]]
  <2>1. PICK q : q = IF k = 1 THEN link ELSE [link EXCEPT ![s[k - 1]] = a]
    OBVIOUS
  <2>2. DOMAIN q = DOMAIN info /\ \A b \in DOMAIN info : q[b] = IF k > 1 /\ b = s[k - 1] THEN a ELSE link[b]
    BY <2>1, <1>2, <1>5
  <2>3. link2 = [b \in DOMAIN info \cup {a} |-> IF b = a THEN At(s, k) ELSE q[b]]
    BY <2>1, <2>2, <1>1 DEF N!With
  <2>4. k > 1 => s[k - 1] \in DOMAIN info /\ s[k - 1] # a
    BY <1>2, <1>3, <1>5, <1>6
  <2> HIDE DEF K
  <2> QED BY <2>2, <2>3, <2>4
<1>11. link2 \in [DOMAIN info \cup {a} -> A \cup {0}]
  <2>1. ASSUME NEW b \in DOMAIN info \cup {a} PROVE link2[b] \in A \cup {0}
    BY <1>7, <1>8, <1>10
  <2> QED BY ONLY <1>10, <2>1, Zenon
<1>12. Linked(link, At(s, 1), s)
  BY <1>1 DEF Heap
<1>13. Linked(link2, IF k = 1 THEN a ELSE At(s, 1), t) /\ ToSet(t) = ToSet(s) \cup {a}
  <2>1. \A b \in ToSet(s) : b \in DOMAIN link2 /\ (~(k > 1 /\ b = s[k - 1]) => link2[b] = link[b])
    BY <1>2, <1>10
  <2>2. a \in DOMAIN link2
    BY <1>10
  <2>3. /\ Linked(link2, IF k = 1 THEN a ELSE At(s, 1), InsertAt(s, k, a))
        /\ ToSet(InsertAt(s, k, a)) = ToSet(s) \cup {a}
    <3>1. Inserted(link, link2, s, k, a)
      BY ONLY <1>5, <1>10, <2>1, <2>2, Zenon DEF Inserted
    <3>2. k \in 1..Len(s) + 1 /\ a \in Nat
      BY ONLY <1>5, Zenon
    <3> QED BY ONLY <1>12, <3>1, <3>2, LinkedInsert
  <2> QED BY ONLY <2>3, <1>4, Zenon
<1>14. (IF k = 1 THEN a ELSE At(s, 1)) = At(t, 1)
  BY <1>2, <1>4, <1>5, InsertEnds
<1>15. /\ ToSet(t) \cap K = {} /\ K \cup ToSet(t) = DOMAIN info \cup {a}
       /\ \A b \in K : info2[b] = info[b] /\ link2[b] = link[b]
  <2>1. \A b \in K : ~(k > 1 /\ b = s[k - 1])
    BY <1>1, <1>3, <1>6 DEF Kept
  <2> QED BY <2>1, <1>1, <1>2, <1>9, <1>10, <1>13 DEF Kept
<1>16. N!Values(info2, t) = InsertAt(N!Values(info, s), k, x)
  <2>1. \A b \in ToSet(s) : info2[b] = info[b]
    BY <1>2, <1>9
  <2>2. N!Values(info2, InsertAt(s, k, a)) = InsertAt(N!Values(info, s), k, x)
    BY ONLY a \in A, x \in T, <1>2, <1>5, <1>9, <2>1, ValuesInsert
  <2> QED BY ONLY <2>2, <1>4, Zenon
<1>17. Linked(link2, At(t, 1), t)
  BY ONLY <1>13, <1>14, Zenon
<1>18. info2 \in [K \cup ToSet(t) -> T] /\ link2 \in [K \cup ToSet(t) -> A \cup {0}]
  BY ONLY <1>9, <1>11, <1>15, Zenon
<1>19. Becomes(A, T, L, info, cs, l, t, N!Values(info2, t), info2, link2)
  <2>1. Replaces(A, T, info, link, cs[l], t, info2, link2)
    BY ONLY <1>4, <1>15, <1>17, <1>18, Zenon DEF Replaces
  <2> HIDE DEF K
  <2> QED BY ONLY Heap(A, T, L, info, link, cs), l \in L, <2>1, HeapReplace
<1> QED BY ONLY <1>1, <1>4, <1>16, <1>19, Zenon

LEMMA HeapRemove ==
  ASSUME NEW A, Room(A), NEW T, NEW L, NEW info, NEW link, NEW cs, Heap(A, T, L, info, link, cs),
         NEW l \in L, NEW k \in 1..Len(cs[l]),
         NEW info2, info2 = N!Without(info, {cs[l][k]}), NEW link2,
         link2 = N!Without(IF k = 1 THEN link ELSE [link EXCEPT ![cs[l][k - 1]] = link[cs[l][k]]], {cs[l][k]})
  PROVE  Becomes(A, T, L, info, cs, l, RemoveAt(cs[l], k), RemoveAt(N!Values(info, cs[l]), k),
                 info2, link2)
<1> DEFINE K == Kept(info, cs[l])
<1>1. PICK s : s = cs[l]
  OBVIOUS
<1>2. /\ s \in Seq(A) /\ s \in Seq(Nat) /\ Len(s) \in Nat /\ ToSet(s) \subseteq DOMAIN info
      /\ DOMAIN link = DOMAIN info /\ \A b \in ToSet(s) : info[b] \in T
      /\ \A i, j \in 1..Len(s) : s[i] = s[j] => i = j
      /\ \A i \in 1..Len(s) : s[i] \in ToSet(s) /\ s[i] \in A /\ link[s[i]] = At(s, i + 1)
  BY <1>1, HeapFacts
<1>4. PICK t : t = RemoveAt(s, k) /\ t \in Seq(A)
  <2>1. PICK t : t = RemoveAt(s, k) /\ IsRemove(A, s, k, t)
    BY <1>1, <1>2, RemoveIs
  <2> QED BY ONLY <2>1, Zenon DEF IsRemove
<1>5. k \in 1..Len(s) /\ (k > 1 <=> k # 1)
  BY <1>1, <1>2
<1>6. k > 1 => k - 1 \in 1..Len(s) /\ k - 1 # k
  BY <1>5, <1>2
<1>7. PICK g : g = s[k] /\ g \in ToSet(s) /\ g \in DOMAIN info /\ link[g] = At(s, k + 1)
  BY <1>2, <1>5
<1>8. link \in [DOMAIN info -> A \cup {0}] /\ info \in [DOMAIN info -> T]
  BY DEF Heap
<1>9. info2 \in [DOMAIN info \ {g} -> T] /\ \A b \in DOMAIN info \ {g} : info2[b] = info[b]
  BY <1>1, <1>7, <1>8 DEF N!Without, N!Restrict
<1>10. /\ DOMAIN link2 = DOMAIN info \ {g}
       /\ k > 1 => link2[s[k - 1]] = link[g]
       /\ \A b \in DOMAIN info \ {g} : ~(k > 1 /\ b = s[k - 1]) => link2[b] = link[b]
       /\ link2 = [b \in DOMAIN info \ {g} |-> link2[b]]
       /\ \A b \in DOMAIN info \ {g} : link2[b] \in {link[b], link[g]}
  <2>1. PICK q : q = IF k = 1 THEN link ELSE [link EXCEPT ![s[k - 1]] = link[g]]
    OBVIOUS
  <2>2. DOMAIN q = DOMAIN info /\ \A b \in DOMAIN info : q[b] = IF k > 1 /\ b = s[k - 1] THEN link[g] ELSE link[b]
    BY <2>1, <1>2, <1>5
  <2>3. link2 = [b \in DOMAIN info \ {g} |-> q[b]]
    BY <2>1, <2>2, <1>1, <1>7 DEF N!Without, N!Restrict
  <2>4. k > 1 => s[k - 1] \in DOMAIN info \ {g}
    BY <1>2, <1>5, <1>6, <1>7
  <2> HIDE DEF K
  <2> QED BY <2>2, <2>3, <2>4
<1>11. link2 \in [DOMAIN info \ {g} -> A \cup {0}]
  <2>1. ASSUME NEW b \in DOMAIN info \ {g} PROVE link2[b] \in A \cup {0}
    BY <1>7, <1>8, <1>10
  <2> QED BY ONLY <1>10, <2>1, Zenon
<1>12. Linked(link, At(s, 1), s)
  BY <1>1 DEF Heap
<1>13. Linked(link2, IF k = 1 THEN link[s[k]] ELSE At(s, 1), t) /\ ToSet(t) = ToSet(s) \ {g}
  <2>1. \A b \in ToSet(s) \ {s[k]} :
           b \in DOMAIN link2 /\ (~(k > 1 /\ b = s[k - 1]) => link2[b] = link[b])
    BY <1>2, <1>7, <1>10
  <2>2. k > 1 => link2[s[k - 1]] = link[s[k]]
    BY <1>7, <1>10
  <2>3. /\ Linked(link2, IF k = 1 THEN link[s[k]] ELSE At(s, 1), RemoveAt(s, k))
        /\ ToSet(RemoveAt(s, k)) = ToSet(s) \ {s[k]}
    BY ONLY <1>5, <1>12, <2>1, <2>2, LinkedRemove
  <2> QED BY ONLY <2>3, <1>4, <1>7, Zenon
<1>14. (IF k = 1 THEN link[s[k]] ELSE At(s, 1)) = At(t, 1)
  <2>1. At(t, 1) = IF k = 1 THEN At(s, 2) ELSE At(s, 1)
    BY <1>2, <1>4, <1>5, RemoveEnds
  <2>2. k = 1 => link[s[k]] = At(s, 2)
    BY <1>7
  <2> QED BY ONLY <2>1, <2>2, Zenon
<1>15. /\ ToSet(t) \cap K = {} /\ K \cup ToSet(t) = DOMAIN info \ {g}
       /\ \A b \in K : info2[b] = info[b] /\ link2[b] = link[b]
  <2>1. \A b \in K : ~(k > 1 /\ b = s[k - 1])
    BY <1>1, <1>2, <1>6 DEF Kept
  <2>2. K \subseteq DOMAIN info \ {g}
    BY <1>1, <1>7 DEF Kept
  <2> QED BY <2>1, <2>2, <1>1, <1>2, <1>9, <1>10, <1>13 DEF Kept
<1>16. N!Values(info2, t) = RemoveAt(N!Values(info, s), k)
  <2>1. \A b \in ToSet(s) \ {s[k]} : info2[b] = info[b]
    BY <1>2, <1>7, <1>9
  <2>2. N!Values(info2, RemoveAt(s, k)) = RemoveAt(N!Values(info, s), k)
    <3>1. IsInjective(s) /\ Agree(info, info2, ToSet(s) \ {s[k]})
      BY <1>12, <2>1 DEF Linked, Agree
    <3>2. s \in Seq(A) /\ k \in 1..Len(s) /\ Holding(T, info, s)
      BY ONLY <1>2, <1>5, Zenon DEF Holding
    <3> QED BY ONLY <3>1, <3>2, ValuesRemove
  <2> QED BY ONLY <2>2, <1>4, Zenon
<1>17. Linked(link2, At(t, 1), t)
  BY ONLY <1>13, <1>14, Zenon
<1>18. info2 \in [K \cup ToSet(t) -> T] /\ link2 \in [K \cup ToSet(t) -> A \cup {0}]
  BY ONLY <1>9, <1>11, <1>15, Zenon
<1>19. Becomes(A, T, L, info, cs, l, t, N!Values(info2, t), info2, link2)
  <2>1. Replaces(A, T, info, link, cs[l], t, info2, link2)
    BY ONLY <1>4, <1>15, <1>17, <1>18, Zenon DEF Replaces
  <2> HIDE DEF K
  <2> QED BY ONLY Heap(A, T, L, info, link, cs), l \in L, <2>1, HeapReplace
<1> QED BY ONLY <1>1, <1>4, <1>16, <1>19, Zenon

LEMMA HeapClear ==
  ASSUME NEW A, Room(A), NEW T, NEW L, NEW info, NEW link, NEW cs, Heap(A, T, L, info, link, cs),
         NEW l \in L, NEW info2, info2 = N!Without(info, ToSet(cs[l])),
         NEW link2, link2 = N!Without(link, ToSet(cs[l]))
  PROVE  Becomes(A, T, L, info, cs, l, <<>>, <<>>, info2, link2)
<1>1. DOMAIN link = DOMAIN info /\ link \in [DOMAIN info -> A \cup {0}] /\ info \in [DOMAIN info -> T]
  BY DEF Heap
<1>2. PICK t \in Seq(A) : t = <<>>
  <2>1. <<>> \in Seq(A)
    OBVIOUS
  <2> QED BY ONLY <2>1, Zenon
<1>3. ToSet(t) = {} /\ Linked(link2, At(t, 1), t)
  BY <1>2 DEF ToSet, Linked, IsInjective, At
<1>4. /\ info2 \in [Kept(info, cs[l]) \cup ToSet(t) -> T]
      /\ link2 \in [Kept(info, cs[l]) \cup ToSet(t) -> A \cup {0}]
      /\ \A b \in Kept(info, cs[l]) : info2[b] = info[b] /\ link2[b] = link[b]
      /\ ToSet(t) \cap Kept(info, cs[l]) = {}
  BY <1>1, <1>3 DEF Kept, N!Without, N!Restrict
<1>5. Becomes(A, T, L, info, cs, l, t, N!Values(info2, t), info2, link2)
  <2>1. Replaces(A, T, info, link, cs[l], t, info2, link2)
    BY ONLY t \in Seq(A), <1>3, <1>4, Zenon DEF Replaces
  <2> QED BY ONLY Heap(A, T, L, info, link, cs), l \in L, <2>1, HeapReplace
<1>6. N!Values(info2, t) = <<>>
  BY <1>2 DEF N!Values
<1> QED BY ONLY <1>2, <1>5, <1>6, Zenon

Copied(info, link, kept, c, new, info2, link2) ==
  /\ Len(new) = Len(c) /\ ToSet(new) \cap kept = {}
  /\ info2 = [b \in kept \cup ToSet(new) |-> info2[b]]
  /\ link2 = [b \in kept \cup ToSet(new) |-> link2[b]]
  /\ \A b \in kept : info2[b] = info[b] /\ link2[b] = link[b]
  /\ \A i \in 1..Len(new) : info2[new[i]] = info[c[i]] /\ link2[new[i]] = At(new, i + 1)

LEMMA HeapCopy ==
  ASSUME NEW A, Room(A), NEW T, NEW L, NEW info, NEW link, NEW cs, Heap(A, T, L, info, link, cs),
         NEW l \in L, NEW m \in L, NEW new \in Seq(A), IsInjective(new),
         NEW info2, NEW link2, Copied(info, link, Kept(info, cs[l]), cs[m], new, info2, link2)
  PROVE  Becomes(A, T, L, info, cs, l, new, N!Values(info, cs[m]), info2, link2)
<1> DEFINE K == Kept(info, cs[l])
           D == K \cup ToSet(new)
<1>0. /\ Len(new) = Len(cs[m]) /\ ToSet(new) \cap Kept(info, cs[l]) = {}
      /\ info2 = [b \in Kept(info, cs[l]) \cup ToSet(new) |-> info2[b]]
      /\ link2 = [b \in Kept(info, cs[l]) \cup ToSet(new) |-> link2[b]]
      /\ \A b \in Kept(info, cs[l]) : info2[b] = info[b] /\ link2[b] = link[b]
      /\ \A i \in 1..Len(new) : info2[new[i]] = info[cs[m][i]] /\ link2[new[i]] = At(new, i + 1)
  BY Zenon DEF Copied
<1>1. DOMAIN link = DOMAIN info /\ link \in [DOMAIN info -> A \cup {0}] /\ info \in [DOMAIN info -> T]
  BY DEF Heap
<1>2. ToSet(new) = {new[i] : i \in 1..Len(new)}
  BY ToSetIs
<1>3. Len(new) \in Nat /\ new \in Seq(Nat) /\ \A i \in 1..Len(new) : new[i] \in A
  BY <1>0 DEF Room
<1>4. \A i \in 1..Len(new) : info[cs[m][i]] \in T
  <2>1. (\A i \in 1..Len(cs[m]) : cs[m][i] \in ToSet(cs[m])) /\ \A b \in ToSet(cs[m]) : info[b] \in T
    BY HeapFacts
  <2> QED BY <2>1, <1>0
<1>5. \A i \in 1..Len(new) : At(new, i + 1) \in A \cup {0}
  BY <1>3 DEF At
<1>6. \A b \in D : info2[b] \in T /\ link2[b] \in A \cup {0}
  <2>1. \A b \in K : info[b] \in T /\ link[b] \in A \cup {0}
    BY <1>1 DEF Kept
  <2>2. \A b \in K : info2[b] \in T /\ link2[b] \in A \cup {0}
    BY <2>1, <1>0
  <2>3. \A i \in 1..Len(new) : info2[new[i]] \in T /\ link2[new[i]] \in A \cup {0}
    BY <1>0, <1>4, <1>5
  <2> QED BY <2>2, <2>3, <1>2
<1>7. info2 \in [D -> T] /\ link2 \in [D -> A \cup {0}]
  <2>1. info2 = [b \in D |-> info2[b]] /\ link2 = [b \in D |-> link2[b]]
    BY <1>0
  <2> HIDE DEF D
  <2> QED BY ONLY <1>6, <2>1, Zenon
<1>8. Linked(link2, At(new, 1), new)
  <2>1. \A i \in 1..Len(new) : new[i] \in DOMAIN link2
    BY <1>2, <1>7
  <2> QED BY <2>1, <1>0, <1>3 DEF Linked
<1>9. Becomes(A, T, L, info, cs, l, new, N!Values(info2, new), info2, link2)
  <2>1. Replaces(A, T, info, link, cs[l], new, info2, link2)
    BY <1>0, <1>7, <1>8, Zenon DEF Replaces
  <2> QED BY ONLY Heap(A, T, L, info, link, cs), l \in L, <2>1, HeapReplace
<1>10. N!Values(info2, new) = N!Values(info, cs[m])
  BY <1>0 DEF N!Values
<1> QED BY ONLY <1>9, <1>10, Zenon

(* The function that tells where a node of a sequence of new nodes stands. *)
LEMMA PlaceIs ==
  ASSUME NEW S, NEW s \in Seq(S), IsInjective(s), NEW i \in 1..Len(s)
  PROVE  N!Inverse(s, 1..Len(s), ToSet(s))[s[i]] = i
<1>1. DOMAIN s = 1..Len(s)
  OBVIOUS
<1>2. s[i] \in ToSet(s) /\ s[i] \in N!Range(s)
  BY <1>1 DEF ToSet, N!Range
<1> DEFINE P(j) == s[i] \in N!Range(s) => s[j] = s[i]
           c == CHOOSE j \in 1..Len(s) : P(j)
<1>3. N!Inverse(s, 1..Len(s), ToSet(s))[s[i]] = c
  BY <1>2 DEF N!Inverse
<1>4. c \in 1..Len(s) /\ P(c)
  <2>1. \E j \in 1..Len(s) : P(j)
    OBVIOUS
  <2> HIDE DEF P
  <2> QED BY <2>1
<1> HIDE DEF c
<1>5. c = i
  BY <1>1, <1>2, <1>4 DEF IsInjective
<1> QED BY <1>3, <1>5

(* The nodes of a copy and their places, in the two ways the code links    *)
(* them.                                                                   *)
Copies(A, new, c, kept) ==
  new \in [1..Len(c) -> A \ kept] /\ IsInjective(new)
PlaceOf(new, c) == N!Inverse(new, 1..Len(c), ToSet(new))
CopyInfo(info, new, c, kept) ==
  [a \in kept \cup ToSet(new) |-> IF a \in kept THEN info[a] ELSE info[c[PlaceOf(new, c)[a]]]]
CopyLink(link, new, c, kept) ==
  [a \in kept \cup ToSet(new) |->
     IF a \in kept THEN link[a]
     ELSE IF PlaceOf(new, c)[a] = Len(c) THEN 0 ELSE new[PlaceOf(new, c)[a] + 1]]

KeptOf(link, cs, l, kept) == kept = DOMAIN link \ ToSet(cs[l])

LEMMA CopyIs ==
  ASSUME NEW A, Room(A), NEW T, NEW L, NEW info, NEW link, NEW cs, Heap(A, T, L, info, link, cs),
         NEW l, l \in L, NEW m, m \in L, NEW kept, KeptOf(link, cs, l, kept),
         NEW new, Copies(A, new, cs[m], kept)
  PROVE  /\ new \in Seq(A) /\ Len(new) = Len(cs[m])
         /\ Becomes(A, T, L, info, cs, l, new, N!Values(info, cs[m]),
                    CopyInfo(info, new, cs[m], kept), CopyLink(link, new, cs[m], kept))
<1>1. PICK c : c = cs[m]
  OBVIOUS
<1>2. c \in Seq(A) /\ Len(c) \in Nat /\ DOMAIN link = DOMAIN info
  <2>1. cs[m] \in Seq(A) /\ Len(cs[m]) \in Nat /\ DOMAIN link = DOMAIN info
    BY HeapFacts
  <2> QED BY <2>1, <1>1
<1>3. PICK n \in Nat : n = Len(c)
  BY <1>2
<1>4. new \in [1..n -> A \ kept] /\ IsInjective(new)
  BY <1>1, <1>3 DEF Copies
<1>5. new \in Seq(A) /\ Len(new) = n /\ DOMAIN new = 1..n
  <2>1. new \in [1..n -> A]
    BY <1>4
  <2> QED BY <2>1
<1>6. kept = Kept(info, cs[l])
  BY <1>2 DEF Kept, KeptOf
<1>7. ToSet(new) = {new[i] : i \in 1..n}
  BY <1>5, ToSetIs
<1>8. ToSet(new) \cap kept = {}
  BY <1>4, <1>7
<1>9. ASSUME NEW i \in 1..n PROVE PlaceOf(new, c)[new[i]] = i /\ new[i] \in ToSet(new) \ kept
  <2>1. N!Inverse(new, 1..Len(new), ToSet(new))[new[i]] = i
    BY <1>4, <1>5, PlaceIs
  <2> QED BY <2>1, <1>3, <1>5, <1>7, <1>8 DEF PlaceOf
<1>10. PICK info2 : info2 = CopyInfo(info, new, c, kept)
  OBVIOUS
<1>11. PICK link2 : link2 = CopyLink(link, new, c, kept)
  OBVIOUS
<1>12. ASSUME NEW i \in 1..n PROVE info2[new[i]] = info[c[i]] /\ link2[new[i]] = At(new, i + 1)
  <2>1. info2[new[i]] = info[c[i]]
    BY <1>9, <1>10 DEF CopyInfo
  <2>2. link2[new[i]] = IF i = n THEN 0 ELSE new[i + 1]
    BY <1>9, <1>11, <1>3 DEF CopyLink
  <2> QED BY <2>1, <2>2, <1>5 DEF At
<1>13. \A b \in kept : info2[b] = info[b] /\ link2[b] = link[b]
  BY <1>10, <1>11 DEF CopyInfo, CopyLink
<1>14. /\ info2 = [b \in kept \cup ToSet(new) |-> info2[b]]
       /\ link2 = [b \in kept \cup ToSet(new) |-> link2[b]]
  BY <1>10, <1>11 DEF CopyInfo, CopyLink
<1>15. Becomes(A, T, L, info, cs, l, new, N!Values(info, cs[m]), info2, link2)
  <2>1. Copied(info, link, Kept(info, cs[l]), cs[m], new, info2, link2)
    <3>1. Len(new) = Len(cs[m]) /\ ToSet(new) \cap Kept(info, cs[l]) = {}
      BY <1>1, <1>3, <1>5, <1>6, <1>8
    <3>2. \A b \in Kept(info, cs[l]) : info2[b] = info[b] /\ link2[b] = link[b]
      BY ONLY <1>6, <1>13, Zenon
    <3>3. \A i \in 1..Len(new) : info2[new[i]] = info[cs[m][i]] /\ link2[new[i]] = At(new, i + 1)
      BY ONLY <1>1, <1>5, <1>12, Zenon
    <3> QED BY ONLY <3>1, <3>2, <3>3, <1>14, <1>6, Zenon DEF Copied
  <2> QED BY ONLY <2>1, <1>5, <1>4, Room(A), Heap(A, T, L, info, link, cs), l \in L, m \in L, HeapCopy
<1> QED BY ONLY <1>1, <1>3, <1>5, <1>10, <1>11, <1>15, Zenon

-----------------------------------------------------------------------------
(* Elements in ascending order stay so. *)
Sorted(v) == \A i, j \in 1..Len(v) : i < j => v[i] <= v[j]

LEMMA SortedInsert ==
  ASSUME NEW v \in Seq(Nat), Sorted(v), NEW x \in Nat, NEW k \in 1..Len(v) + 1,
         \A i \in 1..k - 1 : v[i] < x, k <= Len(v) => v[k] >= x
  PROVE  Sorted(InsertAt(v, k, x))
<1>1. PICK t : t = InsertAt(v, k, x) /\ IsInsert(Nat, v, k, x, t)
  BY InsertIs
<1>2. PICK n \in Nat : n = Len(v) /\ k \in 1..n + 1
  OBVIOUS
<1>3. \A i \in 1..n + 1 : t[i] = IF i < k THEN v[i] ELSE IF i = k THEN x ELSE v[i - 1]
  BY ONLY <1>1, <1>2, Zenon DEF IsInsert
<1>4. Len(t) = n + 1
  BY ONLY <1>1, <1>2, Zenon DEF IsInsert
<1>5. \A i \in 1..n : v[i] \in Nat /\ (i >= k => v[i] >= x)
  <2>1. ASSUME NEW i \in 1..n, i >= k PROVE v[i] >= x
    <3>1. k \in 1..n /\ v[k] >= x /\ v[k] \in Nat /\ v[i] \in Nat
      BY <2>1, <1>2
    <3>2. i = k \/ k < i
      BY <2>1, <1>2
    <3>3. v[k] <= v[i]
      BY <3>1, <3>2, <1>2 DEF Sorted
    <3> QED BY <3>1, <3>3
  <2> QED BY <2>1, <1>2
<1>6. ASSUME NEW i \in 1..n + 1, NEW j \in 1..n + 1, i < j PROVE t[i] <= t[j]
  <2>1. /\ i < k => i \in 1..n /\ i \in 1..k - 1
        /\ i > k => i - 1 \in 1..n /\ i - 1 >= k
        /\ j < k => j \in 1..n /\ j \in 1..k - 1
        /\ j > k => j - 1 \in 1..n /\ j - 1 >= k
    BY <1>2
  <2>2. CASE j < k
    <3>1. i < k
      BY <2>2, <1>2, <1>6
    <3>2. v[i] <= v[j]
      BY <2>1, <2>2, <3>1, <1>2, <1>6 DEF Sorted
    <3> QED BY <2>2, <3>1, <3>2, <1>3
  <2>3. CASE j = k
    <3>1. i < k
      BY <2>3, <1>6
    <3>2. v[i] < x /\ v[i] \in Nat
      BY <2>1, <3>1, <1>5
    <3> QED BY <2>3, <3>1, <3>2, <1>3
  <2>4. CASE j > k
    <3>1. t[j] = v[j - 1] /\ j - 1 \in 1..n /\ v[j - 1] >= x /\ v[j - 1] \in Nat
      BY <2>1, <2>4, <1>3, <1>5
    <3>2. CASE i < k
      <4>1. t[i] = v[i] /\ v[i] < x /\ v[i] \in Nat
        BY <2>1, <3>2, <1>3, <1>5
      <4> QED BY <3>1, <4>1
    <3>3. CASE i = k
      BY <3>1, <3>3, <1>3
    <3>4. CASE i > k
      <4>1. t[i] = v[i - 1] /\ i - 1 \in 1..n /\ i - 1 < j - 1
        BY <2>1, <3>4, <1>3, <1>6
      <4> QED BY <3>1, <4>1, <1>2 DEF Sorted
    <3> QED BY <3>2, <3>3, <3>4, <1>2
  <2> QED BY <2>2, <2>3, <2>4, <1>2
<1> QED BY <1>1, <1>4, <1>6 DEF Sorted

LEMMA SortedRemove ==
  ASSUME NEW v \in Seq(Nat), Sorted(v), NEW k \in 1..Len(v)
  PROVE  Sorted(RemoveAt(v, k))
<1>1. PICK t : t = RemoveAt(v, k) /\ IsRemove(Nat, v, k, t)
  BY RemoveIs
<1>2. PICK n \in Nat : n = Len(v) /\ k \in 1..n
  OBVIOUS
<1>3. \A i \in 1..n - 1 : t[i] = IF i < k THEN v[i] ELSE v[i + 1]
  BY ONLY <1>1, <1>2, Zenon DEF IsRemove
<1>4. Len(t) = n - 1
  BY ONLY <1>1, <1>2, Zenon DEF IsRemove
<1> DEFINE o(i) == IF i < k THEN i ELSE i + 1
<1>5. \A i \in 1..n - 1 : o(i) \in 1..n /\ t[i] = v[o(i)]
  BY <1>2, <1>3
<1>6. \A i, j \in 1..n - 1 : i < j => o(i) < o(j)
  BY <1>2
<1> HIDE DEF o
<1>7. ASSUME NEW i \in 1..n - 1, NEW j \in 1..n - 1, i < j PROVE t[i] <= t[j]
  <2>1. o(i) \in 1..n /\ o(j) \in 1..n /\ o(i) < o(j) /\ t[i] = v[o(i)] /\ t[j] = v[o(j)]
    BY <1>5, <1>6, <1>7
  <2> QED BY <2>1, <1>2 DEF Sorted
<1> QED BY <1>1, <1>4, <1>7 DEF Sorted

(* The search of a sorted list, which stops at the first entry that is not *)
(* smaller.                                                                *)
LEMMA FindSorted ==
  ASSUME NEW v, v \in Seq(Nat), Sorted(v), NEW x, x \in Nat, NEW k, k \in 1..Len(v) + 1,
         \A i \in 1..k - 1 : v[i] < x, k <= Len(v) => v[k] >= x
  PROVE  /\ k <= Len(v) /\ v[k] = x => Find(v, x) = k
         /\ ~(k <= Len(v) /\ v[k] = x) => Find(v, x) = 0
<1>1. PICK n \in Nat : n = Len(v) /\ k \in 1..n + 1
  OBVIOUS
<1>2. \A i \in 1..n : v[i] \in Nat
  BY <1>1
<1>3. \A i \in 1..k - 1 : v[i] # x
  BY <1>1, <1>2
<1>4. ASSUME k <= n, v[k] = x PROVE Find(v, x) = k
  <2>1. k \in 1..Len(v)
    BY <1>1, <1>4
  <2> QED BY <2>1, <1>3, <1>4, FindOnly
<1>5. ASSUME ~(k <= n /\ v[k] = x) PROVE Find(v, x) = 0
  <2>1. ASSUME NEW i \in 1..n PROVE v[i] # x
    <3>1. CASE i < k
      <4>1. i \in 1..k - 1
        BY <3>1, <1>1
      <4> QED BY <4>1, <1>3
    <3>2. CASE i >= k
      <4>1. k <= n /\ k \in 1..n
        BY <3>2, <1>1
      <4>2. v[k] > x
        BY <4>1, <1>1, <1>2, <1>5
      <4>3. v[i] >= v[k]
        BY <3>2, <4>1, <1>1, <1>2 DEF Sorted
      <4> QED BY <4>1, <4>2, <4>3, <1>2
    <3> QED BY <3>1, <3>2, <1>1
  <2>2. \/ Find(v, x) = 0
        \/ Find(v, x) \in 1..n /\ v[Find(v, x)] = x
    BY <1>1, FindIs
  <2> QED BY <2>1, <2>2
<1> QED BY <1>1, <1>4, <1>5

(* Both ends of a sequence of nodes, and of what they hold; what an        *)
(* insertion makes of them.                                                *)
Ends(s) ==
  /\ At(s, 1) = 0 <=> s = <<>>
  /\ At(s, Len(s)) = 0 <=> s = <<>>
  /\ Len(s) = 0 <=> s = <<>>
  /\ s # <<>> => 1 \in 1..Len(s) /\ Len(s) \in 1..Len(s) /\ At(s, 1) = s[1] /\ At(s, Len(s)) = s[Len(s)]

LEMMA EndsAre ==
  ASSUME NEW A, Room(A), NEW s, s \in Seq(A)
  PROVE  Ends(s)
<1>1. PICK n \in Nat : n = Len(s) /\ (n = 0 <=> s = <<>>)
  BY EmptySeq
<1>2. \A i \in 1..n : s[i] \in Nat \ {0}
  <2>1. \A i \in 1..n : s[i] \in A
    BY <1>1
  <2>2. A \subseteq Nat \ {0}
    BY DEF Room
  <2> QED BY <2>1, <2>2
<1>3. n # 0 => 1 \in 1..n /\ n \in 1..n
  OBVIOUS
<1> QED BY <1>1, <1>2, <1>3 DEF Ends, At

ValueEnds(info, s, v) ==
  /\ v = <<>> <=> s = <<>>
  /\ Len(v) = Len(s)
  /\ s # <<>> => Head(v) = info[s[1]] /\ Last(v) = info[s[Len(s)]]

LEMMA ValueEndsAre ==
  ASSUME NEW S, NEW s, s \in Seq(S), NEW info
  PROVE  ValueEnds(info, s, N!Values(info, s))
<1>1. PICK n \in Nat : n = Len(s) /\ (n = 0 <=> s = <<>>)
  BY EmptySeq
<1>2. PICK v : v = [k \in 1..n |-> info[s[k]]]
  OBVIOUS
<1>3. N!Values(info, s) = v
  BY <1>1, <1>2 DEF N!Values
<1>4. PICK T : \A k \in 1..n : info[s[k]] \in T
  <2>1. \A k \in 1..n : info[s[k]] \in {info[s[i]] : i \in 1..n}
    OBVIOUS
  <2> QED BY <2>1
<1>5. v \in Seq(T) /\ Len(v) = n
  BY <1>2, <1>4
<1>6. n # 0 => Head(v) = v[1] /\ Last(v) = v[n] /\ 1 \in 1..n /\ n \in 1..n
  BY <1>5 DEF Last
<1>7. v = <<>> <=> n = 0
  BY <1>5, EmptySeq
<1> QED BY <1>1, <1>2, <1>3, <1>5, <1>6, <1>7 DEF ValueEnds

InsertEnd(s, k, a, t) ==
  /\ At(t, 1) = IF k = 1 THEN a ELSE At(s, 1)
  /\ At(t, Len(t)) = IF k = Len(s) + 1 THEN a ELSE At(s, Len(s))
  /\ Len(t) = Len(s) + 1

LEMMA InsertEndIs ==
  ASSUME NEW s, s \in Seq(Nat), NEW k, k \in 1..Len(s) + 1, NEW a, a \in Nat
  PROVE  InsertEnd(s, k, a, InsertAt(s, k, a))
<1>1. /\ At(InsertAt(s, k, a), 1) = IF k = 1 THEN a ELSE At(s, 1)
      /\ At(InsertAt(s, k, a), Len(s) + 1) = IF k = Len(s) + 1 THEN a ELSE At(s, Len(s))
  BY InsertEnds
<1>2. IsInsert(Nat, s, k, a, InsertAt(s, k, a))
  BY InsertIs
<1>3. Len(InsertAt(s, k, a)) = Len(s) + 1
  BY ONLY <1>2, Zenon DEF IsInsert
<1> QED BY <1>1, <1>3 DEF InsertEnd

RemoveEnd(s, k, t) ==
  /\ At(t, Len(t)) = IF k = 1 /\ At(s, 2) = 0 THEN 0
                     ELSE IF k > 1 /\ At(s, Len(s)) = s[k] THEN s[k - 1] ELSE At(s, Len(s))
  /\ At(t, 1) = IF k = 1 THEN At(s, 2) ELSE At(s, 1)
  /\ Len(t) = Len(s) - 1

LEMMA RemoveEndIs ==
  ASSUME NEW A, Room(A), NEW s, s \in Seq(A), IsInjective(s), NEW k, k \in 1..Len(s)
  PROVE  RemoveEnd(s, k, RemoveAt(s, k))
<1>1. s \in Seq(Nat \ {0})
  <2>1. A \subseteq Nat \ {0}
    BY DEF Room
  <2>2. \A i \in 1..Len(s) : s[i] \in Nat \ {0}
    <3>1. \A i \in 1..Len(s) : s[i] \in A
      OBVIOUS
    <3> QED BY ONLY <2>1, <3>1, Zenon
  <2>3. Len(s) \in Nat /\ s = [i \in 1..Len(s) |-> s[i]]
    OBVIOUS
  <2> QED BY <2>2, <2>3
<1> QED BY <1>1, LastAfterRemove DEF RemoveEnd

CopyLinks(link, new, c, kept) ==
  [a \in kept \cup ToSet(new) |->
     IF a \in kept THEN link[a]
     ELSE IF a = new[Len(c)] THEN 0 ELSE new[PlaceOf(new, c)[a] + 1]]

LEMMA CopyLinkIs ==
  ASSUME NEW A, NEW c, Len(c) \in Nat, NEW kept, NEW new, Copies(A, new, c, kept), NEW link
  PROVE  CopyLink(link, new, c, kept) = CopyLinks(link, new, c, kept)
<1>1. PICK n \in Nat : n = Len(c)
  OBVIOUS
<1>2. new \in [1..n -> A \ kept] /\ IsInjective(new)
  BY <1>1 DEF Copies
<1>3. new \in Seq(A) /\ Len(new) = n
  <2>1. new \in [1..n -> A]
    BY <1>2
  <2> QED BY <2>1
<1>4. ToSet(new) = {new[i] : i \in 1..n}
  BY <1>3, ToSetIs
<1>5. ASSUME NEW a \in ToSet(new) PROVE PlaceOf(new, c)[a] = n <=> a = new[n]
  <2>1. PICK i \in 1..n : a = new[i]
    BY <1>4, <1>5
  <2>2. N!Inverse(new, 1..Len(new), ToSet(new))[new[i]] = i
    BY <1>2, <1>3, PlaceIs
  <2>3. PlaceOf(new, c)[a] = i
    BY <2>1, <2>2, <1>1, <1>3 DEF PlaceOf
  <2>4. n \in 1..n /\ DOMAIN new = 1..n
    BY <2>1, <1>2
  <2>5. new[i] = new[n] => i = n
    BY ONLY <2>4, i \in 1..n, <1>2, Zenon DEF IsInjective
  <2> QED BY <2>1, <2>3, <2>5
<1> DEFINE P == PlaceOf(new, c)
<1>6. \A a \in ToSet(new) : P[a] = n <=> a = new[n]
  BY <1>5
<1> HIDE DEF P
<1>7. [a \in kept \cup ToSet(new) |->
         IF a \in kept THEN link[a] ELSE IF P[a] = n THEN 0 ELSE new[P[a] + 1]] =
      [a \in kept \cup ToSet(new) |->
         IF a \in kept THEN link[a] ELSE IF a = new[n] THEN 0 ELSE new[P[a] + 1]]
  BY <1>6
<1> QED BY <1>1, <1>7 DEF CopyLink, CopyLinks, P

-----------------------------------------------------------------------------
(* The links back of a list that is linked both ways. *)
BackLinked(back, s) == \A i \in 1..Len(s) : s[i] \in DOMAIN back /\ back[s[i]] = At(s, i - 1)

LEMMA BackInsert ==
  ASSUME NEW s \in Seq(Nat), IsInjective(s), NEW k \in 1..Len(s) + 1, NEW a \in Nat, a \notin ToSet(s),
         NEW back, BackLinked(back, s), NEW back2,
         back2 = N!With(IF k > Len(s) THEN back ELSE [back EXCEPT ![s[k]] = a], a, At(s, k - 1))
  PROVE  BackLinked(back2, InsertAt(s, k, a))
<1>1. PICK t : t = InsertAt(s, k, a) /\ IsInsert(Nat, s, k, a, t)
  BY InsertIs
<1>2. PICK n \in Nat : n = Len(s) /\ k \in 1..n + 1
  OBVIOUS
<1>3. /\ t \in Seq(Nat) /\ Len(t) = n + 1
      /\ \A i \in 1..n + 1 : t[i] = IF i < k THEN s[i] ELSE IF i = k THEN a ELSE s[i - 1]
  BY ONLY <1>1, <1>2, Zenon DEF IsInsert
<1>4. \A i \in 1..n : s[i] \in ToSet(s) /\ s[i] # a /\ s[i] \in DOMAIN back /\ back[s[i]] = At(s, i - 1)
  <2>1. \A i \in 1..n : s[i] \in ToSet(s)
    BY <1>2, ToSetIs
  <2> QED BY <2>1, <1>2 DEF BackLinked
<1>5. a \in DOMAIN back2 /\ back2[a] = At(s, k - 1)
  BY DEF N!With
<1>6. ASSUME NEW i \in 1..n
      PROVE  s[i] \in DOMAIN back2 /\ back2[s[i]] = IF i = k THEN a ELSE At(s, i - 1)
  <2>1. PICK q : q = IF k > Len(s) THEN back ELSE [back EXCEPT ![s[k]] = a]
    OBVIOUS
  <2>2. s[i] \in DOMAIN q /\ q[s[i]] = IF i = k THEN a ELSE back[s[i]]
    <3>1. CASE k > Len(s)
      BY <2>1, <3>1, <1>2, <1>4
    <3>2. CASE ~(k > Len(s))
      <4>1. k \in 1..n /\ (s[i] = s[k] <=> i = k)
        BY <3>2, <1>2, SMTT(20) DEF IsInjective
      <4> QED BY <2>1, <3>2, <4>1, <1>4
    <3> QED BY <3>1, <3>2
  <2>3. s[i] \in DOMAIN back2 /\ back2[s[i]] = q[s[i]]
    BY <2>1, <2>2, <1>4 DEF N!With
  <2> QED BY <2>2, <2>3, <1>4
<1>7. ASSUME NEW i \in 1..n + 1 PROVE t[i] \in DOMAIN back2 /\ back2[t[i]] = At(t, i - 1)
  <2>1. CASE i < k
    <3>1. i \in 1..n /\ i # k /\ t[i] = s[i]
      BY <2>1, <1>2, <1>3
    <3>2. At(t, i - 1) = At(s, i - 1)
      <4>1. i - 1 \in 1..n + 1 <=> i - 1 \in 1..n
        BY <3>1
      <4>2. i - 1 \in 1..n + 1 => t[i - 1] = s[i - 1]
        BY <2>1, <1>2, <1>3
      <4> QED BY <4>1, <4>2, <1>2, <1>3 DEF At
    <3> QED BY <3>1, <3>2, <1>6
  <2>2. CASE i = k
    <3>1. At(t, k - 1) = At(s, k - 1)
      <4>1. k - 1 \in 1..n + 1 <=> k - 1 \in 1..n
        BY <1>2
      <4>2. k - 1 \in 1..n + 1 => t[k - 1] = s[k - 1]
        BY <1>2, <1>3
      <4> QED BY <4>1, <4>2, <1>2, <1>3 DEF At
    <3>2. t[i] = a
      BY <2>2, <1>3
    <3> QED BY <2>2, <3>1, <3>2, <1>5
  <2>3. CASE i > k
    <3>1. i - 1 \in 1..n /\ i - 1 \in 1..n + 1 /\ t[i] = s[i - 1]
      BY <2>3, <1>2, <1>3
    <3>2. At(t, i - 1) = t[i - 1]
      BY <3>1, <1>3 DEF At
    <3>3. CASE i - 1 = k
      <4>1. t[i - 1] = a
        BY <3>1, <3>3, <1>3, <1>2
      <4> QED BY <3>1, <3>2, <3>3, <4>1, <1>6
    <3>4. CASE i - 1 # k
      <4>1. (i - 1) - 1 \in 1..n /\ ~(i - 1 < k)
        BY <2>3, <3>4, <1>2
      <4>2. t[i - 1] = s[(i - 1) - 1]
        BY <3>1, <3>4, <4>1, <1>3
      <4>3. At(s, (i - 1) - 1) = s[(i - 1) - 1]
        BY <4>1, <1>2 DEF At
      <4>4. back2[s[i - 1]] = At(s, (i - 1) - 1) /\ s[i - 1] \in DOMAIN back2
        BY <3>1, <3>4, <1>6
      <4> QED BY <3>1, <3>2, <4>2, <4>3, <4>4
    <3> QED BY <3>3, <3>4
  <2>4. i < k \/ i = k \/ i > k
    BY <1>2
  <2> QED BY ONLY <2>1, <2>2, <2>3, <2>4, Zenon
<1> QED BY <1>1, <1>3, <1>7 DEF BackLinked

LEMMA BackRemove ==
  ASSUME NEW s \in Seq(Nat), IsInjective(s), NEW k \in 1..Len(s), NEW back, BackLinked(back, s), NEW back2,
         back2 = N!Without(IF k = Len(s) THEN back ELSE [back EXCEPT ![s[k + 1]] = At(s, k - 1)], {s[k]})
  PROVE  BackLinked(back2, RemoveAt(s, k))
<1>1. PICK t : t = RemoveAt(s, k) /\ IsRemove(Nat, s, k, t)
  BY RemoveIs
<1>2. PICK n \in Nat : n = Len(s) /\ k \in 1..n
  OBVIOUS
<1>3. /\ t \in Seq(Nat) /\ Len(t) = n - 1
      /\ \A i \in 1..n - 1 : t[i] = IF i < k THEN s[i] ELSE s[i + 1]
  BY ONLY <1>1, <1>2, Zenon DEF IsRemove
<1>4. \A i \in 1..n : s[i] \in DOMAIN back /\ back[s[i]] = At(s, i - 1)
  BY <1>2 DEF BackLinked
<1>5. \A i, j \in 1..n : s[i] = s[j] => i = j
  <2>1. DOMAIN s = 1..n
    BY <1>2
  <2>2. \A i, j \in DOMAIN s : s[i] = s[j] => i = j
    BY Zenon DEF IsInjective
  <2> QED BY ONLY <2>1, <2>2, Zenon
<1>6. ASSUME NEW i \in 1..n, i # k
      PROVE  s[i] \in DOMAIN back2 /\ back2[s[i]] = IF i = k + 1 THEN At(s, k - 1) ELSE At(s, i - 1)
  <2>1. PICK q : q = IF k = Len(s) THEN back ELSE [back EXCEPT ![s[k + 1]] = At(s, k - 1)]
    OBVIOUS
  <2>2. s[i] \in DOMAIN q /\ q[s[i]] = IF i = k + 1 THEN At(s, k - 1) ELSE back[s[i]]
    <3>1. CASE k = Len(s)
      BY <2>1, <3>1, <1>2, <1>4
    <3>2. CASE k # Len(s)
      <4>1. k + 1 \in 1..n
        BY <3>2, <1>2
      <4>2. s[i] = s[k + 1] <=> i = k + 1
        BY <4>1, <1>5
      <4> QED BY <2>1, <3>2, <4>2, <1>4
    <3> QED BY <3>1, <3>2
  <2>3. s[i] # s[k]
    BY <1>2, <1>5, <1>6
  <2>4. s[i] \in DOMAIN back2 /\ back2[s[i]] = q[s[i]]
    BY <2>1, <2>2, <2>3 DEF N!Without, N!Restrict
  <2> QED BY <2>2, <2>4, <1>4
<1>7. ASSUME NEW i \in 1..n - 1 PROVE t[i] \in DOMAIN back2 /\ back2[t[i]] = At(t, i - 1)
  <2>1. CASE i < k
    <3>1. i \in 1..n /\ i # k /\ i # k + 1 /\ t[i] = s[i]
      BY <2>1, <1>2, <1>3, SMTT(20)
    <3>2. At(t, i - 1) = At(s, i - 1)
      <4>1. i - 1 \in 1..n - 1 <=> i - 1 \in 1..n
        BY <3>1
      <4>2. i - 1 \in 1..n - 1 => t[i - 1] = s[i - 1]
        <5>1. i - 1 < k
          BY <2>1, <1>2
        <5> QED BY ONLY <5>1, <1>3, Zenon
      <4> QED BY <4>1, <4>2, <1>2, <1>3 DEF At
    <3> QED BY <3>1, <3>2, <1>6
  <2>2. CASE ~(i < k)
    <3>1. i + 1 \in 1..n /\ i + 1 # k /\ t[i] = s[i + 1] /\ (i + 1) - 1 = i
      BY <2>2, <1>2, <1>3
    <3>2. CASE i = k
      <4>1. At(t, k - 1) = At(s, k - 1)
        <5>1. k - 1 \in 1..n - 1 <=> k - 1 \in 1..n
          BY <3>2, <1>2
        <5>2. k - 1 \in 1..n - 1 => t[k - 1] = s[k - 1]
          <6>1. k - 1 < k
            BY <1>2
          <6> QED BY ONLY <6>1, <1>3, Zenon
        <5> QED BY <5>1, <5>2, <1>2, <1>3 DEF At
      <4>2. back2[s[i + 1]] = At(s, k - 1) /\ s[i + 1] \in DOMAIN back2
        BY <3>1, <3>2, <1>6
      <4> QED BY <3>1, <3>2, <4>1, <4>2
    <3>3. CASE i # k
      <4>1. i - 1 \in 1..n - 1 /\ ~(i - 1 < k) /\ (i - 1) + 1 = i /\ i + 1 # k + 1 /\ i \in 1..n
        BY <2>2, <3>3, <1>2
      <4>2. At(t, i - 1) = s[i]
        BY <4>1, <1>3 DEF At
      <4>3. back2[s[i + 1]] = At(s, i) /\ s[i + 1] \in DOMAIN back2
        BY <3>1, <4>1, <1>6
      <4>4. At(s, i) = s[i]
        BY <4>1, <1>2 DEF At
      <4> QED BY <3>1, <4>2, <4>3, <4>4
    <3> QED BY <3>2, <3>3
  <2> QED BY <2>1, <2>2
<1> QED BY <1>1, <1>3, <1>7 DEF BackLinked

LEMMA BackIsReverse ==
  ASSUME NEW s \in Seq(Nat), IsInjective(s), NEW back, BackLinked(back, s)
  PROVE  Linked(back, At(s, Len(s)), Reverse(s))
<1>1. PICK n \in Nat : n = Len(s)
  OBVIOUS
<1>2. PICK r : r = Reverse(s)
  OBVIOUS
<1>3. \A i \in 1..n : n - i + 1 \in 1..n
  OBVIOUS
<1>4. r = [i \in 1..n |-> s[n - i + 1]]
  BY <1>1, <1>2 DEF Reverse
<1>5. \A i \in 1..n : r[i] = s[n - i + 1] /\ s[n - i + 1] \in Nat
  BY <1>1, <1>3, <1>4
<1>6. r \in Seq(Nat) /\ Len(r) = n
  BY <1>4, <1>5
<1>7. IsInjective(r)
  <2>1. ASSUME NEW i \in 1..n, NEW j \in 1..n, r[i] = r[j] PROVE i = j
    <3>1. s[n - i + 1] = s[n - j + 1]
      BY <2>1, <1>5
    <3>2. n - i + 1 = n - j + 1
      BY <3>1, <1>1, <1>3, SMTT(20) DEF IsInjective
    <3> QED BY <3>2
  <2> QED BY <2>1, <1>4 DEF IsInjective
<1>8. ASSUME NEW i \in 1..n PROVE r[i] \in DOMAIN back /\ back[r[i]] = At(r, i + 1)
  <2>1. r[i] \in DOMAIN back /\ back[r[i]] = At(s, (n - i + 1) - 1)
    BY <1>1, <1>3, <1>5 DEF BackLinked
  <2>2. At(s, (n - i + 1) - 1) = At(r, i + 1)
    <3>1. CASE i = n
      BY <3>1, <1>1, <1>6 DEF At
    <3>2. CASE i # n
      <4>1. i + 1 \in 1..n /\ n - (i + 1) + 1 = (n - i + 1) - 1 /\ (n - i + 1) - 1 \in 1..n
        BY <3>2
      <4>2. r[i + 1] = s[(n - i + 1) - 1]
        BY <4>1, <1>5
      <4> QED BY <4>1, <4>2, <1>1, <1>6 DEF At
    <3> QED BY <3>1, <3>2
  <2> QED BY <2>1, <2>2
<1>9. At(s, n) = At(r, 1)
  <2>1. CASE n = 0
    BY <2>1, <1>1, <1>6 DEF At
  <2>2. CASE n # 0
    <3>1. n \in 1..n /\ 1 \in 1..n /\ n - 1 + 1 = n
      BY <2>2
    <3>2. r[1] = s[n]
      BY <3>1, <1>5
    <3> QED BY <3>1, <3>2, <1>1, <1>6 DEF At
  <2> QED BY <2>1, <2>2
<1>10. Linked(back, At(s, n), r)
  BY <1>6, <1>7, <1>8, <1>9 DEF Linked
<1> QED BY ONLY <1>1, <1>2, <1>10, Zenon

-----------------------------------------------------------------------------
(* Search trees.  Route is where the loops go from each node that look for *)
(* x.  In a tree, w gives for each node the nodes from the root to it: the *)
(* search for its element goes through them, and the way to a child is the *)
(* way to its parent, and one step more.                                   *)
Route(info, left, right, x) ==
  [p \in DOMAIN info |-> IF info[p] = x THEN 0 ELSE IF info[p] > x THEN left[p] ELSE right[p]]

WayTo(info, left, right, root, s, q) ==
  Linked(Route(info, left, right, info[q]), root, s) /\ s # <<>> /\ s[Len(s)] = q

Children(info, left, right, w, p) ==
  /\ left[p] # 0 => info[left[p]] < info[p] /\ w[left[p]] = Append(w[p], left[p])
  /\ right[p] # 0 => info[right[p]] > info[p] /\ w[right[p]] = Append(w[p], right[p])

TreeOf(A, T, info, left, right, root, w) ==
  /\ DOMAIN info \subseteq A /\ info \in [DOMAIN info -> T]
  /\ left \in [DOMAIN info -> DOMAIN info \cup {0}]
  /\ right \in [DOMAIN info -> DOMAIN info \cup {0}]
  /\ root \in DOMAIN info \cup {0}
  /\ \A q \in DOMAIN info : WayTo(info, left, right, root, w[q], q)
  /\ \A p \in DOMAIN info : Children(info, left, right, w, p)

Bounds(A, T) == Room(A) /\ T \subseteq Nat

(* From every node, links that lead to ever higher ranks end. *)
LEMMA Descent ==
  ASSUME NEW next, Pointers(next), NEW n \in Nat, NEW rank,
         \A p \in DOMAIN next : rank[p] \in 0..n,
         \A p \in DOMAIN next : next[p] # 0 => next[p] \in DOMAIN next /\ rank[next[p]] > rank[p],
         NEW r, r \in DOMAIN next \cup {0}
  PROVE  \E s : Linked(next, r, s)
<1> DEFINE Down(p, s) == Linked(next, p, s) /\ \A i \in 1..Len(s) : rank[s[i]] >= rank[p]
           Good == {k \in Nat : \A p \in DOMAIN next : n - rank[p] < k => \E s : Down(p, s)}
<1>1. 0 \in Good
  <2>1. ASSUME NEW p \in DOMAIN next PROVE ~(n - rank[p] < 0)
    <3>1. rank[p] \in 0..n
      OBVIOUS
    <3> QED BY <3>1
  <2> QED BY <2>1
<1>2. ASSUME NEW k \in Nat, k \in Good PROVE k + 1 \in Good
  <2> SUFFICES ASSUME NEW p \in DOMAIN next, n - rank[p] < k + 1 PROVE \E s : Down(p, s)
    OBVIOUS
  <2>1. p \in Nat \ {0} /\ rank[p] \in 0..n
    BY DEF Pointers
  <2>2. CASE next[p] = 0
    <3>1. PICK s : s = <<p>>
      OBVIOUS
    <3>2. s \in Seq(Nat) /\ Len(s) = 1 /\ s[1] = p
      BY <2>1, <3>1
    <3>3. IsInjective(s)
      BY <3>1 DEF IsInjective
    <3>4. At(s, 1) = p /\ At(s, 2) = 0
      BY <3>2 DEF At
    <3>5. \A i \in 1..Len(s) : i = 1
      BY <3>2
    <3>6. Linked(next, p, s)
      BY <2>2, <3>2, <3>3, <3>4, <3>5 DEF Linked
    <3> QED BY <2>1, <3>2, <3>5, <3>6
  <2>3. CASE next[p] # 0
    <3>1. PICK c : c = next[p] /\ c \in DOMAIN next /\ rank[c] > rank[p] /\ rank[c] \in 0..n
      BY <2>3
    <3>2. n - rank[c] < k
      BY <2>1, <3>1
    <3>3. PICK t : Down(c, t)
      BY <1>2, <3>1, <3>2
    <3>4. PICK m \in Nat : m = Len(t) /\ t \in Seq(Nat)
      BY <3>3 DEF Linked
    <3>5. PICK s : s = <<p>> \o t
      OBVIOUS
    <3>6. /\ s \in Seq(Nat) /\ Len(s) = m + 1 /\ s[1] = p
          /\ \A i \in 2..m + 1 : s[i] = t[i - 1]
      <4>1. <<p>> \in Seq(Nat) /\ Len(<<p>>) = 1 /\ <<p>>[1] = p
        BY <2>1
      <4> QED BY <3>4, <3>5, <4>1, ConcatProperties
    <3>7. \A i \in 2..m + 1 : i - 1 \in 1..m
      BY <3>4
    <3>8. \A i \in 1..m : rank[t[i]] >= rank[c] /\ t[i] \in DOMAIN next /\ rank[t[i]] \in 0..n
      BY <3>3, <3>4 DEF Linked
    <3>9. \A i \in 1..m : t[i] # p
      BY <2>1, <3>1, <3>8
    <3>10. ASSUME NEW i \in 1..m + 1, NEW j \in 1..m + 1, s[i] = s[j] PROVE i = j
      <4>1. CASE i = 1 /\ j = 1
        BY <4>1
      <4>2. CASE i # 1 /\ j = 1
        <5>1. i \in 2..m + 1
          BY <4>2
        <5> QED BY <5>1, <4>2, <3>6, <3>7, <3>9, <3>10
      <4>3. CASE i = 1 /\ j # 1
        <5>1. j \in 2..m + 1
          BY <4>3
        <5> QED BY <5>1, <4>3, <3>6, <3>7, <3>9, <3>10
      <4>4. CASE i # 1 /\ j # 1
        <5>1. i \in 2..m + 1 /\ j \in 2..m + 1
          BY <4>4
        <5>2. i - 1 \in 1..m /\ j - 1 \in 1..m /\ t[i - 1] = t[j - 1]
          BY <5>1, <3>6, <3>7, <3>10
        <5>3. \A a, b \in 1..m : t[a] = t[b] => a = b
          <6>1. Linked(next, c, t)
            BY <3>3
          <6> QED BY ONLY <6>1, <3>4, LinkedEntries
        <5>4. i - 1 = j - 1
          BY <5>2, <5>3
        <5> QED BY <5>4
      <4> QED BY <4>1, <4>2, <4>3, <4>4
    <3>11. IsInjective(s)
      BY <3>6, <3>10 DEF IsInjective
    <3>12. At(s, 1) = p
      BY <3>4, <3>6 DEF At
    <3>13. \A i \in 1..m + 1 : At(s, i + 1) = At(t, i)
      <4> SUFFICES ASSUME NEW i \in 1..m + 1 PROVE At(s, i + 1) = At(t, i)
        OBVIOUS
      <4>1. CASE i = m + 1
        BY <4>1, <3>4, <3>6 DEF At
      <4>2. CASE i # m + 1
        <5>1. i \in 1..m /\ i + 1 \in 2..m + 1 /\ i + 1 \in 1..m + 1 /\ (i + 1) - 1 = i
          BY <4>2
        <5> QED BY <5>1, <3>4, <3>6 DEF At
      <4> QED BY <4>1, <4>2
    <3>14. At(t, 1) = c
      BY <3>3 DEF Linked
    <3>15. ASSUME NEW i \in 1..m + 1 PROVE s[i] \in DOMAIN next /\ next[s[i]] = At(s, i + 1) /\ rank[s[i]] >= rank[p]
      <4>1. CASE i = 1
        BY <4>1, <3>1, <3>6, <3>13, <3>14, <2>1
      <4>2. CASE i # 1
        <5>1. i \in 2..m + 1 /\ i - 1 \in 1..m /\ (i - 1) + 1 = i
          BY <4>2
        <5>2. s[i] = t[i - 1] /\ next[t[i - 1]] = At(t, i)
          BY <5>1, <3>3, <3>4, <3>6 DEF Linked
        <5>3. At(s, i + 1) = At(t, i)
          BY <3>13
        <5> QED BY <5>1, <5>2, <5>3, <3>1, <3>8, <2>1
      <4> QED BY <4>1, <4>2
    <3>16. Linked(next, p, s)
      BY <3>6, <3>11, <3>12, <3>15 DEF Linked
    <3> QED BY <3>6, <3>15, <3>16
  <2> QED BY <2>2, <2>3
<1>3. Nat \subseteq Good
  <2> HIDE DEF Good
  <2> QED BY <1>1, <1>2, InductionBySet
<1>4. CASE r = 0
  <2>1. Linked(next, 0, <<>>)
    BY DEF Linked, IsInjective, At
  <2> QED BY <1>4, <2>1
<1>5. CASE r \in DOMAIN next
  <2>1. n + 1 \in Good /\ rank[r] \in 0..n
    BY <1>3, <1>5
  <2>2. n - rank[r] < n + 1
    BY <2>1
  <2> QED BY <1>5, <2>1, <2>2
<1> QED BY <1>4, <1>5

(* What a tree says of the ways to its nodes. *)
LEMMA TreeTypes ==
  ASSUME NEW A, NEW T, Bounds(A, T), NEW info, NEW left, NEW right, NEW root, NEW w,
         TreeOf(A, T, info, left, right, root, w)
  PROVE  /\ IsFiniteSet(DOMAIN info) /\ DOMAIN info \subseteq Nat \ {0} /\ 0 \notin DOMAIN info
         /\ \A p \in DOMAIN info :
              /\ info[p] \in Nat /\ left[p] \in DOMAIN info \cup {0} /\ right[p] \in DOMAIN info \cup {0}
              /\ left[p] # 0 => info[left[p]] < info[p] /\ left[p] # right[p]
              /\ right[p] # 0 => info[right[p]] > info[p] /\ left[p] # right[p]
         /\ \A x : Pointers(Route(info, left, right, x)) /\ DOMAIN Route(info, left, right, x) = DOMAIN info
         /\ Pointers(left) /\ Pointers(right) /\ root \in Nat
<1>1. /\ DOMAIN info \subseteq A /\ info \in [DOMAIN info -> T]
      /\ left \in [DOMAIN info -> DOMAIN info \cup {0}]
      /\ right \in [DOMAIN info -> DOMAIN info \cup {0}]
      /\ root \in DOMAIN info \cup {0}
      /\ A \subseteq Nat \ {0} /\ IsFiniteSet(A) /\ T \subseteq Nat
  BY DEF TreeOf, Bounds, Room
<1>2. IsFiniteSet(DOMAIN info)
  BY <1>1, FS_Subset
<1>3. ASSUME NEW p \in DOMAIN info
      PROVE  /\ info[p] \in Nat /\ left[p] \in DOMAIN info \cup {0} /\ right[p] \in DOMAIN info \cup {0}
             /\ left[p] # 0 => info[left[p]] < info[p] /\ left[p] # right[p]
             /\ right[p] # 0 => info[right[p]] > info[p] /\ left[p] # right[p]
  <2>1. info[p] \in Nat /\ left[p] \in DOMAIN info \cup {0} /\ right[p] \in DOMAIN info \cup {0}
    BY <1>1
  <2>2. /\ left[p] # 0 => info[left[p]] \in Nat /\ info[left[p]] < info[p]
        /\ right[p] # 0 => info[right[p]] \in Nat /\ info[right[p]] > info[p]
    BY <1>1 DEF TreeOf, Children
  <2>3. left[p] # 0 \/ right[p] # 0 => left[p] # right[p]
    BY <2>1, <2>2
  <2> QED BY <2>1, <2>2, <2>3
<1>4. ASSUME NEW x PROVE Pointers(Route(info, left, right, x)) /\ DOMAIN Route(info, left, right, x) = DOMAIN info
  BY <1>1, <1>2, <1>3 DEF Pointers, Route
<1>5. Pointers(left) /\ Pointers(right) /\ root \in Nat
  BY <1>1, <1>2, <1>3 DEF Pointers
<1> QED BY <1>1, <1>2, <1>3, <1>4, <1>5

LEMMA WayFacts ==
  ASSUME NEW A, NEW T, Bounds(A, T), NEW info, NEW left, NEW right, NEW root, NEW w,
         TreeOf(A, T, info, left, right, root, w), NEW q \in DOMAIN info
  PROVE  /\ w[q] \in Seq(Nat) /\ Len(w[q]) \in 1..Cardinality(DOMAIN info)
         /\ Cardinality(DOMAIN info) \in Nat
         /\ w[q][1] = root /\ w[q][Len(w[q])] = q /\ q \in ToSet(w[q])
         /\ ToSet(w[q]) = {w[q][i] : i \in 1..Len(w[q])}
         /\ \A i, j \in 1..Len(w[q]) : w[q][i] = w[q][j] => i = j
         /\ \A i \in 1..Len(w[q]) : w[q][i] \in DOMAIN info
         /\ \A i \in 1..Len(w[q]) - 1 :
              /\ info[w[q][i]] # info[q]
              /\ w[q][i + 1] = IF info[w[q][i]] > info[q] THEN left[w[q][i]] ELSE right[w[q][i]]
         /\ Linked(Route(info, left, right, info[q]), root, w[q])
<1>1. PICK s : s = w[q]
  OBVIOUS
<1>2. PICK x : x = info[q]
  OBVIOUS
<1>3. PICK next : next = Route(info, left, right, x)
  OBVIOUS
<1>4. Linked(next, root, s) /\ s # <<>> /\ s[Len(s)] = q
  BY <1>1, <1>2, <1>3 DEF TreeOf, WayTo
<1>5. Pointers(next) /\ DOMAIN next = DOMAIN info /\ DOMAIN info \subseteq Nat \ {0}
  BY <1>3, TreeTypes
<1>6. /\ s \in Seq(Nat) /\ \A i, j \in 1..Len(s) : s[i] = s[j] => i = j
      /\ \A i \in 1..Len(s) : s[i] \in DOMAIN next /\ next[s[i]] = At(s, i + 1)
      /\ root = At(s, 1) /\ ToSet(s) = {s[i] : i \in 1..Len(s)}
  BY <1>4, LinkedEntries
<1>7. Len(s) <= Cardinality(DOMAIN info) /\ Cardinality(DOMAIN info) \in Nat
  BY <1>4, <1>5, LinkedLength
<1>8. PICK n \in Nat : n = Len(s) /\ n # 0
  BY <1>4, <1>6
<1>9. s[1] = root /\ q \in ToSet(s)
  <2>1. 1 \in 1..n /\ n \in 1..n
    BY <1>8
  <2> QED BY <2>1, <1>4, <1>6, <1>8 DEF At
<1>10. ASSUME NEW i \in 1..n - 1
       PROVE  info[s[i]] # x /\ s[i + 1] = IF info[s[i]] > x THEN left[s[i]] ELSE right[s[i]]
  <2>1. i \in 1..n /\ i + 1 \in 1..n
    BY <1>8
  <2>2. next[s[i]] = s[i + 1] /\ s[i] \in DOMAIN info /\ s[i + 1] # 0
    BY <2>1, <1>5, <1>6, <1>8 DEF At
  <2> QED BY <2>2, <1>3 DEF Route
<1> QED BY <1>1, <1>2, <1>3, <1>4, <1>5, <1>6, <1>7, <1>8, <1>9, <1>10

(* The search for x ends, as does the walk to the right. *)
LEMMA WaysEnd ==
  ASSUME NEW A, NEW T, Bounds(A, T), NEW info, NEW left, NEW right, NEW root, NEW w,
         TreeOf(A, T, info, left, right, root, w)
  PROVE  /\ \A x : \E s : Linked(Route(info, left, right, x), root, s)
         /\ \A r \in DOMAIN info \cup {0} : \E s : Linked(right, r, s)
<1> DEFINE rank == [p \in DOMAIN info |-> Len(w[p])]
<1>1. PICK n \in Nat : n = Cardinality(DOMAIN info)
  BY TreeTypes, FS_CardinalityType
<1>2. \A p \in DOMAIN info : rank[p] \in 0..n
  <2> SUFFICES ASSUME NEW p \in DOMAIN info PROVE rank[p] \in 0..n
    OBVIOUS
  <2>1. Len(w[p]) \in 1..n
    BY <1>1, WayFacts
  <2> QED BY <2>1
<1>3. ASSUME NEW p \in DOMAIN info, NEW c \in DOMAIN info, w[c] = Append(w[p], c)
      PROVE  rank[c] > rank[p]
  <2>1. w[p] \in Seq(Nat) /\ Len(w[c]) = Len(w[p]) + 1 /\ Len(w[p]) \in Nat
    BY <1>3, WayFacts
  <2> QED BY <2>1
<1>4. ASSUME NEW p \in DOMAIN info
      PROVE  /\ left[p] # 0 => left[p] \in DOMAIN info /\ rank[left[p]] > rank[p]
             /\ right[p] # 0 => right[p] \in DOMAIN info /\ rank[right[p]] > rank[p]
  <2>1. Children(info, left, right, w, p)
    BY DEF TreeOf
  <2>2. left[p] \in DOMAIN info \cup {0} /\ right[p] \in DOMAIN info \cup {0}
    BY TreeTypes
  <2> HIDE DEF rank
  <2> QED BY <1>3, <2>1, <2>2 DEF Children
<1> HIDE DEF rank
<1>5. DOMAIN left = DOMAIN info /\ DOMAIN right = DOMAIN info /\ root \in DOMAIN info \cup {0}
  BY DEF TreeOf
<1>6. ASSUME NEW x PROVE \E s : Linked(Route(info, left, right, x), root, s)
  <2>1. PICK next : next = Route(info, left, right, x)
    OBVIOUS
  <2>2. Pointers(next) /\ DOMAIN next = DOMAIN info
    BY <2>1, TreeTypes
  <2>3. \A p \in DOMAIN next : next[p] # 0 => next[p] \in DOMAIN next /\ rank[next[p]] > rank[p]
    BY <1>4, <2>1, <2>2 DEF Route
  <2>4. \E s : Linked(next, root, s)
    BY <1>1, <1>2, <1>5, <2>2, <2>3, Descent
  <2> QED BY <2>1, <2>4
<1>7. ASSUME NEW r \in DOMAIN info \cup {0} PROVE \E s : Linked(right, r, s)
  <2>1. Pointers(right)
    BY TreeTypes
  <2> QED BY <1>1, <1>2, <1>4, <1>5, <2>1, Descent
<1> QED BY <1>6, <1>7

(* Every search goes the way to each node it meets. *)
LEMMA WayAlong ==
  ASSUME NEW A, NEW T, Bounds(A, T), NEW info, NEW left, NEW right, NEW root, NEW w,
         TreeOf(A, T, info, left, right, root, w),
         NEW x, NEW s, Linked(Route(info, left, right, x), root, s)
  PROVE  \A i \in 1..Len(s) : /\ s[i] \in DOMAIN info /\ Len(w[s[i]]) = i
                              /\ \A j \in 1..i : w[s[i]][j] = s[j]
<1>1. PICK next : next = Route(info, left, right, x)
  OBVIOUS
<1>2. DOMAIN next = DOMAIN info /\ 0 \notin DOMAIN info
  BY <1>1, TreeTypes
<1>3. PICK n \in Nat : n = Len(s)
  BY DEF Linked
<1>4. \A i \in 1..n : s[i] \in DOMAIN info /\ next[s[i]] = At(s, i + 1)
  BY <1>1, <1>2, <1>3 DEF Linked
<1>5. root = At(s, 1)
  BY <1>1 DEF Linked
<1> DEFINE Good == {k \in Nat : \A i \in 1..n : i = k => Len(w[s[i]]) = i /\ \A j \in 1..i : w[s[i]][j] = s[j]}
<1>6. 0 \in Good
  OBVIOUS
<1>7. ASSUME NEW k \in Nat, k \in Good PROVE k + 1 \in Good
  <2> SUFFICES ASSUME k + 1 \in 1..n
               PROVE  Len(w[s[k + 1]]) = k + 1 /\ \A j \in 1..k + 1 : w[s[k + 1]][j] = s[j]
    OBVIOUS
  <2>1. PICK c : c = s[k + 1] /\ c \in DOMAIN info
    BY <1>4
  <2>2. CASE k = 0
    <3>1. c = root
      BY <1>3, <1>5, <2>1, <2>2 DEF At
    <3>2. /\ w[c][1] = c /\ w[c][Len(w[c])] = c /\ Len(w[c]) \in Nat /\ Len(w[c]) >= 1
          /\ \A i, j \in 1..Len(w[c]) : w[c][i] = w[c][j] => i = j
      <4>1. Len(w[c]) \in 1..Cardinality(DOMAIN info) /\ w[c] \in Seq(Nat)
        BY <2>1, WayFacts
      <4> QED BY <2>1, <3>1, <4>1, WayFacts
    <3>3. Len(w[c]) = 1
      <4>1. 1 \in 1..Len(w[c]) /\ Len(w[c]) \in 1..Len(w[c])
        BY <3>2
      <4> QED BY <3>2, <4>1
    <3> QED BY <2>1, <2>2, <3>2, <3>3
  <2>3. CASE k # 0
    <3>1. k \in 1..n
      BY <2>3, <1>3
    <3>2. PICK p : p = s[k] /\ p \in DOMAIN info
      BY <3>1, <1>4
    <3>3. next[p] = c /\ c # 0
      BY <1>2, <1>3, <1>4, <2>1, <3>1, <3>2 DEF At
    <3>4. c = left[p] \/ c = right[p]
      BY <1>1, <3>2, <3>3 DEF Route
    <3>5. w[c] = Append(w[p], c)
      BY <3>2, <3>3, <3>4 DEF TreeOf, Children
    <3>6. Len(w[p]) = k /\ \A j \in 1..k : w[p][j] = s[j]
      BY <1>7, <3>1, <3>2
    <3>7. PICK u \in Seq(Nat) : u = w[p]
      BY <3>2, WayFacts
    <3>8. c \in Nat
      BY <2>1, TreeTypes
    <3>9. Len(w[c]) = k + 1 /\ w[c][k + 1] = c /\ \A j \in 1..k : w[c][j] = u[j]
      BY <3>5, <3>6, <3>7, <3>8
    <3>10. \A j \in 1..k + 1 : j \in 1..k \/ j = k + 1
      OBVIOUS
    <3> QED BY <2>1, <3>6, <3>7, <3>9, <3>10
  <2> QED BY <2>2, <2>3
<1>8. Nat \subseteq Good
  <2> HIDE DEF Good
  <2> QED BY <1>6, <1>7, InductionBySet
<1> QED BY <1>3, <1>4, <1>8

(* A search finds the node with its element, on the way to it, if there is *)
(* one.                                                                    *)
LEMMA SearchFinds ==
  ASSUME NEW A, NEW T, Bounds(A, T), NEW info, NEW left, NEW right, NEW root, NEW w,
         TreeOf(A, T, info, left, right, root, w),
         NEW x, NEW s, Linked(Route(info, left, right, x), root, s)
  PROVE  /\ \A q \in DOMAIN info : info[q] = x => s = w[q]
         /\ s # <<>> => s[Len(s)] \in DOMAIN info /\ s = w[s[Len(s)]]
         /\ (\E q \in DOMAIN info : info[q] = x) <=> (s # <<>> /\ info[s[Len(s)]] = x)
<1>1. PICK next : next = Route(info, left, right, x)
  OBVIOUS
<1>2. Pointers(next) /\ DOMAIN next = DOMAIN info
  BY <1>1, TreeTypes
<1>3. ASSUME NEW q \in DOMAIN info, info[q] = x PROVE s = w[q] /\ s[Len(s)] = q /\ s # <<>>
  <2>1. Linked(next, root, w[q]) /\ w[q] # <<>> /\ w[q][Len(w[q])] = q
    BY <1>1, <1>3 DEF TreeOf, WayTo
  <2>2. N!Chain(next, root) = w[q] /\ N!Chain(next, root) = s
    BY <1>1, <1>2, <2>1, ChainIs
  <2> QED BY <2>1, <2>2
<1>4. ASSUME s # <<>> PROVE s[Len(s)] \in DOMAIN info /\ s = w[s[Len(s)]]
  <2>1. PICK n \in Nat : n = Len(s) /\ n \in 1..n /\ s \in Seq(Nat)
    BY <1>4 DEF Linked
  <2>2. s[n] \in DOMAIN info /\ Len(w[s[n]]) = n /\ \A j \in 1..n : w[s[n]][j] = s[j]
    BY <2>1, WayAlong
  <2>3. PICK u \in Seq(Nat) : u = w[s[n]]
    BY <2>2, WayFacts
  <2>4. u = s
    <3>1. Len(u) = n /\ \A j \in 1..n : u[j] = s[j]
      BY <2>1, <2>2, <2>3
    <3> QED BY <2>1, <2>3, <3>1, SeqEqual
  <2> QED BY <2>1, <2>2, <2>3, <2>4
<1> QED BY <1>3, <1>4

LEMMA KeysApart ==
  ASSUME NEW A, NEW T, Bounds(A, T), NEW info, NEW left, NEW right, NEW root, NEW w,
         TreeOf(A, T, info, left, right, root, w),
         NEW q \in DOMAIN info, NEW r \in DOMAIN info, info[q] = info[r]
  PROVE  q = r
<1>1. Linked(Route(info, left, right, info[r]), root, w[r]) /\ w[q][Len(w[q])] = q /\ w[r][Len(w[r])] = r
  BY WayFacts
<1>2. w[r] = w[q]
  BY <1>1, SearchFinds
<1> QED BY <1>1, <1>2

(* A new leaf, where the search for its element ended. *)
Planted(info, left, right, root, s, x, a, info2, left2, right2, root2) ==
  /\ info2 = N!With(info, a, x)
  /\ root2 = IF s = <<>> THEN a ELSE root
  /\ left2 = N!With(IF s # <<>> /\ info[s[Len(s)]] > x THEN [left EXCEPT ![s[Len(s)]] = a] ELSE left, a, 0)
  /\ right2 = N!With(IF s # <<>> /\ info[s[Len(s)]] < x THEN [right EXCEPT ![s[Len(s)]] = a] ELSE right, a, 0)

LEMMA TreeInsert ==
  ASSUME NEW A, NEW T, Bounds(A, T), NEW info, NEW left, NEW right, NEW root, NEW w,
         TreeOf(A, T, info, left, right, root, w), NEW x \in T, NEW a \in A, a \notin DOMAIN info,
         NEW s, Linked(Route(info, left, right, x), root, s), \A q \in DOMAIN info : info[q] # x,
         NEW info2, NEW left2, NEW right2, NEW root2,
         Planted(info, left, right, root, s, x, a, info2, left2, right2, root2)
  PROVE  TreeOf(A, T, info2, left2, right2, root2,
                [q \in DOMAIN info \cup {a} |-> IF q = a THEN Append(s, a) ELSE w[q]])
<1>1. /\ DOMAIN info \subseteq A /\ info \in [DOMAIN info -> T]
      /\ left \in [DOMAIN info -> DOMAIN info \cup {0}]
      /\ right \in [DOMAIN info -> DOMAIN info \cup {0}]
      /\ root \in DOMAIN info \cup {0}
  BY DEF TreeOf
<1>2. /\ a \in Nat \ {0} /\ x \in Nat /\ DOMAIN info \subseteq Nat \ {0} /\ 0 \notin DOMAIN info
      /\ \A p \in DOMAIN info : info[p] \in Nat /\ (left[p] # 0 \/ right[p] # 0 => left[p] # right[p])
  BY TreeTypes DEF Bounds, Room
<1> DEFINE b == s[Len(s)]
           L == s # <<>> /\ info[b] > x
           R == s # <<>> /\ info[b] < x
<1>3. PICK n \in Nat : n = Len(s) /\ s \in Seq(Nat) /\ (s # <<>> <=> n # 0)
  BY DEF Linked
<1>4. s # <<>> => b \in DOMAIN info /\ s = w[b]
  BY SearchFinds
<1> HIDE DEF b
<1>5. L \/ R <=> s # <<>>
  BY <1>2, <1>4
<1>6. /\ DOMAIN info2 = DOMAIN info \cup {a} /\ info2[a] = x
      /\ \A p \in DOMAIN info : info2[p] = info[p]
      /\ info2 \in [DOMAIN info2 -> T]
  BY <1>1 DEF Planted, N!With
<1>7. /\ DOMAIN left2 = DOMAIN info2 /\ left2[a] = 0
      /\ \A p \in DOMAIN info : left2[p] = IF L /\ p = b THEN a ELSE left[p]
      /\ DOMAIN right2 = DOMAIN info2 /\ right2[a] = 0
      /\ \A p \in DOMAIN info : right2[p] = IF R /\ p = b THEN a ELSE right[p]
      /\ left2 \in [DOMAIN info2 -> DOMAIN info2 \cup {0}]
      /\ right2 \in [DOMAIN info2 -> DOMAIN info2 \cup {0}]
  <2>1. left2 = N!With(IF L THEN [left EXCEPT ![b] = a] ELSE left, a, 0)
        /\ right2 = N!With(IF R THEN [right EXCEPT ![b] = a] ELSE right, a, 0)
    BY DEF Planted, b
  <2> QED BY <1>1, <1>4, <1>6, <2>1 DEF N!With
<1>8. root2 = IF s = <<>> THEN a ELSE root
  BY DEF Planted
<1> HIDE DEF L, R
<1> DEFINE v == [q \in DOMAIN info \cup {a} |-> IF q = a THEN Append(s, a) ELSE w[q]]
<1>9. v[a] = Append(s, a) /\ \A q \in DOMAIN info : v[q] = w[q]
  BY <1>2
<1> HIDE DEF v
<1>10. s = <<>> => DOMAIN info = {}
  <2> SUFFICES ASSUME s = <<>>, NEW q \in DOMAIN info PROVE FALSE
    OBVIOUS
  <2>1. root = 0
    BY <1>3 DEF Linked, At
  <2>2. w[q][1] = root /\ w[q][1] \in DOMAIN info
    <3>1. 1 \in 1..Len(w[q])
      BY WayFacts
    <3> QED BY <3>1, WayFacts
  <2> QED BY <1>2, <2>1, <2>2
(* where the search for x ended nothing hung *)
<1>11. L => left[b] = 0
  <2>1. ASSUME L PROVE left[b] = 0
    <3>1. n \in 1..n /\ n + 1 \notin 1..n
      BY <1>3, <1>5, <2>1
    <3>2. Route(info, left, right, x)[b] = 0
      BY <3>1, <1>3 DEF Linked, At, b
    <3> QED BY <1>4, <1>5, <2>1, <3>2, <1>2 DEF Route, L
  <2> QED BY <2>1
<1>12. R => right[b] = 0
  <2>1. ASSUME R PROVE right[b] = 0
    <3>1. n \in 1..n /\ n + 1 \notin 1..n
      BY <1>3, <1>5, <2>1
    <3>2. Route(info, left, right, x)[b] = 0
      BY <3>1, <1>3 DEF Linked, At, b
    <3> QED BY <1>4, <1>5, <2>1, <3>2, <1>2 DEF Route, R
  <2> QED BY <2>1
(* the way to the new node *)
<1>13. WayTo(info2, left2, right2, root2, v[a], a)
  <2>1. PICK next : next = Route(info, left, right, x)
    OBVIOUS
  <2>2. PICK next2 : next2 = Route(info2, left2, right2, x)
    OBVIOUS
  <2>3. DOMAIN next = DOMAIN info /\ DOMAIN next2 = DOMAIN info \cup {a} /\ next2[a] = 0
    BY <1>6, <2>1, <2>2 DEF Route
  <2>4. Linked(next, root, s) /\ ToSet(s) \subseteq DOMAIN info
    <3>1. Linked(next, root, s)
      BY <2>1
    <3>2. \A y \in ToSet(s) : y \in DOMAIN next
      <4>1. ToSet(s) = {s[i] : i \in 1..Len(s)}
        <5>1. DOMAIN s = 1..Len(s)
          BY <1>3
        <5> QED BY ONLY <5>1, Zenon DEF ToSet
      <4>2. \A i \in 1..Len(s) : s[i] \in DOMAIN next
        BY ONLY <3>1, LinkedEntries
      <4> QED BY ONLY <4>1, <4>2
    <3> QED BY <2>3, <3>1, <3>2
  <2>5. ASSUME NEW p \in DOMAIN info PROVE next2[p] = IF s # <<>> /\ p = b THEN a ELSE next[p]
    <3>1. next2[p] = IF info[p] > x THEN left2[p] ELSE right2[p]
      BY <1>6, <2>2 DEF Route
    <3>2. next[p] = IF info[p] > x THEN left[p] ELSE right[p]
      BY <2>1 DEF Route
    <3>3. CASE s # <<>> /\ p = b
      BY <1>2, <1>5, <1>7, <3>1, <3>3 DEF L, R
    <3>4. CASE ~(s # <<>> /\ p = b)
      BY <1>5, <1>7, <3>1, <3>2, <3>4
    <3> QED BY <3>3, <3>4
  <2>6. PICK k \in 1..Len(s) + 1 : k = n + 1
    BY <1>3
  <2>7. Inserted(next, next2, s, k, a)
    <3>1. a \notin ToSet(s) /\ a \in DOMAIN next2
      BY <2>3, <2>4
    <3>2. next2[a] = At(s, k)
      <4>1. n + 1 \notin 1..n
        BY <1>3
      <4> QED BY <4>1, <1>3, <2>3, <2>6 DEF At
    <3>3. k > 1 => s[k - 1] = b /\ s # <<>>
      BY <1>3, <2>6 DEF b
    <3>4. k > 1 => next2[s[k - 1]] = a
      BY <3>3, <2>5, <1>4
    <3>5. ASSUME NEW p \in ToSet(s), ~(k > 1 /\ p = s[k - 1]) PROVE p \in DOMAIN next2 /\ next2[p] = next[p]
      <4>1. p \in DOMAIN info /\ p \in DOMAIN next2
        BY <2>3, <2>4
      <4>2. s # <<>> => k > 1
        BY <1>3, <2>6
      <4> QED BY <4>1, <4>2, <3>3, <3>5, <2>5
    <3>6. \A p \in ToSet(s) : p \in DOMAIN next2
      BY <2>3, <2>4
    <3> QED BY <3>1, <3>2, <3>4, <3>5, <3>6 DEF Inserted
  <2>8. Linked(next2, IF k = 1 THEN a ELSE root, InsertAt(s, k, a))
    BY ONLY <2>4, <2>6, <2>7, <1>2, LinkedInsert
  <2>9. InsertAt(s, k, a) = Append(s, a)
    BY <1>2, <1>3, <2>6, InsertAtEnds
  <2>10. (IF k = 1 THEN a ELSE root) = root2
    BY <1>3, <1>8, <2>6
  <2>11. Append(s, a) # <<>> /\ Append(s, a)[Len(Append(s, a))] = a
    BY <1>2, <1>3
  <2> QED BY <1>6, <1>9, <2>2, <2>8, <2>9, <2>10, <2>11 DEF WayTo
(* the ways to the others *)
<1>14. ASSUME NEW q \in DOMAIN info PROVE WayTo(info2, left2, right2, root2, v[q], q)
  <2>1. PICK y \in Nat : y = info[q]
    BY <1>2
  <2>2. PICK next : next = Route(info, left, right, y)
    OBVIOUS
  <2>3. PICK next2 : next2 = Route(info2, left2, right2, y)
    OBVIOUS
  <2>4. Linked(next, root, w[q]) /\ w[q] # <<>> /\ w[q][Len(w[q])] = q
    BY <2>1, <2>2 DEF TreeOf, WayTo
  <2>5. ASSUME NEW p \in ToSet(w[q]) PROVE p \in DOMAIN next2 /\ next2[p] = next[p]
    <3>0. ToSet(w[q]) = {w[q][i] : i \in 1..Len(w[q])} /\ \A i \in 1..Len(w[q]) : w[q][i] \in DOMAIN info
      <4>1. ToSet(w[q]) = {w[q][i] : i \in 1..Len(w[q])}
        <5>1. w[q] \in Seq(Nat)
          BY WayFacts
        <5>2. DOMAIN w[q] = 1..Len(w[q])
          BY <5>1
        <5> QED BY ONLY <5>2, Zenon DEF ToSet
      <4>2. \A i \in 1..Len(w[q]) : w[q][i] \in DOMAIN info
        BY WayFacts
      <4> QED BY <4>1, <4>2
    <3>1. PICK i \in 1..Len(w[q]) : p = w[q][i] /\ p \in DOMAIN info
      BY <2>5, <3>0
    <3>2. /\ next2[p] = IF info[p] = y THEN 0 ELSE IF info[p] > y THEN left2[p] ELSE right2[p]
          /\ next[p] = IF info[p] = y THEN 0 ELSE IF info[p] > y THEN left[p] ELSE right[p]
          /\ p \in DOMAIN next2
      BY <3>1, <1>6, <2>2, <2>3 DEF Route
    <3>3. info[p] # y => next[p] # 0
      <4>1. ASSUME info[p] # y PROVE next[p] # 0
        <5>1. Len(w[q]) \in Nat
          BY WayFacts
        <5>2. i # Len(w[q])
          BY <3>1, <4>1, <2>1, <2>4
        <5>3. i + 1 \in 1..Len(w[q])
          BY <5>1, <5>2
        <5>4. w[q][i + 1] \in DOMAIN info
          BY <5>3, <3>0
        <5>5. next[p] = w[q][i + 1]
          BY <5>3, <3>1, <2>4 DEF Linked, At
        <5> QED BY <5>4, <5>5, <1>2
      <4> QED BY <4>1
    <3>4. info[p] # y /\ info[p] > y => left2[p] = left[p]
      BY <3>1, <3>2, <3>3, <1>7, <1>11
    <3>5. info[p] # y /\ ~(info[p] > y) => right2[p] = right[p]
      BY <3>1, <3>2, <3>3, <1>7, <1>12
    <3> QED BY <3>2, <3>4, <3>5
  <2>6. Linked(next2, root, w[q])
    BY <2>4, <2>5, LinkedSame
  <2>7. root2 = root
    BY <1>8, <1>10
  <2> QED BY <1>6, <1>9, <2>1, <2>3, <2>4, <2>6, <2>7 DEF WayTo
<1>15. Children(info2, left2, right2, v, a)
  BY <1>7 DEF Children
<1>16. ASSUME NEW p \in DOMAIN info PROVE Children(info2, left2, right2, v, p)
  <2>1. Children(info, left, right, w, p)
    BY DEF TreeOf
  <2>2. left2[p] # 0 => info2[left2[p]] < info2[p] /\ v[left2[p]] = Append(v[p], left2[p])
    <3>1. CASE L /\ p = b
      BY <3>1, <1>4, <1>5, <1>6, <1>7, <1>9 DEF L
    <3>2. CASE ~(L /\ p = b)
      BY <3>2, <1>1, <1>6, <1>7, <1>9, <2>1 DEF Children
    <3> QED BY <3>1, <3>2
  <2>3. right2[p] # 0 => info2[right2[p]] > info2[p] /\ v[right2[p]] = Append(v[p], right2[p])
    <3>1. CASE R /\ p = b
      <4>1. x > info[b] /\ right2[p] = a
        BY <3>1, <1>2, <1>4, <1>5, <1>7 DEF R
      <4> QED BY <3>1, <4>1, <1>4, <1>5, <1>6, <1>9
    <3>2. CASE ~(R /\ p = b)
      BY <3>2, <1>1, <1>6, <1>7, <1>9, <2>1 DEF Children
    <3> QED BY <3>1, <3>2
  <2> QED BY <2>2, <2>3 DEF Children
<1>17. root2 \in DOMAIN info2 \cup {0} /\ DOMAIN info2 \subseteq A
  BY <1>1, <1>6, <1>8
<1>18. TreeOf(A, T, info2, left2, right2, root2, v)
  BY <1>6, <1>7, <1>13, <1>14, <1>15, <1>16, <1>17 DEF TreeOf
<1> QED BY <1>18 DEF v

LEMMA TreeEmpty ==
  ASSUME NEW A, NEW T, NEW info, NEW left, NEW right, NEW w,
         DOMAIN info = {}, DOMAIN left = {}, DOMAIN right = {},
         info \in [{} -> T], left \in [{} -> {0}], right \in [{} -> {0}]
  PROVE  TreeOf(A, T, info, left, right, 0, w)
BY DEF TreeOf

(* A way goes through the ways to the nodes on it. *)
LEMMA Passing ==
  ASSUME NEW A, NEW T, Bounds(A, T), NEW info, NEW left, NEW right, NEW root, NEW w,
         TreeOf(A, T, info, left, right, root, w), NEW q \in DOMAIN info, NEW p \in ToSet(w[q])
  PROVE  /\ p \in DOMAIN info /\ Len(w[p]) \in 1..Len(w[q])
         /\ \A j \in 1..Len(w[p]) : w[p][j] = w[q][j]
         /\ w[q][Len(w[p])] = p
         /\ p # q => /\ Len(w[p]) + 1 \in 1..Len(w[q]) /\ info[p] # info[q]
                     /\ w[q][Len(w[p]) + 1] = IF info[p] > info[q] THEN left[p] ELSE right[p]
                     /\ (IF info[p] > info[q] THEN left[p] ELSE right[p]) \in ToSet(w[q]) \cap DOMAIN info
<1>1. PICK s \in Seq(Nat) : s = w[q] /\ Len(s) \in Nat /\ Len(s) >= 1
  <2>1. w[q] \in Seq(Nat) /\ Len(w[q]) \in 1..Cardinality(DOMAIN info)
    BY WayFacts
  <2> QED BY <2>1
<1>2. ToSet(s) = {s[i] : i \in 1..Len(s)}
  <2>1. DOMAIN s = 1..Len(s)
    BY <1>1
  <2> QED BY ONLY <2>1, Zenon DEF ToSet
<1>3. PICK i \in 1..Len(s) : p = s[i]
  BY <1>1, <1>2
<1>4. Linked(Route(info, left, right, info[q]), root, s) /\ s[Len(s)] = q
  BY <1>1, WayFacts
<1>5. \A l \in 1..Len(s) : s[l] \in DOMAIN info /\ Len(w[s[l]]) = l /\ \A j \in 1..l : w[s[l]][j] = s[j]
  BY <1>4, WayAlong
<1>6. p \in DOMAIN info /\ Len(w[p]) = i /\ \A j \in 1..i : w[p][j] = s[j]
  BY <1>3, <1>5
<1>7. ASSUME p # q
      PROVE  /\ i + 1 \in 1..Len(s) /\ info[p] # info[q]
             /\ s[i + 1] = IF info[p] > info[q] THEN left[p] ELSE right[p]
             /\ s[i + 1] \in ToSet(s)
  <2>1. i # Len(s)
    BY <1>3, <1>4, <1>7
  <2>2. i + 1 \in 1..Len(s) /\ i \in 1..Len(s) - 1
    BY <1>1, <2>1
  <2>3. /\ info[w[q][i]] # info[q]
        /\ w[q][i + 1] = IF info[w[q][i]] > info[q] THEN left[w[q][i]] ELSE right[w[q][i]]
    BY <1>1, <2>2, WayFacts
  <2> QED BY <1>1, <1>2, <1>3, <2>2, <2>3
<1> QED BY <1>1, <1>3, <1>5, <1>6, <1>7

(* What is below a child is below its parent, on that side. *)
LEMMA Turned ==
  ASSUME NEW A, NEW T, Bounds(A, T), NEW info, NEW left, NEW right, NEW root, NEW w,
         TreeOf(A, T, info, left, right, root, w), NEW q \in DOMAIN info, NEW p \in DOMAIN info,
         NEW c \in ToSet(w[q]), c = left[p] \/ c = right[p]
  PROVE  /\ p \in ToSet(w[q]) /\ p # q /\ Len(w[c]) = Len(w[p]) + 1
         /\ c = left[p] => info[q] < info[p]
         /\ c = right[p] => info[q] > info[p]
<1>1. c \in DOMAIN info /\ Len(w[c]) \in 1..Len(w[q]) /\ \A j \in 1..Len(w[c]) : w[c][j] = w[q][j]
  BY Passing
<1>2. c # 0 /\ left[p] # right[p] /\ info[p] \in Nat /\ info[q] \in Nat
  BY <1>1, TreeTypes
<1>3. w[c] = Append(w[p], c)
  BY <1>2 DEF TreeOf, Children
<1>4. PICK u \in Seq(Nat) : u = w[p] /\ Len(u) >= 1 /\ u[Len(u)] = p
  <2>1. w[p] \in Seq(Nat) /\ Len(w[p]) \in 1..Cardinality(DOMAIN info) /\ w[p][Len(w[p])] = p
    BY WayFacts
  <2> QED BY <2>1
<1>5. PICK s \in Seq(Nat) : s = w[q]
  BY WayFacts
<1>6. PICK k \in Nat : k = Len(u) /\ k >= 1
  BY <1>4
<1>7. c \in Nat
  BY <1>1, TreeTypes
<1>8. Len(w[c]) = k + 1 /\ w[c][k] = p
  BY <1>3, <1>4, <1>6, <1>7
<1>9. k \in 1..Len(w[c]) /\ k \in 1..Len(s) /\ k + 1 \in 1..Len(s)
  BY <1>1, <1>5, <1>6, <1>8
<1>10. s[k] = p
  BY <1>1, <1>5, <1>8, <1>9
<1>11. p \in ToSet(s)
  <2>1. DOMAIN s = 1..Len(s)
    OBVIOUS
  <2> QED BY <1>9, <1>10, <2>1, Zenon DEF ToSet
<1>12. p # q
  <2>1. Len(s) >= k + 1 /\ Len(s) \in Nat
    BY <1>9
  <2> QED BY <2>1, <1>4, <1>5, <1>6
<1>13. s[k + 1] = IF info[p] > info[q] THEN left[p] ELSE right[p]
  BY <1>4, <1>5, <1>6, <1>11, <1>12, Passing
<1>14. s[k + 1] = c
  <2>1. w[q][Len(w[c])] = c
    BY Passing
  <2> QED BY <2>1, <1>5, <1>8
<1>15. info[p] # info[q]
  BY <1>5, <1>11, <1>12, Passing
<1> QED BY <1>2, <1>4, <1>5, <1>6, <1>8, <1>11, <1>12, <1>13, <1>14, <1>15

(* The link that leads to a node. *)
LEMMA ParentOf ==
  ASSUME NEW A, NEW T, Bounds(A, T), NEW info, NEW left, NEW right, NEW root, NEW w,
         TreeOf(A, T, info, left, right, root, w), NEW m \in DOMAIN info,
         NEW b, b = w[m][Len(w[m]) - 1]
  PROVE  /\ Len(w[m]) > 1 => b \in DOMAIN info /\ b # m /\ info[b] # info[m] /\ w[m] = Append(w[b], m)
         /\ \A p \in DOMAIN info :
              /\ left[p] = m <=> Len(w[m]) > 1 /\ p = b /\ info[b] > info[m]
              /\ right[p] = m <=> Len(w[m]) > 1 /\ p = b /\ info[b] < info[m]
         /\ root = m <=> Len(w[m]) = 1
<1>1. PICK s \in Seq(Nat) : s = w[m] /\ Len(s) >= 1 /\ s[Len(s)] = m /\ s[1] = root /\ Len(s) \in Nat
  <2>1. w[m] \in Seq(Nat) /\ Len(w[m]) \in 1..Cardinality(DOMAIN info)
    BY WayFacts
  <2> QED BY <2>1, WayFacts
<1>2. PICK n \in Nat : n = Len(s)
  BY <1>1
<1>3. DOMAIN s = 1..n
  BY <1>2
<1>4. \A i \in 1..n : s[i] \in ToSet(s)
  BY <1>3, Zenon DEF ToSet
<1>5. m \in Nat \ {0} /\ \A p \in DOMAIN info : info[p] \in Nat
  BY TreeTypes
<1>6. \A i, j \in 1..n : s[i] = s[j] => i = j
  BY <1>1, <1>2, WayFacts
<1>7. ASSUME n > 1
      PROVE  /\ b \in DOMAIN info /\ b # m /\ info[b] # info[m]
             /\ m = IF info[b] > info[m] THEN left[b] ELSE right[b]
  <2>1. n - 1 \in 1..n /\ n \in 1..n /\ n - 1 \in 1..n - 1 /\ (n - 1) + 1 = n
    BY <1>7
  <2>2. b \in DOMAIN info
    BY <1>1, <1>2, <2>1, WayFacts
  <2>3. b # m
    BY <1>1, <1>2, <1>6, <2>1
  <2>4. info[b] # info[m] /\ s[n] = IF info[b] > info[m] THEN left[b] ELSE right[b]
    <3>1. PICK i \in 1..Len(w[m]) - 1 : i = n - 1 /\ i + 1 = n /\ b = w[m][i]
      BY <1>1, <1>2, <2>1
    <3>2. /\ info[w[m][i]] # info[m]
          /\ w[m][i + 1] = IF info[w[m][i]] > info[m] THEN left[w[m][i]] ELSE right[w[m][i]]
      BY WayFacts
    <3> QED BY ONLY <3>1, <3>2, <1>1
  <2> QED BY <1>1, <1>2, <2>2, <2>3, <2>4
<1>8. ASSUME n > 1 PROVE w[m] = Append(w[b], m)
  BY <1>5, <1>7, <1>8 DEF TreeOf, Children
<1>9. ASSUME NEW p \in DOMAIN info, left[p] = m \/ right[p] = m
      PROVE  /\ n > 1 /\ p = b
             /\ left[p] = m => info[p] > info[m]
             /\ right[p] = m => info[p] < info[m]
  <2>1. w[m] = Append(w[p], m)
    BY <1>5, <1>9 DEF TreeOf, Children
  <2>2. PICK u \in Seq(Nat) : u = w[p] /\ Len(u) >= 1 /\ u[Len(u)] = p
    <3>1. w[p] \in Seq(Nat) /\ Len(w[p]) \in 1..Cardinality(DOMAIN info) /\ w[p][Len(w[p])] = p
      BY WayFacts
    <3> QED BY <3>1
  <2>3. n = Len(u) + 1 /\ s[Len(u)] = p
    BY <1>1, <1>2, <1>5, <2>1, <2>2
  <2>4. Len(u) = n - 1 /\ n > 1
    BY <2>2, <2>3
  <2> QED BY <1>1, <1>2, <1>5, <1>9, <2>3, <2>4 DEF TreeOf, Children
<1>10. root = m <=> n = 1
  <2>1. 1 \in 1..n /\ n \in 1..n
    BY <1>1, <1>2
  <2> QED BY <1>1, <1>2, <1>6, <2>1
<1> QED BY <1>1, <1>2, <1>5, <1>7, <1>8, <1>9, <1>10

LEMMA ToSetAppend ==
  ASSUME NEW s \in Seq(Nat), NEW c \in Nat
  PROVE  ToSet(Append(s, c)) = ToSet(s) \cup {c}
<1>1. PICK n \in Nat : n = Len(s)
  OBVIOUS
<1>2. PICK t \in Seq(Nat) : t = Append(s, c) /\ Len(t) = n + 1 /\ t[n + 1] = c /\ \A i \in 1..n : t[i] = s[i]
  <2>1. /\ Append(s, c) \in Seq(Nat) /\ Len(Append(s, c)) = Len(s) + 1
        /\ Append(s, c)[Len(s) + 1] = c /\ \A i \in 1..Len(s) : Append(s, c)[i] = s[i]
    BY AppendProperties
  <2> QED BY <1>1, <2>1
<1>3. DOMAIN t = 1..n + 1 /\ DOMAIN s = 1..n /\ \A i \in 1..n + 1 : i \in 1..n \/ i = n + 1
  BY <1>1, <1>2
<1>4. ToSet(t) = {t[i] : i \in 1..n + 1} /\ ToSet(s) = {s[i] : i \in 1..n}
  BY ONLY <1>3, Zenon DEF ToSet
<1>5. n + 1 \in 1..n + 1 /\ \A i \in 1..n : i \in 1..n + 1
  OBVIOUS
<1>6. ToSet(t) = ToSet(s) \cup {c}
  BY <1>2, <1>3, <1>4, <1>5
<1> QED BY <1>2, <1>6

LEMMA RemoveAppend ==
  ASSUME NEW s \in Seq(Nat), NEW c \in Nat, NEW k \in 1..Len(s) + 1
  PROVE  RemoveAt(Append(s, c), k) = IF k = Len(s) + 1 THEN s ELSE Append(RemoveAt(s, k), c)
<1>1. PICK t \in Seq(Nat) : t = Append(s, c) /\ Len(t) = Len(s) + 1 /\ t[Len(s) + 1] = c
                            /\ \A i \in 1..Len(s) : t[i] = s[i]
  <2>1. /\ Append(s, c) \in Seq(Nat) /\ Len(Append(s, c)) = Len(s) + 1
        /\ Append(s, c)[Len(s) + 1] = c /\ \A i \in 1..Len(s) : Append(s, c)[i] = s[i]
    BY AppendProperties
  <2> QED BY <2>1
<1>2. PICK r \in Seq(Nat) : r = RemoveAt(t, k) /\ Len(r) = Len(t) - 1
                            /\ \A i \in 1..Len(t) - 1 : r[i] = IF i < k THEN t[i] ELSE t[i + 1]
  <2>1. IsRemove(Nat, t, k, RemoveAt(t, k))
    BY <1>1, RemoveIs
  <2> QED BY ONLY <2>1, Zenon DEF IsRemove
<1>3. PICK n \in Nat : n = Len(s)
  OBVIOUS
<1>4. CASE k = n + 1
  <2>1. Len(r) = n /\ \A i \in 1..n : r[i] = s[i]
    BY <1>1, <1>2, <1>3, <1>4
  <2>2. r = s
    BY <2>1, <1>2, <1>3, SeqEqual
  <2> QED BY <2>2, <1>1, <1>2, <1>3, <1>4
<1>5. CASE k # n + 1
  <2>1. k \in 1..Len(s)
    BY <1>3, <1>5
  <2>0. Len(t) = n + 1 /\ Len(r) = n /\ \A i \in 1..n : r[i] = IF i < k THEN t[i] ELSE t[i + 1]
    BY <1>1, <1>2, <1>3
  <2>2. PICK u \in Seq(Nat) : u = RemoveAt(s, k) /\ Len(u) = Len(s) - 1
                              /\ \A i \in 1..Len(s) - 1 : u[i] = IF i < k THEN s[i] ELSE s[i + 1]
    <3>1. IsRemove(Nat, s, k, RemoveAt(s, k))
      BY <2>1, RemoveIs
    <3> QED BY ONLY <3>1, Zenon DEF IsRemove
  <2>3. PICK v \in Seq(Nat) : v = Append(u, c) /\ Len(v) = n /\ v[n] = c
                              /\ \A i \in 1..n - 1 : v[i] = u[i]
    <3>1. Len(u) + 1 = n /\ Len(u) = n - 1
      BY <1>3, <2>1, <2>2
    <3>2. /\ Append(u, c) \in Seq(Nat) /\ Len(Append(u, c)) = Len(u) + 1
          /\ Append(u, c)[Len(u) + 1] = c /\ \A i \in 1..Len(u) : Append(u, c)[i] = u[i]
      BY AppendProperties
    <3> QED BY <3>1, <3>2
  <2>4. ASSUME NEW i \in 1..n PROVE r[i] = v[i]
    <3>1. CASE i = n
      <4>1. ~(i < k)
        BY <2>1, <1>3, <3>1
      <4>2. r[n] = t[n + 1] /\ t[n + 1] = c
        BY <2>0, <3>1, <4>1, <1>1, <1>3
      <4> QED BY <3>1, <4>2, <2>3
    <3>2. CASE i # n
      <4>1. i \in 1..n - 1 /\ i + 1 \in 1..n
        BY <3>2
      <4>2. r[i] = IF i < k THEN s[i] ELSE s[i + 1]
        BY <2>0, <4>1, <1>1, <1>3
      <4>3. u[i] = IF i < k THEN s[i] ELSE s[i + 1]
        BY <2>2, <4>1, <1>3
      <4> QED BY <4>1, <4>2, <4>3, <2>3
    <3> QED BY <3>1, <3>2
  <2>5. r = v
    BY <2>0, <2>3, <2>4, SeqEqual
  <2> QED BY <2>2, <2>3, <2>5, <1>1, <1>2, <1>3, <1>5
<1> QED BY <1>4, <1>5

(* A node with at most one child leaves: where a pointer led to it, it     *)
(* leads to the child.                                                     *)
Unlinked(info, left, right, root, m, child, info2, left2, right2, root2) ==
  /\ info2 = [p \in DOMAIN info \ {m} |-> info[p]]
  /\ left2 = [p \in DOMAIN info \ {m} |-> IF left[p] = m THEN child ELSE left[p]]
  /\ right2 = [p \in DOMAIN info \ {m} |-> IF right[p] = m THEN child ELSE right[p]]
  /\ root2 = IF root = m THEN child ELSE root

WaysWithout(info, w, m) ==
  [q \in DOMAIN info \ {m} |-> IF m \in ToSet(w[q]) THEN RemoveAt(w[q], Len(w[m])) ELSE w[q]]

LEMMA TreeUnlink ==
  ASSUME NEW A, NEW T, Bounds(A, T), NEW info, NEW left, NEW right, NEW root, NEW w,
         TreeOf(A, T, info, left, right, root, w), NEW m \in DOMAIN info,
         NEW child, (left[m] = 0 /\ child = right[m]) \/ (right[m] = 0 /\ child = left[m]),
         NEW info2, NEW left2, NEW right2, NEW root2,
         Unlinked(info, left, right, root, m, child, info2, left2, right2, root2)
  PROVE  TreeOf(A, T, info2, left2, right2, root2, WaysWithout(info, w, m))
<1> DEFINE D == DOMAIN info
           v == WaysWithout(info, w, m)
           k == Len(w[m])
<1>1. /\ D \subseteq A /\ info \in [D -> T] /\ left \in [D -> D \cup {0}] /\ right \in [D -> D \cup {0}]
      /\ root \in D \cup {0} /\ D \subseteq Nat \ {0}
      /\ child \in D \cup {0} /\ child # m /\ (child # 0 => child = left[m] \/ child = right[m])
      /\ \A p \in D : info[p] \in Nat
  <2>1. info[m] \in Nat /\ (left[m] # 0 => info[left[m]] < info[m]) /\ (right[m] # 0 => info[right[m]] > info[m])
    BY TreeTypes
  <2>2. /\ D \subseteq A /\ info \in [D -> T] /\ left \in [D -> D \cup {0}] /\ right \in [D -> D \cup {0}]
        /\ root \in D \cup {0}
    BY DEF TreeOf
  <2>3. D \subseteq Nat \ {0} /\ \A p \in D : info[p] \in Nat
    BY TreeTypes
  <2>4. child \in D \cup {0} /\ (child # 0 => child = left[m] \/ child = right[m])
    BY <2>2
  <2>5. child # m
    BY <2>1, <2>3, <2>4
  <2> QED BY <2>2, <2>3, <2>4, <2>5
<1>2. /\ DOMAIN info2 = D \ {m} /\ DOMAIN left2 = D \ {m} /\ DOMAIN right2 = D \ {m}
      /\ \A p \in D \ {m} : /\ info2[p] = info[p]
                            /\ left2[p] = IF left[p] = m THEN child ELSE left[p]
                            /\ right2[p] = IF right[p] = m THEN child ELSE right[p]
      /\ root2 = IF root = m THEN child ELSE root
  BY DEF Unlinked
<1>3. \A q \in D \ {m} : v[q] = IF m \in ToSet(w[q]) THEN RemoveAt(w[q], k) ELSE w[q]
  BY DEF WaysWithout
<1>4. k \in Nat /\ k >= 1 /\ w[m] \in Seq(Nat) /\ m \in ToSet(w[m]) /\ w[m][k] = m
  <2>1. k \in 1..Cardinality(D)
    BY WayFacts
  <2> QED BY <2>1, WayFacts
<1> HIDE DEF v, k
<1>5. ASSUME NEW q \in D \ {m} PROVE WayTo(info2, left2, right2, root2, v[q], q)
  <2>1. PICK y \in Nat : y = info[q]
    BY <1>1
  <2>2. PICK next : next = Route(info, left, right, y)
    OBVIOUS
  <2>3. PICK next2 : next2 = Route(info2, left2, right2, y)
    OBVIOUS
  <2>4. PICK s : s = w[q]
    OBVIOUS
  <2>5. /\ Linked(next, root, s) /\ s[Len(s)] = q /\ q \in ToSet(s)
        /\ s \in Seq(Nat) /\ \A i, j \in 1..Len(s) : s[i] = s[j] => i = j
    BY <2>1, <2>2, <2>4, WayFacts
  <2>6. PICK n \in Nat : n = Len(s) /\ n >= 1
    <3>1. Len(w[q]) \in 1..Cardinality(D)
      BY WayFacts
    <3> QED BY <3>1, <2>4
  <2>7. ToSet(s) = {s[i] : i \in 1..n}
    <3>1. DOMAIN s = 1..n
      BY <2>5, <2>6
    <3> QED BY ONLY <3>1, Zenon DEF ToSet
  <2>8. \A i \in 1..n : s[i] \in D /\ next[s[i]] = At(s, i + 1)
    BY <2>2, <2>4, <2>5, <2>6, WayFacts DEF Linked
  <2>9. ASSUME NEW p \in D \ {m}
        PROVE  p \in DOMAIN next2 /\ next2[p] = IF next[p] = m THEN child ELSE next[p]
    <3>1. next[p] = IF info[p] = y THEN 0 ELSE IF info[p] > y THEN left[p] ELSE right[p]
      BY <2>2 DEF Route
    <3>2. p \in DOMAIN next2 /\ next2[p] = IF info[p] = y THEN 0 ELSE IF info[p] > y THEN left2[p] ELSE right2[p]
      BY <1>2, <2>3 DEF Route
    <3> QED BY <3>1, <3>2, <1>1, <1>2
  <2>10. CASE m \notin ToSet(s)
    <3>1. ASSUME NEW b \in ToSet(s) PROVE b \in DOMAIN next2 /\ next2[b] = next[b]
      <4>1. PICK i \in 1..n : b = s[i]
        BY <2>7
      <4>2. next[b] = At(s, i + 1) /\ b \in D \ {m}
        BY <2>8, <2>10, <4>1
      <4>3. next[b] # m
        <5>1. i + 1 \in 1..n => s[i + 1] # m
          BY <2>7, <2>10
        <5> QED BY <4>2, <5>1, <1>1, <2>6 DEF At
      <4> QED BY <2>9, <4>2, <4>3
    <3>2. Linked(next2, root, s)
      BY <2>5, <3>1, LinkedSame
    <3>3. root2 = root
      <4>1. 1 \in 1..n /\ s[1] = root
        BY <2>4, <2>6, WayFacts
      <4> QED BY <4>1, <2>7, <2>10, <1>2
    <3>4. v[q] = s /\ s # <<>> /\ info2[q] = y
      BY <1>2, <1>3, <2>1, <2>4, <2>5, <2>6, <2>10
    <3> QED BY <3>2, <3>3, <3>4, <2>3, <2>5 DEF WayTo
  <2>11. CASE m \in ToSet(s)
    <3>1. s[k] = m /\ k + 1 \in 1..n /\ At(s, k + 1) = child /\ k \in 1..n
      <4>1. /\ w[q][k] = m /\ k + 1 \in 1..Len(w[q])
            /\ w[q][k + 1] = IF info[m] > info[q] THEN left[m] ELSE right[m]
            /\ (IF info[m] > info[q] THEN left[m] ELSE right[m]) \in D
        BY <2>4, <2>11, Passing DEF k
      <4>2. 0 \notin D
        BY <1>1
      <4>3. s[k + 1] = child
        BY <4>1, <4>2, <2>4
      <4> QED BY <4>1, <4>3, <1>4, <2>4, <2>6 DEF At
    <3>2. k > 1 => k - 1 \in 1..n /\ (k - 1) + 1 = k /\ s[k - 1] # m
      <4>1. k > 1 => k - 1 \in 1..n /\ (k - 1) + 1 = k
        BY <1>4, <3>1
      <4> QED BY <4>1, <3>1, <2>5, <2>6
    <3>3. next[m] = child
      BY <2>8, <3>1
    <3>4. ASSUME k > 1 PROVE next2[s[k - 1]] = next[s[k]]
      <4>1. s[k - 1] \in D \ {m} /\ next[s[k - 1]] = At(s, k)
        BY <3>2, <3>4, <2>8
      <4>2. At(s, k) = m
        BY <3>1, <2>6 DEF At
      <4> QED BY <4>1, <4>2, <2>9, <3>1, <3>3
    <3>5. ASSUME NEW b \in ToSet(s) \ {s[k]}
          PROVE  b \in DOMAIN next2 /\ (~(k > 1 /\ b = s[k - 1]) => next2[b] = next[b])
      <4>1. PICK i \in 1..n : b = s[i]
        BY <2>7
      <4>2. next[b] = At(s, i + 1) /\ b \in D \ {m}
        BY <2>8, <3>1, <3>5, <4>1
      <4>3. ASSUME next[b] = m PROVE k > 1 /\ b = s[k - 1]
        <5>1. i + 1 \in 1..n /\ s[i + 1] = m
          BY <4>2, <4>3, <1>1, <2>6 DEF At
        <5>2. i + 1 = k
          BY <5>1, <3>1, <2>5, <2>6
        <5>3. k > 1 /\ i = k - 1
          BY <5>2
        <5> QED BY <5>3, <4>1
      <4> QED BY <2>9, <4>2, <4>3
    <3>6. Linked(next2, IF k = 1 THEN next[s[k]] ELSE root, RemoveAt(s, k))
      <4>1. k \in 1..Len(s)
        BY <2>6, <3>1
      <4> QED BY <4>1, <2>5, <3>4, <3>5, LinkedRemove
    <3>7. (IF k = 1 THEN next[s[k]] ELSE root) = root2
      <4>1. root = m <=> k = 1
        BY ParentOf DEF k
      <4> QED BY <4>1, <1>2, <3>1, <3>3
    <3>8. v[q] = RemoveAt(s, k) /\ info2[q] = y
      BY <1>2, <1>3, <2>1, <2>4, <2>11
    <3>9. RemoveAt(s, k) # <<>> /\ RemoveAt(s, k)[Len(RemoveAt(s, k))] = q
      <4>1. PICK r \in Seq(Nat) : r = RemoveAt(s, k) /\ Len(r) = Len(s) - 1
                              /\ \A i \in 1..Len(s) - 1 : r[i] = IF i < k THEN s[i] ELSE s[i + 1]
        <5>1. k \in 1..Len(s)
          BY <2>6, <3>1
        <5>2. IsRemove(Nat, s, k, RemoveAt(s, k))
          BY <2>5, <5>1, RemoveIs
        <5> QED BY ONLY <5>2, Zenon DEF IsRemove
      <4>2. n - 1 \in 1..n - 1 /\ ~(n - 1 < k) /\ (n - 1) + 1 = n
        BY <1>4, <3>1
      <4>3. r[n - 1] = q /\ Len(r) = n - 1
        BY <4>1, <4>2, <2>5, <2>6
      <4>4. r # <<>>
        BY <4>2, <4>3
      <4> QED BY <4>1, <4>3, <4>4
    <3> QED BY <3>6, <3>7, <3>8, <3>9, <2>3 DEF WayTo
  <2> QED BY <2>4, <2>10, <2>11
(* the ways to the children *)
<1>6. ASSUME NEW p \in D \ {m}, NEW c \in D, c = left[p] \/ c = right[p]
      PROVE  /\ c = m => /\ child # 0 => v[child] = Append(v[p], child)
                         /\ child # 0 /\ c = left[p] => info[child] < info[p]
                         /\ child # 0 /\ c = right[p] => info[child] > info[p]
             /\ c # m => v[c] = Append(v[p], c)
  <2>0. c \in Nat /\ c # 0 /\ p \in DOMAIN info
    BY <1>1
  <2>1. w[c] = Append(w[p], c) /\ c \in Nat /\ w[p] \in Seq(Nat)
    <3>1. w[p] \in Seq(Nat)
      BY WayFacts
    <3>2. Children(info, left, right, w, p)
      BY DEF TreeOf
    <3> QED BY <2>0, <3>1, <3>2, <1>6 DEF Children
  <2>2. ToSet(w[c]) = ToSet(w[p]) \cup {c}
    BY <2>1, ToSetAppend
  <2>3. CASE c = m
    <3>1. m \notin ToSet(w[p])
      <4>1. Len(w[m]) = Len(w[p]) + 1 /\ Len(w[p]) \in Nat
        BY <2>1, <2>3
      <4>2. m \in ToSet(w[p]) => Len(w[m]) \in 1..Len(w[p])
        BY Passing
      <4> QED BY <4>1, <4>2
    <3>2. v[p] = w[p]
      BY <1>3, <3>1
    <3>3. ASSUME child # 0 PROVE /\ v[child] = Append(v[p], child)
                                 /\ c = left[p] => info[child] < info[p]
                                 /\ c = right[p] => info[child] > info[p]
      <4>1. child \in D \ {m} /\ (child = left[m] \/ child = right[m]) /\ child \in Nat
        BY <1>1, <3>3
      <4>2. w[child] = Append(w[m], child)
        BY <1>1, <3>3, <4>1 DEF TreeOf, Children
      <4>3. m \in ToSet(w[child])
        <5>1. child \in ToSet(w[child])
          BY <4>1, WayFacts
        <5> QED BY <4>1, <5>1, Turned
      <4>4. v[child] = RemoveAt(w[child], k)
        BY <1>3, <4>1, <4>3
      <4>5. k = Len(w[p]) + 1 /\ k \in 1..Len(w[m]) /\ k # Len(w[m]) + 1 /\ k \in 1..Len(w[m]) + 1
            /\ k \in 1..Len(w[p]) + 1
        BY <2>1, <2>3, <1>4 DEF k
      <4>6. RemoveAt(w[child], k) = Append(RemoveAt(w[m], k), child)
        <5>1. PICK t \in Seq(Nat) : t = w[m]
          BY <1>4
        <5>2. k \in 1..Len(t) + 1 /\ k # Len(t) + 1 /\ child \in Nat
          BY <4>1, <4>5, <5>1
        <5>3. RemoveAt(Append(t, child), k) = Append(RemoveAt(t, k), child)
          BY ONLY <5>2, t \in Seq(Nat), RemoveAppend
        <5> QED BY <4>2, <5>1, <5>3
      <4>7. RemoveAt(w[m], k) = w[p]
        BY <4>5, <2>1, <2>3, RemoveAppend
      <4>8. (c = left[p] => info[child] < info[p]) /\ (c = right[p] => info[child] > info[p])
        BY <4>1, <4>3, <2>3, <1>6, Turned
      <4> QED BY <3>2, <4>4, <4>6, <4>7, <4>8
    <3> QED BY <2>3, <3>3
  <2>4. CASE c # m
    <3>1. m \in ToSet(w[c]) <=> m \in ToSet(w[p])
      BY <2>2, <2>4
    <3>2. CASE m \in ToSet(w[p])
      <4>1. k \in 1..Len(w[p])
        BY <3>2, Passing DEF k
      <4>2. k # Len(w[p]) + 1 /\ k \in 1..Len(w[p]) + 1
        BY <4>1, <2>1
      <4>3. RemoveAt(w[c], k) = Append(RemoveAt(w[p], k), c)
        BY <2>1, <4>2, RemoveAppend
      <4> QED BY <4>3, <3>1, <3>2, <2>4, <1>3
    <3>3. CASE m \notin ToSet(w[p])
      BY <3>1, <3>3, <2>1, <2>4, <1>3
    <3> QED BY <2>4, <3>2, <3>3
  <2> QED BY <2>3, <2>4
<1>7. ASSUME NEW p \in D \ {m} PROVE Children(info2, left2, right2, v, p)
  <2>1. Children(info, left, right, w, p)
    BY DEF TreeOf
  <2>2. ASSUME left2[p] # 0 PROVE info2[left2[p]] < info2[p] /\ v[left2[p]] = Append(v[p], left2[p])
    <3>1. left[p] \in D
      BY <1>1, <1>2, <2>2
    <3>2. CASE left[p] = m
      BY <3>1, <3>2, <2>2, <1>1, <1>2, <1>6
    <3>3. CASE left[p] # m
      BY <3>1, <3>3, <2>1, <2>2, <1>1, <1>2, <1>6 DEF Children
    <3> QED BY <3>2, <3>3
  <2>3. ASSUME right2[p] # 0 PROVE info2[right2[p]] > info2[p] /\ v[right2[p]] = Append(v[p], right2[p])
    <3>1. right[p] \in D
      BY <1>1, <1>2, <2>3
    <3>2. CASE right[p] = m
      BY <3>1, <3>2, <2>3, <1>1, <1>2, <1>6
    <3>3. CASE right[p] # m
      BY <3>1, <3>3, <2>1, <2>3, <1>1, <1>2, <1>6 DEF Children
    <3> QED BY <3>2, <3>3
  <2> QED BY <2>2, <2>3 DEF Children
<1>8. /\ info2 \in [D \ {m} -> T]
      /\ left2 \in [D \ {m} -> (D \ {m}) \cup {0}]
      /\ right2 \in [D \ {m} -> (D \ {m}) \cup {0}]
      /\ root2 \in (D \ {m}) \cup {0}
  BY <1>1, <1>2 DEF Unlinked
<1>9. TreeOf(A, T, info2, left2, right2, root2, v)
  BY <1>1, <1>2, <1>5, <1>7, <1>8 DEF TreeOf
<1> QED BY <1>9 DEF v

(* A node takes another element, on the same side of those below and above *)
(* it.                                                                     *)
Rekeyable(info, w, n, z) ==
  /\ \A q \in DOMAIN info : q # n /\ n \in ToSet(w[q]) => info[q] # z /\ (info[q] < z <=> info[q] < info[n])
  /\ \A i \in 1..Len(w[n]) - 1 : info[w[n][i]] # z /\ (info[w[n][i]] > z <=> info[w[n][i]] > info[n])

LEMMA TreeRekey ==
  ASSUME NEW A, NEW T, Bounds(A, T), NEW info, NEW left, NEW right, NEW root, NEW w,
         TreeOf(A, T, info, left, right, root, w), NEW n \in DOMAIN info, NEW z \in T,
         Rekeyable(info, w, n, z)
  PROVE  TreeOf(A, T, [info EXCEPT ![n] = z], left, right, root, w)
<1> DEFINE D == DOMAIN info
           info2 == [info EXCEPT ![n] = z]
<1>1. /\ info \in [D -> T] /\ z \in Nat /\ \A p \in D : info[p] \in Nat
  BY TreeTypes DEF TreeOf, Bounds
<1>2. DOMAIN info2 = D /\ info2[n] = z /\ (\A p \in D : p # n => info2[p] = info[p]) /\ info2 \in [D -> T]
  BY <1>1
<1> HIDE DEF info2
<1>3. ASSUME NEW q \in D PROVE WayTo(info2, left, right, root, w[q], q)
  <2>1. PICK s : s = w[q]
    OBVIOUS
  <2>2. PICK next : next = Route(info, left, right, info[q])
    OBVIOUS
  <2>3. PICK next2 : next2 = Route(info2, left, right, info2[q])
    OBVIOUS
  <2>4. Linked(next, root, s) /\ s # <<>> /\ s[Len(s)] = q
    BY <2>1, <2>2 DEF TreeOf, WayTo
  <2>5. ASSUME NEW b \in ToSet(s) PROVE b \in DOMAIN next2 /\ next2[b] = next[b]
    <3>1. b \in D /\ (b # q => info[b] # info[q])
      BY <2>1, Passing
    <3>2. /\ b \in DOMAIN next2
          /\ next2[b] = IF info2[b] = info2[q] THEN 0 ELSE IF info2[b] > info2[q] THEN left[b] ELSE right[b]
          /\ next[b] = IF info[b] = info[q] THEN 0 ELSE IF info[b] > info[q] THEN left[b] ELSE right[b]
      BY <3>1, <1>2, <2>2, <2>3 DEF Route
    <3>3. CASE b = q
      BY <3>2, <3>3
    <3>4. CASE b # q /\ b # n /\ q # n
      BY <3>1, <3>2, <3>4, <1>2
    <3>5. CASE b = n /\ q # n
      <4>1. info[q] # z /\ (info[q] < z <=> info[q] < info[n])
        BY <2>1, <2>5, <3>5 DEF Rekeyable
      <4> QED BY <4>1, <3>1, <3>2, <3>5, <1>1, <1>2
    <3>6. CASE b # n /\ q = n
      <4>1. b \in ToSet(w[n])
        BY <2>1, <2>5, <3>6
      <4>2. PICK i \in 1..Len(w[n]) - 1 : b = w[n][i]
        <5>1. /\ Len(w[b]) + 1 \in 1..Len(w[n]) /\ w[n][Len(w[b])] = b /\ Len(w[b]) \in 1..Len(w[n])
          BY <4>1, <3>6, Passing
        <5>2. Len(w[n]) \in 1..Cardinality(D) /\ Cardinality(D) \in Nat
          BY WayFacts
        <5>3. Len(w[b]) \in 1..Len(w[n]) - 1
          BY <5>1, <5>2
        <5> QED BY <5>1, <5>3
      <4>3. info[b] # z /\ (info[b] > z <=> info[b] > info[n])
        BY <4>2 DEF Rekeyable
      <4> QED BY <4>3, <3>1, <3>2, <3>6, <1>1, <1>2
    <3> QED BY <3>3, <3>4, <3>5, <3>6
  <2>6. Linked(next2, root, s)
    BY <2>4, <2>5, LinkedSame
  <2> QED BY <2>1, <2>3, <2>4, <2>6 DEF WayTo
<1>4. ASSUME NEW p \in D, NEW c \in D, c = left[p] \/ c = right[p]
      PROVE  (c = left[p] => info2[c] < info2[p]) /\ (c = right[p] => info2[c] > info2[p])
  <2>1. c \in ToSet(w[c])
    BY WayFacts
  <2>2. /\ p \in ToSet(w[c]) /\ p # c /\ Len(w[c]) = Len(w[p]) + 1
        /\ c = left[p] => info[c] < info[p]
        /\ c = right[p] => info[c] > info[p]
    BY <1>4, <2>1, Turned
  <2>3. CASE p = n
    <3>1. info[c] # z /\ (info[c] < z <=> info[c] < info[n])
      BY <2>2, <2>3 DEF Rekeyable
    <3> QED BY <3>1, <2>2, <2>3, <1>1, <1>2
  <2>4. CASE c = n
    <3>1. PICK i \in 1..Len(w[n]) - 1 : p = w[n][i]
      <4>1. w[n][Len(w[p])] = p /\ Len(w[p]) \in 1..Len(w[n])
        BY <2>2, <2>4, Passing
      <4>2. Len(w[n]) \in 1..Cardinality(D) /\ Cardinality(D) \in Nat
        BY WayFacts
      <4>3. Len(w[p]) \in 1..Len(w[n]) - 1
        BY <4>1, <4>2, <2>2, <2>4
      <4> QED BY <4>1, <4>3
    <3>2. info[p] # z /\ (info[p] > z <=> info[p] > info[n])
      BY <3>1 DEF Rekeyable
    <3> QED BY <3>2, <2>2, <2>4, <1>1, <1>2
  <2>5. CASE p # n /\ c # n
    BY <2>2, <2>5, <1>2
  <2> QED BY <2>3, <2>4, <2>5
<1>5. ASSUME NEW p \in D PROVE Children(info2, left, right, w, p)
  <2>1. Children(info, left, right, w, p) /\ left[p] \in D \cup {0} /\ right[p] \in D \cup {0}
    BY DEF TreeOf
  <2> QED BY <2>1, <1>4 DEF Children
<1>6. /\ D \subseteq A /\ left \in [D -> D \cup {0}] /\ right \in [D -> D \cup {0}] /\ root \in D \cup {0}
  BY DEF TreeOf
<1>7. TreeOf(A, T, info2, left, right, root, w)
  BY <1>2, <1>3, <1>5, <1>6 DEF TreeOf
<1> QED BY <1>7 DEF info2

(* The rightmost node of the left subtree holds the element before. *)
LEMMA Spine ==
  ASSUME NEW A, NEW T, Bounds(A, T), NEW info, NEW left, NEW right, NEW root, NEW w,
         TreeOf(A, T, info, left, right, root, w), NEW n \in DOMAIN info, left[n] # 0,
         NEW c, Linked(right, left[n], c)
  PROVE  /\ Len(c) \in Nat /\ Len(c) >= 1
         /\ \A i \in 1..Len(c) :
              /\ c[i] \in DOMAIN info /\ Len(w[c[i]]) = Len(w[n]) + i
              /\ \A j \in 1..i : c[j] \in ToSet(w[c[i]])
              /\ w[c[i]] = Append(w[IF i = 1 THEN n ELSE c[i - 1]], c[i])
<1>1. DOMAIN right = DOMAIN info /\ 0 \notin DOMAIN info /\ left[n] \in DOMAIN info
  <2>1. right \in [DOMAIN info -> DOMAIN info \cup {0}] /\ left \in [DOMAIN info -> DOMAIN info \cup {0}]
    BY DEF TreeOf
  <2>2. 0 \notin DOMAIN info
    BY TreeTypes
  <2> QED BY <2>1, <2>2
<1>2. PICK l \in Nat : l = Len(c) /\ c \in Seq(Nat)
  BY DEF Linked
<1>3. \A i \in 1..l : c[i] \in DOMAIN info /\ right[c[i]] = At(c, i + 1) /\ c[i] \in Nat
  BY <1>1, <1>2 DEF Linked
<1>4. left[n] = At(c, 1)
  BY DEF Linked
<1>5. l >= 1 /\ c[1] = left[n]
  <2>1. l # 0
    BY <1>2, <1>4 DEF At
  <2> QED BY <2>1, <1>2, <1>4 DEF At
<1> DEFINE Holds(i) == /\ Len(w[c[i]]) = Len(w[n]) + i
                       /\ \A j \in 1..i : c[j] \in ToSet(w[c[i]])
                       /\ w[c[i]] = Append(w[IF i = 1 THEN n ELSE c[i - 1]], c[i])
           Good == {k \in Nat : k \in 1..l => Holds(k)}
<1>6. 0 \in Good
  OBVIOUS
<1>7. ASSUME NEW k \in Nat, k \in Good PROVE k + 1 \in Good
  <2> SUFFICES ASSUME k + 1 \in 1..l PROVE Holds(k + 1)
    OBVIOUS
  <2>1. CASE k = 0
    <3>1. w[c[1]] = Append(w[n], c[1])
      BY <1>1, <1>5 DEF TreeOf, Children
    <3>2. w[n] \in Seq(Nat) /\ c[1] \in Nat /\ c[1] \in ToSet(w[c[1]])
      <4>1. 1 \in 1..l
        BY <1>5
      <4> QED BY <4>1, <1>3, WayFacts
    <3>3. Len(w[c[1]]) = Len(w[n]) + 1
      BY <3>1, <3>2
    <3>4. \A j \in 1..1 : j = 1
      OBVIOUS
    <3>5. k + 1 = 1
      BY <2>1
    <3> QED BY ONLY <3>1, <3>2, <3>3, <3>4, <3>5
  <2>2. CASE k # 0
    <3>1. k \in 1..l /\ k + 1 # 1 /\ (k + 1) - 1 = k
      BY <2>2
    <3>2. Holds(k)
      BY <1>7, <3>1
    <3>3. right[c[k]] = c[k + 1] /\ c[k] \in DOMAIN info /\ c[k + 1] # 0 /\ c[k + 1] \in Nat
      BY <3>1, <1>1, <1>2, <1>3 DEF At
    <3>4. w[c[k + 1]] = Append(w[c[k]], c[k + 1])
      BY <3>3 DEF TreeOf, Children
    <3>5. w[c[k]] \in Seq(Nat) /\ w[n] \in Seq(Nat)
      BY <3>3, WayFacts
    <3>6. Len(w[c[k + 1]]) = Len(w[n]) + (k + 1)
      <4>1. PICK h \in Nat : h = Len(w[n])
        BY <3>5
      <4>2. Len(w[c[k]]) = h + k
        BY <3>2, <4>1
      <4>3. Len(w[c[k + 1]]) = Len(w[c[k]]) + 1
        BY <3>3, <3>4, <3>5, AppendProperties
      <4>4. Len(w[c[k + 1]]) = h + (k + 1)
        BY ONLY <4>2, <4>3, k \in Nat, h \in Nat
      <4> QED BY <4>1, <4>4
    <3>7. ToSet(w[c[k + 1]]) = ToSet(w[c[k]]) \cup {c[k + 1]}
      BY <3>3, <3>4, <3>5, ToSetAppend
    <3>8. \A j \in 1..k + 1 : j \in 1..k \/ j = k + 1
      OBVIOUS
    <3> QED BY <3>1, <3>2, <3>4, <3>6, <3>7, <3>8
  <2> QED BY <2>1, <2>2
<1>8. Nat \subseteq Good
  <2> HIDE DEF Good
  <2> QED BY <1>6, <1>7, InductionBySet
<1>9. ASSUME NEW i \in 1..l PROVE c[i] \in DOMAIN info /\ Holds(i)
  <2>1. i \in Nat
    OBVIOUS
  <2>2. i \in Good
    BY <2>1, <1>8
  <2> QED BY <2>2, <1>3
<1> QED BY <1>2, <1>5, <1>9

LEMMA Predecessor ==
  ASSUME NEW A, NEW T, Bounds(A, T), NEW info, NEW left, NEW right, NEW root, NEW w,
         TreeOf(A, T, info, left, right, root, w), NEW n \in DOMAIN info, left[n] # 0,
         NEW c, Linked(right, left[n], c), NEW m, m = c[Len(c)]
  PROVE  /\ m \in DOMAIN info /\ m # n /\ right[m] = 0 /\ m \notin ToSet(w[n])
         /\ \A p \in DOMAIN info :
              /\ left[p] = m <=> Len(c) = 1 /\ p = n
              /\ right[p] = m <=> Len(c) > 1 /\ p = c[Len(c) - 1]
         /\ root # m
         /\ \A q \in DOMAIN info \ {n, m} :
              n \in ToSet(w[q]) => info[q] # info[m] /\ (info[q] < info[m] <=> info[q] < info[n])
         /\ \A i \in 1..Len(w[n]) - 1 :
              info[w[n][i]] # info[m] /\ (info[w[n][i]] > info[m] <=> info[w[n][i]] > info[n])
<1>0. Bounds(A, T) /\ TreeOf(A, T, info, left, right, root, w) /\ n \in DOMAIN info
  OBVIOUS
<1>1. PICK l \in Nat : l = Len(c) /\ l >= 1
  BY Spine
<1>2. \A i \in 1..l :
        /\ c[i] \in DOMAIN info /\ Len(w[c[i]]) = Len(w[n]) + i
        /\ \A j \in 1..i : c[j] \in ToSet(w[c[i]])
        /\ w[c[i]] = Append(w[IF i = 1 THEN n ELSE c[i - 1]], c[i])
  <2>1. \A i \in 1..Len(c) :
          /\ c[i] \in DOMAIN info /\ Len(w[c[i]]) = Len(w[n]) + i
          /\ \A j \in 1..i : c[j] \in ToSet(w[c[i]])
          /\ w[c[i]] = Append(w[IF i = 1 THEN n ELSE c[i - 1]], c[i])
    BY Spine
  <2> QED BY ONLY <1>1, <2>1, Zenon
<1>3. l \in 1..l /\ 1 \in 1..l
  BY <1>1
<1>4. /\ m \in DOMAIN info /\ Len(w[m]) = Len(w[n]) + l /\ \A j \in 1..l : c[j] \in ToSet(w[m])
      /\ w[m] = Append(w[IF l = 1 THEN n ELSE c[l - 1]], m)
  <2>1. m = c[l]
    BY <1>1
  <2> QED BY <1>2, <1>3, <2>1
<1>18. m \in DOMAIN info
  BY <1>4
<1>5. c[1] = left[n] /\ \A i \in 1..l : right[c[i]] = At(c, i + 1)
  BY <1>1, <1>3 DEF Linked, At
<1>6. right[m] = 0 /\ \A i \in 1..l - 1 : right[c[i]] = c[i + 1]
  <2>1. l + 1 \notin 1..l /\ \A i \in 1..l - 1 : i \in 1..l /\ i + 1 \in 1..l
    BY <1>1
  <2> QED BY <1>1, <1>3, <1>5, <2>1 DEF At
<1>7. n \in ToSet(w[m]) /\ n # m /\ info[m] < info[n]
  <2>1. PICK d \in ToSet(w[m]) : d = left[n]
    BY <1>3, <1>4, <1>5
  <2>2. n \in ToSet(w[m]) /\ n # m /\ (d = left[n] => info[m] < info[n])
    BY ONLY <1>0, <1>18, <2>1, Turned
  <2> QED BY <2>1, <2>2
<1>8. m \notin ToSet(w[n])
  <2>1. Len(w[n]) \in 1..Cardinality(DOMAIN info) /\ Cardinality(DOMAIN info) \in Nat
    BY WayFacts
  <2>2. m \in ToSet(w[n]) => Len(w[m]) \in 1..Len(w[n])
    BY Passing
  <2> QED BY <1>1, <1>4, <2>1, <2>2
<1>9. \A p \in DOMAIN info : info[p] \in Nat
  BY TreeTypes
<1>10. ASSUME NEW i \in 1..l - 1 PROVE info[c[i]] < info[m] /\ c[i] \in DOMAIN info /\ c[i] # m
  <2>1. i \in 1..l /\ i + 1 \in 1..l
    BY <1>1
  <2>2. c[i] \in DOMAIN info /\ c[i + 1] \in ToSet(w[m]) /\ c[i + 1] = right[c[i]]
    BY <1>2, <1>4, <1>6, <2>1
  <2>3. info[m] > info[c[i]]
    <3>1. PICK p \in DOMAIN info : p = c[i]
      BY <2>2
    <3>2. PICK d \in ToSet(w[m]) : d = right[p]
      BY <2>2, <3>1
    <3>3. d = right[p] => info[m] > info[p]
      BY ONLY <1>0, <1>18, p \in DOMAIN info, <3>2, Turned
    <3> QED BY <3>1, <3>2, <3>3
  <2> QED BY <1>4, <1>9, <2>2, <2>3
<1>11. PICK b : b = IF l = 1 THEN n ELSE c[l - 1]
  OBVIOUS
<1>12. b \in DOMAIN info /\ b = w[m][Len(w[m]) - 1] /\ Len(w[m]) > 1
  <2>1. b \in DOMAIN info
    <3>1. l # 1 => l - 1 \in 1..l - 1
      BY <1>1
    <3> QED BY <1>10, <1>11, <3>1
  <2>2. PICK u \in Seq(Nat) : u = w[b] /\ u[Len(u)] = b /\ Len(u) \in 1..Len(u)
    <3>1. w[b] \in Seq(Nat) /\ Len(w[b]) \in 1..Cardinality(DOMAIN info) /\ w[b][Len(w[b])] = b
      BY <2>1, WayFacts
    <3>2. Len(w[b]) \in 1..Len(w[b])
      BY <3>1
    <3> QED BY <3>1, <3>2
  <2>3. m \in Nat
    BY <1>4, TreeTypes
  <2>4. Len(w[m]) = Len(u) + 1 /\ w[m][Len(u)] = u[Len(u)]
    BY <1>4, <1>11, <2>2, <2>3, AppendProperties
  <2>5. Len(w[m]) - 1 = Len(u) /\ Len(w[m]) > 1
    BY <2>2, <2>4
  <2> QED BY <2>1, <2>2, <2>4, <2>5
<1>13. /\ \A p \in DOMAIN info :
            /\ left[p] = m <=> p = b /\ info[b] > info[m]
            /\ right[p] = m <=> p = b /\ info[b] < info[m]
       /\ root # m
  <2>1. /\ \A p \in DOMAIN info :
              /\ left[p] = m <=> Len(w[m]) > 1 /\ p = b /\ info[b] > info[m]
              /\ right[p] = m <=> Len(w[m]) > 1 /\ p = b /\ info[b] < info[m]
        /\ root = m <=> Len(w[m]) = 1
    BY ONLY <1>0, <1>18, <1>12, ParentOf
  <2>2. Len(w[m]) # 1
    BY <1>12, <1>4, WayFacts
  <2> QED BY <1>12, <2>1, <2>2
<1>14. IF l = 1 THEN b = n /\ info[b] > info[m] ELSE b = c[l - 1] /\ info[b] < info[m]
  <2>1. l # 1 => l - 1 \in 1..l - 1
    BY <1>1
  <2> QED BY <1>4, <1>7, <1>9, <1>10, <1>11, <2>1
<1>15. ASSUME NEW p \in DOMAIN info
       PROVE  /\ left[p] = m <=> Len(c) = 1 /\ p = n
              /\ right[p] = m <=> Len(c) > 1 /\ p = c[Len(c) - 1]
  <2>1. info[b] \in Nat /\ info[m] \in Nat
    BY <1>4, <1>9, <1>12
  <2>2. CASE l = 1
    BY <1>1, <1>13, <1>14, <2>1, <2>2
  <2>3. CASE l # 1
    BY <1>1, <1>13, <1>14, <2>1, <2>3
  <2> QED BY <2>2, <2>3
(* no element is between the two *)
<1>16. ASSUME NEW q \in DOMAIN info \ {n, m}, n \in ToSet(w[q])
       PROVE  info[q] # info[m] /\ (info[q] < info[m] <=> info[q] < info[n])
  <2>1. info[q] # info[m] /\ info[q] # info[n]
    BY <1>4, KeysApart
  <2>2. SUFFICES ASSUME info[q] < info[n], ~(info[q] < info[m]) PROVE FALSE
    BY <1>4, <1>7, <1>9, <2>1
  <2>3. info[m] < info[q]
    BY <1>4, <1>9, <2>1, <2>2
  <2> DEFINE Good == {k \in Nat : k + 1 \in 1..l => c[k + 1] \in ToSet(w[q])}
  <2>4. 0 \in Good
    <3>1. left[n] \in ToSet(w[q])
      <4>1. (IF info[n] > info[q] THEN left[n] ELSE right[n]) \in ToSet(w[q])
        BY <1>16, Passing
      <4> QED BY <4>1, <2>2, <1>9
    <3> QED BY <3>1, <1>5
  <2>5. ASSUME NEW k \in Nat, k \in Good PROVE k + 1 \in Good
    <3>1. SUFFICES ASSUME (k + 1) + 1 \in 1..l PROVE c[(k + 1) + 1] \in ToSet(w[q])
      OBVIOUS
    <3>2. k + 1 \in 1..l - 1 /\ k + 1 \in 1..l
      BY <3>1
    <3>3. c[k + 1] \in ToSet(w[q])
      BY <2>5, <3>2
    <3>4. info[c[k + 1]] < info[m] /\ c[k + 1] \in DOMAIN info /\ right[c[k + 1]] = c[(k + 1) + 1]
      BY <1>6, <1>10, <3>2
    <3>5. info[c[k + 1]] < info[q] /\ c[k + 1] # q
      BY <3>4, <2>3, <1>4, <1>9
    <3>6. (IF info[c[k + 1]] > info[q] THEN left[c[k + 1]] ELSE right[c[k + 1]]) \in ToSet(w[q])
      BY <3>3, <3>5, Passing
    <3> QED BY <3>4, <3>5, <3>6, <1>9
  <2>6. Nat \subseteq Good
    <3> HIDE DEF Good
    <3> QED BY <2>4, <2>5, InductionBySet
  <2>7. m \in ToSet(w[q])
    <3>1. l - 1 \in Nat /\ (l - 1) + 1 = l
      BY <1>1
    <3>2. l - 1 \in Good
      BY <3>1, <2>6
    <3> QED BY <3>1, <3>2, <1>1, <1>3
  <2>8. (IF info[m] > info[q] THEN left[m] ELSE right[m]) \in DOMAIN info
    BY <2>7, <1>16, Passing
  <2>9. 0 \notin DOMAIN info
    BY TreeTypes
  <2> QED BY <2>3, <2>8, <2>9, <1>4, <1>6, <1>9
<1>17. ASSUME NEW i \in 1..Len(w[n]) - 1
       PROVE  info[w[n][i]] # info[m] /\ (info[w[n][i]] > info[m] <=> info[w[n][i]] > info[n])
  <2>1. PICK p : p = w[n][i]
    OBVIOUS
  <2>2. PICK h \in Nat : h = Len(w[n]) /\ h >= 1
    <3>1. Len(w[n]) \in 1..Cardinality(DOMAIN info) /\ Cardinality(DOMAIN info) \in Nat
      BY WayFacts
    <3> QED BY <3>1
  <2>3. i \in 1..h - 1 /\ i \in 1..h /\ i + 1 \in 1..h /\ h \in 1..h
    BY <2>2
  <2>4. p \in DOMAIN info /\ p # n
    <3>1. w[n][i] \in DOMAIN info /\ w[n][h] = n /\ (w[n][i] = w[n][h] => i = h)
      BY <2>2, <2>3, WayFacts
    <3> QED BY <2>1, <2>3, <3>1
  <2>5. /\ info[p] # info[n]
        /\ w[n][i + 1] = IF info[p] > info[n] THEN left[p] ELSE right[p]
    <3>1. /\ info[w[n][i]] # info[n]
          /\ w[n][i + 1] = IF info[w[n][i]] > info[n] THEN left[w[n][i]] ELSE right[w[n][i]]
      BY ONLY <1>0, i \in 1..Len(w[n]) - 1, WayFacts
    <3> QED BY <2>1, <3>1
  <2>6. \A j \in 1..h : w[n][j] = w[m][j]
    <3>1. \A j \in 1..Len(w[n]) : w[n][j] = w[m][j]
      BY ONLY <1>0, <1>18, <1>7, Passing
    <3> QED BY <2>2, <3>1
  <2>7. w[m][i + 1] \in ToSet(w[m])
    <3>1. w[m] \in Seq(Nat) /\ i + 1 \in 1..Len(w[m]) /\ ToSet(w[m]) = {w[m][j] : j \in 1..Len(w[m])}
      <4>1. w[m] \in Seq(Nat)
        BY <1>4, WayFacts
      <4>2. DOMAIN w[m] = 1..Len(w[m])
        BY <4>1
      <4>3. ToSet(w[m]) = {w[m][j] : j \in 1..Len(w[m])}
        BY ONLY <4>2, Zenon DEF ToSet
      <4>4. i + 1 \in 1..Len(w[m])
        BY <1>1, <1>4, <2>2, <2>3
      <4> QED BY <4>1, <4>3, <4>4
    <3> QED BY <3>1
  <2>8. w[m][i + 1] = IF info[p] > info[n] THEN left[p] ELSE right[p]
    BY <2>3, <2>5, <2>6
  <2>9. PICK d \in ToSet(w[m]) : d = IF info[p] > info[n] THEN left[p] ELSE right[p]
    BY <2>7, <2>8
  <2>10. (d = left[p] => info[m] < info[p]) /\ (d = right[p] => info[m] > info[p])
    <3>1. p \in DOMAIN info /\ d \in ToSet(w[m])
      BY <2>4
    <3>4. d \in DOMAIN info
      BY ONLY <1>0, <1>18, <3>1, Passing
    <3>5. 0 \notin DOMAIN info /\ (left[p] # 0 \/ right[p] # 0 => left[p] # right[p])
      BY ONLY <1>0, <3>1, TreeTypes
    <3>2. CASE d = left[p]
      <4>1. d = left[p] => info[m] < info[p]
        BY ONLY <1>0, <1>18, <3>1, <3>2, Turned
      <4>2. left[p] # right[p] /\ left[p] # 0
        BY <3>2, <3>4, <3>5
      <4> QED BY <3>2, <4>1, <4>2
    <3>3. CASE d = right[p]
      <4>1. d = right[p] => info[m] > info[p]
        BY ONLY <1>0, <1>18, <3>1, <3>3, Turned
      <4>2. left[p] # right[p] /\ right[p] # 0
        BY <3>3, <3>4, <3>5
      <4> QED BY <3>3, <4>1, <4>2
    <3> QED BY <2>9, <3>2, <3>3
  <2> QED BY <2>1, <2>4, <2>5, <2>9, <2>10, <1>4, <1>9
<1> QED BY <1>4, <1>6, <1>7, <1>8, <1>13, <1>15, <1>16, <1>17

LEMMA RemoveFewer ==
  ASSUME NEW s \in Seq(Nat), NEW k \in 1..Len(s), NEW y \in ToSet(RemoveAt(s, k))
  PROVE  y \in ToSet(s)
<1>1. PICK r \in Seq(Nat) : r = RemoveAt(s, k) /\ Len(r) = Len(s) - 1
                        /\ \A i \in 1..Len(s) - 1 : r[i] = IF i < k THEN s[i] ELSE s[i + 1]
  <2>1. IsRemove(Nat, s, k, RemoveAt(s, k))
    BY RemoveIs
  <2> QED BY ONLY <2>1, Zenon DEF IsRemove
<1>2. DOMAIN r = 1..Len(s) - 1 /\ DOMAIN s = 1..Len(s)
  BY <1>1
<1>3. ToSet(r) = {r[i] : i \in 1..Len(s) - 1} /\ ToSet(s) = {s[i] : i \in 1..Len(s)}
  BY ONLY <1>2, Zenon DEF ToSet
<1>4. PICK i \in 1..Len(s) - 1 : y = r[i]
  BY <1>1, <1>3
<1>5. i \in 1..Len(s) /\ i + 1 \in 1..Len(s)
  OBVIOUS
<1> QED BY <1>1, <1>3, <1>4, <1>5

(* With the element of the last node to the left, which leaves. *)
Taken(info, left, right, n, c, m, info2, left2, right2) ==
  /\ info2 = [p \in DOMAIN info \ {m} |-> IF p = n THEN info[m] ELSE info[p]]
  /\ left2 = [p \in DOMAIN info \ {m} |-> IF Len(c) = 1 /\ p = n THEN left[m] ELSE left[p]]
  /\ right2 = [p \in DOMAIN info \ {m} |-> IF Len(c) > 1 /\ p = c[Len(c) - 1] THEN left[m] ELSE right[p]]

LEMMA TreeTake ==
  ASSUME NEW A, NEW T, Bounds(A, T), NEW info, NEW left, NEW right, NEW root, NEW w,
         TreeOf(A, T, info, left, right, root, w), NEW n \in DOMAIN info, left[n] # 0,
         NEW c, Linked(right, left[n], c), NEW m, m = c[Len(c)],
         NEW info2, NEW left2, NEW right2, Taken(info, left, right, n, c, m, info2, left2, right2)
  PROVE  TreeOf(A, T, info2, left2, right2, root, WaysWithout(info, w, m))
<1>1. /\ m \in DOMAIN info /\ m # n /\ right[m] = 0 /\ m \notin ToSet(w[n])
      /\ \A p \in DOMAIN info :
           /\ left[p] = m <=> Len(c) = 1 /\ p = n
           /\ right[p] = m <=> Len(c) > 1 /\ p = c[Len(c) - 1]
      /\ root # m
  BY Predecessor
<1>2. /\ \A q \in DOMAIN info \ {n, m} :
           n \in ToSet(w[q]) => info[q] # info[m] /\ (info[q] < info[m] <=> info[q] < info[n])
      /\ \A i \in 1..Len(w[n]) - 1 :
           info[w[n][i]] # info[m] /\ (info[w[n][i]] > info[m] <=> info[w[n][i]] > info[n])
  BY Predecessor
<1>3. PICK info1 : info1 = [p \in DOMAIN info \ {m} |-> info[p]]
  OBVIOUS
<1>4. PICK v : v = WaysWithout(info, w, m)
  OBVIOUS
<1>5. TreeOf(A, T, info1, left2, right2, root, v)
  <2>1. left2 = [p \in DOMAIN info \ {m} |-> IF left[p] = m THEN left[m] ELSE left[p]]
    BY <1>1 DEF Taken
  <2>2. right2 = [p \in DOMAIN info \ {m} |-> IF right[p] = m THEN left[m] ELSE right[p]]
    BY <1>1 DEF Taken
  <2>3. Unlinked(info, left, right, root, m, left[m], info1, left2, right2, root)
    BY <1>1, <1>3, <2>1, <2>2 DEF Unlinked
  <2> QED BY <1>1, <1>4, <2>3, TreeUnlink
<1>6. DOMAIN info1 = DOMAIN info \ {m} /\ n \in DOMAIN info1 /\ \A p \in DOMAIN info1 : info1[p] = info[p]
  BY <1>1, <1>3
<1>7. \A q \in DOMAIN info1 : v[q] = IF m \in ToSet(w[q]) THEN RemoveAt(w[q], Len(w[m])) ELSE w[q]
  BY <1>4, <1>6 DEF WaysWithout
<1>8. ASSUME NEW q \in DOMAIN info1, n \in ToSet(v[q]) PROVE n \in ToSet(w[q])
  <2>1. CASE m \in ToSet(w[q])
    <3>1. Len(w[m]) \in 1..Len(w[q])
      BY <2>1, <1>6, Passing
    <3>2. w[q] \in Seq(Nat)
      BY <1>6, WayFacts
    <3> QED BY <2>1, <3>1, <3>2, <1>7, <1>8, RemoveFewer
  <2>2. CASE m \notin ToSet(w[q])
    BY <2>2, <1>7, <1>8
  <2> QED BY <2>1, <2>2
<1>9. v[n] = w[n]
  BY <1>1, <1>6, <1>7
<1>10. \A i \in 1..Len(w[n]) - 1 : w[n][i] \in DOMAIN info1
  <2> SUFFICES ASSUME NEW i \in 1..Len(w[n]) - 1 PROVE w[n][i] \in DOMAIN info1
    OBVIOUS
  <2>1. Len(v[n]) \in 1..Cardinality(DOMAIN info1) /\ \A j \in 1..Len(v[n]) : v[n][j] \in DOMAIN info1
    BY <1>5, <1>6, WayFacts
  <2>2. i \in 1..Len(w[n])
    BY <2>1, <1>9
  <2> QED BY <2>1, <2>2, <1>9
<1>11. Rekeyable(info1, v, n, info[m])
  <2>1. ASSUME NEW q \in DOMAIN info1, q # n, n \in ToSet(v[q])
        PROVE  info1[q] # info[m] /\ (info1[q] < info[m] <=> info1[q] < info1[n])
    <3>1. q \in DOMAIN info \ {n, m} /\ n \in ToSet(w[q])
      BY <2>1, <1>6, <1>8
    <3> QED BY <3>1, <1>2, <1>6
  <2>2. ASSUME NEW i \in 1..Len(v[n]) - 1
        PROVE  info1[v[n][i]] # info[m] /\ (info1[v[n][i]] > info[m] <=> info1[v[n][i]] > info1[n])
    BY <1>2, <1>6, <1>9, <1>10
  <2> QED BY <2>1, <2>2 DEF Rekeyable
<1>12. info[m] \in T
  BY <1>1 DEF TreeOf
<1>13. TreeOf(A, T, [info1 EXCEPT ![n] = info[m]], left2, right2, root, v)
  BY <1>5, <1>6, <1>11, <1>12, TreeRekey
<1>14. info2 = [info1 EXCEPT ![n] = info[m]]
  BY <1>1, <1>3 DEF Taken
<1> QED BY <1>4, <1>13, <1>14

-----------------------------------------------------------------------------
(* From left to right.  Below gives the nodes below each node, itself with *)
(* them; Inorder the function that inorder of SearchTree defines by        *)
(* recursion.                                                              *)
Below(info, w, p) == {q \in DOMAIN info : p \in ToSet(w[q])}

Inorder(f, info, left, right) ==
  /\ f \in [Nat -> [Nat -> Seq(Nat)]]
  /\ \A q \in Nat : f[0][q] = <<>>
  /\ \A k, q \in Nat :
       f[k + 1][q] = IF q \notin DOMAIN info THEN <<>> ELSE f[k][left[q]] \o <<q>> \o f[k][right[q]]

Ascending(info, s) == \A i, j \in 1..Len(s) : i < j => info[s[i]] < info[s[j]]

LEMMA BelowIs ==
  ASSUME NEW A, NEW T, Bounds(A, T), NEW info, NEW left, NEW right, NEW root, NEW w,
         TreeOf(A, T, info, left, right, root, w), NEW p \in DOMAIN info
  PROVE  /\ Below(info, w, p) = Below(info, w, left[p]) \cup {p} \cup Below(info, w, right[p])
         /\ \A q \in Below(info, w, left[p]) : info[q] < info[p]
         /\ \A q \in Below(info, w, right[p]) : info[q] > info[p]
<1>0. Bounds(A, T) /\ TreeOf(A, T, info, left, right, root, w)
  OBVIOUS
<1>1. ASSUME NEW q \in Below(info, w, left[p])
      PROVE  q \in Below(info, w, p) /\ info[q] < info[p]
  <2>1. q \in DOMAIN info /\ left[p] \in ToSet(w[q])
    BY DEF Below
  <2>2. PICK d \in ToSet(w[q]) : d = left[p]
    BY <2>1
  <2>3. p \in ToSet(w[q]) /\ (d = left[p] => info[q] < info[p])
    BY ONLY <1>0, <2>1, p \in DOMAIN info, <2>2, Turned
  <2> QED BY <2>1, <2>2, <2>3 DEF Below
<1>2. ASSUME NEW q \in Below(info, w, right[p])
      PROVE  q \in Below(info, w, p) /\ info[q] > info[p]
  <2>1. q \in DOMAIN info /\ right[p] \in ToSet(w[q])
    BY DEF Below
  <2>2. PICK d \in ToSet(w[q]) : d = right[p]
    BY <2>1
  <2>3. p \in ToSet(w[q]) /\ (d = right[p] => info[q] > info[p])
    BY ONLY <1>0, <2>1, p \in DOMAIN info, <2>2, Turned
  <2> QED BY <2>1, <2>2, <2>3 DEF Below
<1>3. p \in Below(info, w, p)
  BY WayFacts DEF Below
<1>4. ASSUME NEW q \in Below(info, w, p), q # p
      PROVE  q \in Below(info, w, left[p]) \cup Below(info, w, right[p])
  <2>1. q \in DOMAIN info /\ p \in ToSet(w[q])
    BY DEF Below
  <2>2. (IF info[p] > info[q] THEN left[p] ELSE right[p]) \in ToSet(w[q])
    BY ONLY <1>0, <2>1, <1>4, Passing
  <2> QED BY <2>1, <2>2 DEF Below
<1> QED BY <1>1, <1>2, <1>3, <1>4

Joined(s, p, t, u) == u = s \o <<p>> \o t
Apart(info, s, p, t) ==
  /\ \A y \in ToSet(s) \cup {p} \cup ToSet(t) : info[y] \in Nat
  /\ Ascending(info, s) /\ Ascending(info, t)
  /\ \A y \in ToSet(s) : info[y] < info[p]
  /\ \A y \in ToSet(t) : info[y] > info[p]

LEMMA ThreeParts ==
  ASSUME NEW info, NEW s \in Seq(Nat), NEW t \in Seq(Nat), NEW p \in Nat, NEW u, Joined(s, p, t, u)
  PROVE  /\ u \in Seq(Nat) /\ \A y : y \in ToSet(u) <=> y \in ToSet(s) \/ y = p \/ y \in ToSet(t)
         /\ Apart(info, s, p, t) => Ascending(info, u)
<1>0. u = s \o <<p>> \o t
  BY DEF Joined
<1>1. PICK a \in Nat : a = Len(s)
  OBVIOUS
<1>2. PICK b \in Nat : b = Len(t)
  OBVIOUS
<1>3. PICK e \in Seq(Nat) : e = <<p>> /\ Len(e) = 1 /\ e[1] = p
  <2>1. <<p>> \in Seq(Nat) /\ Len(<<p>>) = 1 /\ <<p>>[1] = p
    OBVIOUS
  <2> QED BY <2>1
<1>4. PICK h \in Seq(Nat) : h = s \o e /\ Len(h) = a + 1 /\ \A i \in 1..a + 1 : h[i] = IF i <= a THEN s[i] ELSE p
  <2>1. /\ s \o e \in Seq(Nat) /\ Len(s \o e) = Len(s) + Len(e)
        /\ \A i \in 1..Len(s) + Len(e) : (s \o e)[i] = IF i <= Len(s) THEN s[i] ELSE e[i - Len(s)]
    BY ConcatProperties
  <2>2. \A i \in 1..a + 1 : ~(i <= a) => i - a = 1
    OBVIOUS
  <2>3. Len(s) + Len(e) = a + 1
    BY <1>1, <1>3
  <2>4. ASSUME NEW i \in 1..a + 1 PROVE (s \o e)[i] = IF i <= a THEN s[i] ELSE p
    <3>1. (s \o e)[i] = IF i <= a THEN s[i] ELSE e[i - a]
      BY <1>1, <2>1, <2>3
    <3> QED BY <1>3, <2>2, <3>1
  <2> QED BY <2>1, <2>3, <2>4
<1>5. /\ u \in Seq(Nat) /\ Len(u) = a + 1 + b
      /\ \A i \in 1..a + 1 + b : u[i] = IF i <= a + 1 THEN h[i] ELSE t[i - (a + 1)]
  <2>1. /\ h \o t \in Seq(Nat) /\ Len(h \o t) = Len(h) + Len(t)
        /\ \A i \in 1..Len(h) + Len(t) : (h \o t)[i] = IF i <= Len(h) THEN h[i] ELSE t[i - Len(h)]
    BY ConcatProperties
  <2>2. u = h \o t
    BY <1>0, <1>3, <1>4
  <2> QED BY <1>2, <1>4, <2>1, <2>2
<1>6. /\ \A i \in 1..a : u[i] = s[i]
      /\ u[a + 1] = p
      /\ \A i \in 1..b : u[a + 1 + i] = t[i]
  <2>1. ASSUME NEW i \in 1..a PROVE u[i] = s[i]
    <3>1. i \in 1..a + 1 /\ i \in 1..a + 1 + b /\ i <= a /\ i <= a + 1
      OBVIOUS
    <3> QED BY <3>1, <1>4, <1>5
  <2>2. u[a + 1] = p
    <3>1. a + 1 \in 1..a + 1 /\ a + 1 \in 1..a + 1 + b /\ ~(a + 1 <= a) /\ a + 1 <= a + 1
      OBVIOUS
    <3>2. u[a + 1] = h[a + 1]
      BY <3>1, <1>5
    <3>3. h[a + 1] = p
      BY <3>1, <1>4
    <3> QED BY <3>2, <3>3
  <2>3. ASSUME NEW i \in 1..b PROVE u[a + 1 + i] = t[i]
    <3>1. a + 1 + i \in 1..a + 1 + b /\ ~(a + 1 + i <= a + 1) /\ (a + 1 + i) - (a + 1) = i
      OBVIOUS
    <3> QED BY <3>1, <1>5
  <2> QED BY <2>1, <2>2, <2>3
<1>7. ASSUME NEW i \in 1..a + 1 + b
      PROVE  i \in 1..a \/ i = a + 1 \/ (i - (a + 1) \in 1..b /\ i = a + 1 + (i - (a + 1)))
  OBVIOUS
<1>8. /\ ToSet(s) = {s[i] : i \in 1..a} /\ ToSet(t) = {t[i] : i \in 1..b}
      /\ ToSet(u) = {u[i] : i \in 1..a + 1 + b}
  <2>1. DOMAIN s = 1..a /\ DOMAIN t = 1..b /\ DOMAIN u = 1..a + 1 + b
    BY <1>1, <1>2, <1>5
  <2> QED BY ONLY <2>1, Zenon DEF ToSet
<1>9. ToSet(u) = ToSet(s) \cup {p} \cup ToSet(t)
  <2>1. ASSUME NEW i \in 1..a + 1 + b PROVE u[i] \in ToSet(s) \cup {p} \cup ToSet(t)
    <3>1. CASE i \in 1..a
      BY <3>1, <1>6, <1>8
    <3>2. CASE i = a + 1
      BY <3>2, <1>6
    <3>3. CASE i - (a + 1) \in 1..b
      <4>1. PICK k \in 1..b : k = i - (a + 1) /\ i = a + 1 + k
        BY <3>3
      <4>2. u[a + 1 + k] = t[k] /\ t[k] \in ToSet(t)
        BY <1>6, <1>8
      <4> QED BY <4>1, <4>2
    <3> QED BY <1>7, <3>1, <3>2, <3>3
  <2>2. \A i \in 1..a : i \in 1..a + 1 + b
    OBVIOUS
  <2>3. a + 1 \in 1..a + 1 + b /\ \A i \in 1..b : a + 1 + i \in 1..a + 1 + b
    OBVIOUS
  <2>4. ToSet(s) \subseteq ToSet(u) /\ p \in ToSet(u) /\ ToSet(t) \subseteq ToSet(u)
    BY <1>6, <1>8, <2>2, <2>3
  <2> QED BY <1>8, <2>1, <2>4
<1>11. ASSUME Apart(info, s, p, t) PROVE Ascending(info, u)
  <2>0. Apart(info, s, p, t)
    BY <1>11
  <2>1. SUFFICES ASSUME NEW i \in 1..a + 1 + b, NEW j \in 1..a + 1 + b, i < j PROVE info[u[i]] < info[u[j]]
    BY <1>5 DEF Ascending
  <2>2. \A k \in 1..a : s[k] \in ToSet(s) /\ info[s[k]] < info[p] /\ info[s[k]] \in Nat
    BY <1>8, <2>0 DEF Apart
  <2>3. \A k \in 1..b : t[k] \in ToSet(t) /\ info[t[k]] > info[p] /\ info[t[k]] \in Nat
    BY <1>8, <2>0 DEF Apart
  <2>4. info[p] \in Nat
    BY <2>0 DEF Apart
  <2>5. CASE j \in 1..a
    <3>1. i \in 1..a
      BY <2>1, <2>5
    <3> QED BY <2>1, <2>5, <3>1, <1>1, <1>6, <2>0 DEF Ascending, Apart
  <2>6. CASE j = a + 1
    <3>1. i \in 1..a
      BY <2>1, <2>6
    <3> QED BY <2>2, <2>6, <3>1, <1>6
  <2>7. CASE j - (a + 1) \in 1..b
    <3>1. PICK l \in 1..b : l = j - (a + 1) /\ j = a + 1 + l
      BY <2>7
    <3>2. u[j] = t[l] /\ info[t[l]] > info[p] /\ info[t[l]] \in Nat
      BY <2>3, <3>1, <1>6
    <3>3. CASE i \in 1..a
      <4>1. u[i] = s[i] /\ info[s[i]] \in Nat /\ info[s[i]] < info[p]
        BY <2>2, <3>3, <1>6
      <4>2. PICK x \in Nat : x = info[u[i]] /\ x < info[p]
        BY ONLY <4>1, Zenon
      <4>3. PICK y \in Nat : y = info[u[j]] /\ y > info[p]
        BY ONLY <3>2, Zenon
      <4>4. x < y
        BY ONLY <2>4, <4>2, <4>3
      <4> QED BY ONLY <4>2, <4>3, <4>4, Zenon
    <3>4. CASE i = a + 1
      BY <2>4, <3>2, <3>4, <1>6
    <3>5. CASE i - (a + 1) \in 1..b
      <4>1. PICK k \in 1..b : k = i - (a + 1) /\ i = a + 1 + k
        BY <3>5
      <4>2. u[i] = t[k] /\ k < l
        <5>1. u[a + 1 + k] = t[k]
          BY <4>1, <1>6
        <5>2. k < l
          BY <2>1, <3>1, <4>1
        <5> QED BY <4>1, <5>1, <5>2
      <4> QED BY <3>2, <4>2, <1>2, <2>0 DEF Ascending, Apart
    <3> QED BY <1>7, <3>3, <3>4, <3>5
  <2> QED BY <1>7, <2>5, <2>6, <2>7
<1> QED BY <1>5, <1>9, <1>11

LEMMA InorderIs ==
  ASSUME NEW A, NEW T, Bounds(A, T), NEW info, NEW left, NEW right, NEW root, NEW w,
         TreeOf(A, T, info, left, right, root, w), NEW f, Inorder(f, info, left, right),
         NEW s, s = f[Cardinality(DOMAIN info) + 1][root]
  PROVE  s \in Seq(Nat) /\ ToSet(s) = DOMAIN info /\ Ascending(info, s)
<1>0. Bounds(A, T) /\ TreeOf(A, T, info, left, right, root, w)
  OBVIOUS
<1>1. PICK h \in Nat : h = Cardinality(DOMAIN info)
  BY TreeTypes, FS_CardinalityType
<1>2. /\ 0 \notin DOMAIN info /\ DOMAIN info \subseteq Nat
      /\ \A p \in DOMAIN info : info[p] \in Nat /\ left[p] \in DOMAIN info \cup {0} /\ right[p] \in DOMAIN info \cup {0}
  BY TreeTypes
<1>3. ASSUME NEW p \in DOMAIN info
      PROVE  /\ w[p] \in Seq(Nat) /\ Len(w[p]) \in 1..h
             /\ left[p] # 0 => Len(w[left[p]]) = Len(w[p]) + 1
             /\ right[p] # 0 => Len(w[right[p]]) = Len(w[p]) + 1
  <2>1. w[p] \in Seq(Nat) /\ Len(w[p]) \in 1..Cardinality(DOMAIN info)
    BY WayFacts
  <2>2. Children(info, left, right, w, p)
    BY DEF TreeOf
  <2>3. ASSUME NEW c \in Nat, w[c] = Append(w[p], c) PROVE Len(w[c]) = Len(w[p]) + 1
    BY <2>1, <2>3, AppendProperties
  <2> QED BY <1>1, <1>2, <2>1, <2>2, <2>3 DEF Children
<1> DEFINE Full(k, p) == f[k][p] \in Seq(Nat) /\ ToSet(f[k][p]) = Below(info, w, p) /\ Ascending(info, f[k][p])
           Good == {k \in Nat : \A p \in DOMAIN info \cup {0} : (p # 0 => k + Len(w[p]) >= h + 2) => Full(k, p)}
<1>4. ASSUME NEW k \in Nat PROVE Full(k, 0)
  <2>1. f[k][0] = <<>>
    <3>1. CASE k = 0
      BY <3>1 DEF Inorder
    <3>2. CASE k # 0
      <4>1. PICK j \in Nat : k = j + 1
        <5>1. k - 1 \in Nat /\ k = (k - 1) + 1
          BY <3>2
        <5> QED BY <5>1
      <4>2. f[j + 1][0] = IF 0 \notin DOMAIN info THEN <<>> ELSE f[j][left[0]] \o <<0>> \o f[j][right[0]]
        BY DEF Inorder
      <4> QED BY <4>1, <4>2, <1>2
    <3> QED BY <3>1, <3>2
  <2>2. Below(info, w, 0) = {}
    <3>1. ASSUME NEW q \in DOMAIN info, 0 \in ToSet(w[q]) PROVE FALSE
      <4>1. PICK z \in ToSet(w[q]) : z = 0
        BY <3>1
      <4>2. z \in DOMAIN info
        BY ONLY <1>0, <3>1, <4>1, Passing
      <4> QED BY <4>1, <4>2, <1>2
    <3> QED BY <3>1 DEF Below
  <2>3. <<>> \in Seq(Nat) /\ Len(<<>>) = 0 /\ ToSet(<<>>) = {}
    BY DEF ToSet
  <2>4. Ascending(info, <<>>)
    BY <2>3 DEF Ascending
  <2> QED BY <2>1, <2>2, <2>3, <2>4
<1>5. 0 \in Good
  <2>1. ASSUME NEW p \in DOMAIN info \cup {0}, p # 0 => 0 + Len(w[p]) >= h + 2 PROVE Full(0, p)
    <3>1. p = 0
      BY <2>1, <1>3
    <3> QED BY <3>1, <1>4
  <2> QED BY <2>1
<1>6. ASSUME NEW k \in Nat, k \in Good PROVE k + 1 \in Good
  <2> SUFFICES \A p \in DOMAIN info \cup {0} : (p # 0 => (k + 1) + Len(w[p]) >= h + 2) => Full(k + 1, p)
    <3> HIDE DEF Full
    <3>1. k + 1 \in Nat
      OBVIOUS
    <3> QED BY <3>1, Zenon
  <2> SUFFICES ASSUME NEW p \in DOMAIN info \cup {0}, p # 0 => (k + 1) + Len(w[p]) >= h + 2
               PROVE  Full(k + 1, p)
    <3> HIDE DEF Full
    <3> QED BY Zenon
  <2>0. CASE p = 0
    <3>1. k + 1 \in Nat
      OBVIOUS
    <3> QED BY <1>4, <2>0, <3>1
  <2>14. SUFFICES ASSUME p \in DOMAIN info PROVE Full(k + 1, p)
    BY <2>0
  <2>1. (k + 1) + Len(w[p]) >= h + 2
    BY <1>2, <2>14
  <2>2. ASSUME NEW c \in DOMAIN info \cup {0}, c # 0 => Len(w[c]) = Len(w[p]) + 1 PROVE Full(k, c)
    <3>1. PICK e \in Nat : e = Len(w[p])
      BY <1>3, <2>14
    <3>3. (k + 1) + e >= h + 2
      BY ONLY <2>1, <3>1, Zenon
    <3>4. k + (e + 1) >= h + 2
      BY ONLY k \in Nat, e \in Nat, h \in Nat, <3>3
    <3>2. c # 0 => k + Len(w[c]) >= h + 2
      BY ONLY <2>2, <3>1, <3>4, Zenon
    <3> QED BY <1>6, <2>2, <3>2
  <2>3. Full(k, left[p]) /\ Full(k, right[p])
    BY <1>2, <1>3, <2>2, <2>14
  <2>4. p \in Nat
    BY <1>2, <2>14
  <2>5. f[k + 1][p] = f[k][left[p]] \o <<p>> \o f[k][right[p]]
    BY <2>4, <2>14 DEF Inorder
  <2>6. /\ Below(info, w, p) = Below(info, w, left[p]) \cup {p} \cup Below(info, w, right[p])
        /\ \A q \in Below(info, w, left[p]) : info[q] < info[p]
        /\ \A q \in Below(info, w, right[p]) : info[q] > info[p]
    BY ONLY <1>0, <2>14, BelowIs
  <2>7. PICK s1 \in Seq(Nat) : s1 = f[k][left[p]] /\ ToSet(s1) = Below(info, w, left[p]) /\ Ascending(info, s1)
    BY <2>3
  <2>8. PICK s2 \in Seq(Nat) : s2 = f[k][right[p]] /\ ToSet(s2) = Below(info, w, right[p]) /\ Ascending(info, s2)
    BY <2>3
  <2>9. PICK u : u = s1 \o <<p>> \o s2 /\ Joined(s1, p, s2, u)
    BY DEF Joined
  <2>15. Joined(s1, p, s2, u)
    BY <2>9
  <2>10. u \in Seq(Nat) /\ ToSet(u) = ToSet(s1) \cup {p} \cup ToSet(s2)
    <3>1. u \in Seq(Nat)
      BY ONLY <2>4, s1 \in Seq(Nat), s2 \in Seq(Nat), <2>15, ThreeParts
    <3>2. \A y : y \in ToSet(u) <=> y \in ToSet(s1) \/ y = p \/ y \in ToSet(s2)
      BY ONLY <2>4, s1 \in Seq(Nat), s2 \in Seq(Nat), <2>15, ThreeParts
    <3> QED BY <3>1, <3>2
  <2>11. \A y \in ToSet(s1) \cup {p} \cup ToSet(s2) : info[y] \in Nat
    BY <1>2, <2>7, <2>8, <2>14 DEF Below
  <2>12. Ascending(info, u)
    <3>1. (\A y \in ToSet(s1) : info[y] < info[p]) /\ (\A y \in ToSet(s2) : info[y] > info[p])
      BY <2>6, <2>7, <2>8
    <3>2. Ascending(info, s1) /\ Ascending(info, s2)
      BY <2>7, <2>8
    <3>3. Apart(info, s1, p, s2)
      BY ONLY <2>11, <3>1, <3>2, Zenon DEF Apart
    <3> QED BY ONLY <2>4, s1 \in Seq(Nat), s2 \in Seq(Nat), <2>15, <3>3, ThreeParts
  <2>13. f[k + 1][p] = u
    BY <2>5, <2>7, <2>8, <2>9
  <2> QED BY <2>6, <2>7, <2>8, <2>10, <2>12, <2>13
<1>7. Nat \subseteq Good
  <2> HIDE DEF Good
  <2> QED BY <1>5, <1>6, InductionBySet
<1>8. root \in DOMAIN info \cup {0} /\ (root # 0 => Len(w[root]) >= 1)
  <2>1. root \in DOMAIN info \cup {0}
    BY DEF TreeOf
  <2> QED BY <2>1, <1>3
<1>9. Full(h + 1, root)
  <2>1. h + 1 \in Good
    BY <1>7
  <2>2. root # 0 => (h + 1) + Len(w[root]) >= h + 2
    <3>1. ASSUME root # 0 PROVE (h + 1) + Len(w[root]) >= h + 2
      <4>1. PICK e \in Nat : e = Len(w[root]) /\ e >= 1
        BY <1>3, <1>8, <3>1
      <4> QED BY <1>1, <4>1
    <3> QED BY <3>1
  <2> HIDE DEF Full
  <2> QED BY <2>1, <2>2, <1>8
<1>10. Below(info, w, root) = DOMAIN info
  <2>1. ASSUME NEW q \in DOMAIN info PROVE root \in ToSet(w[q])
    <3>1. w[q] \in Seq(Nat) /\ Len(w[q]) \in 1..Cardinality(DOMAIN info) /\ w[q][1] = root
      BY WayFacts
    <3>2. 1 \in DOMAIN w[q]
      BY <3>1, <1>1
    <3> QED BY <3>1, <3>2, Zenon DEF ToSet
  <2> QED BY <2>1 DEF Below
<1> QED BY <1>1, <1>9, <1>10

LEMMA InorderExists ==
  ASSUME NEW info, NEW left, NEW right, DOMAIN info \subseteq Nat,
         \A p \in DOMAIN info : left[p] \in Nat /\ right[p] \in Nat
  PROVE  \E f : Inorder(f, info, left, right)
<1> DEFINE S == [Nat -> Seq(Nat)]
           Step(w) == [q \in Nat |-> IF q \notin DOMAIN info THEN <<>> ELSE w[left[q]] \o <<q>> \o w[right[q]]]
           G == [w \in S |-> Step(w)]
           a == [q \in Nat |-> <<>>]
<1>1. a \in S
  OBVIOUS
<1>2. ASSUME NEW w \in S PROVE Step(w) \in S
  <2>1. ASSUME NEW q \in Nat, q \in DOMAIN info PROVE w[left[q]] \o <<q>> \o w[right[q]] \in Seq(Nat)
    <3>1. left[q] \in Nat /\ right[q] \in Nat
      BY <2>1
    <3>2. PICK r \in Seq(Nat), t \in Seq(Nat) : r = w[left[q]] /\ t = w[right[q]]
      BY <3>1
    <3>3. <<q>> \in Seq(Nat)
      OBVIOUS
    <3>4. PICK u \in Seq(Nat) : u = r \o <<q>>
      BY <3>2, <3>3, ConcatProperties
    <3>5. u \o t \in Seq(Nat)
      BY <3>2, <3>4, ConcatProperties
    <3> QED BY <3>2, <3>4, <3>5
  <2> QED BY <2>1
<1>3. G \in [S -> S]
  <2> HIDE DEF Step
  <2> QED BY <1>2
<1>4. ASSUME NEW w \in S PROVE G[w] = Step(w)
  BY <1>4
<1> HIDE DEF G, a
<1>5. PICK f \in [Nat -> S] : f[0] = a /\ \A k \in Nat : f[k + 1] = G[f[k]]
  <2> HIDE DEF S
  <2> QED BY <1>1, <1>3, FunctionByIteration
<1>6. \A q \in Nat : f[0][q] = <<>>
  BY <1>5 DEF a
<1>7. ASSUME NEW k \in Nat, NEW q \in Nat
      PROVE  f[k + 1][q] = IF q \notin DOMAIN info THEN <<>> ELSE f[k][left[q]] \o <<q>> \o f[k][right[q]]
  <2>1. f[k] \in S /\ f[k + 1] = Step(f[k])
    BY <1>4, <1>5
  <2> QED BY <2>1
<1>8. f \in [Nat -> [Nat -> Seq(Nat)]]
  BY <1>5
<1>9. \A k, q \in Nat :
       f[k + 1][q] = IF q \notin DOMAIN info THEN <<>> ELSE f[k][left[q]] \o <<q>> \o f[k][right[q]]
  BY <1>7
<1> QED BY ONLY <1>6, <1>8, <1>9, Zenon DEF Inorder

(* What the recursive definition gives. *)
InorderIn(info, left, right, h, root) ==
  LET walk[k \in Nat] == [p \in Nat |->
        IF k = 0 \/ p \notin DOMAIN info THEN <<>>
        ELSE walk[k - 1][left[p]] \o <<p>> \o walk[k - 1][right[p]]]
  IN  walk[h][root]

LEMMA InorderWalks ==
  ASSUME NEW info, NEW left, NEW right, NEW root, DOMAIN info \subseteq Nat, NEW h \in Nat,
         \A p \in DOMAIN info : left[p] \in Nat /\ right[p] \in Nat
  PROVE  \E f : Inorder(f, info, left, right) /\ InorderIn(info, left, right, h, root) = f[h][root]
<1> DEFINE Is(w) ==
      w = [k \in Nat |-> [p \in Nat |->
            IF k = 0 \/ p \notin DOMAIN info THEN <<>>
            ELSE w[k - 1][left[p]] \o <<p>> \o w[k - 1][right[p]]]]
           c == CHOOSE w : Is(w)
<1>1. InorderIn(info, left, right, h, root) = c[h][root]
  BY DEF InorderIn
<1>2. PICK f : Inorder(f, info, left, right)
  BY InorderExists
<1>11. \A k, q \in Nat :
          f[k + 1][q] = IF q \notin DOMAIN info THEN <<>> ELSE f[k][left[q]] \o <<q>> \o f[k][right[q]]
  BY <1>2, Zenon DEF Inorder
<1>3. Is(f)
  <2>1. f = [k \in Nat |-> [p \in Nat |-> f[k][p]]]
    BY <1>2 DEF Inorder
  <2>2. ASSUME NEW k \in Nat, NEW p \in Nat
        PROVE  f[k][p] = IF k = 0 \/ p \notin DOMAIN info THEN <<>>
                         ELSE f[k - 1][left[p]] \o <<p>> \o f[k - 1][right[p]]
    <3>1. CASE k = 0
      BY <3>1, <1>2 DEF Inorder
    <3>2. CASE k # 0
      <4>1. PICK j \in Nat : j + 1 = k /\ j = k - 1
        <5>1. k - 1 \in Nat /\ (k - 1) + 1 = k
          BY <3>2
        <5> QED BY <5>1
      <4>2. f[j + 1][p] = IF p \notin DOMAIN info THEN <<>> ELSE f[j][left[p]] \o <<p>> \o f[j][right[p]]
        BY <1>11, Zenon
      <4> QED BY <3>2, <4>1, <4>2, Zenon
    <3> QED BY <3>1, <3>2
  <2>3. [k \in Nat |-> [p \in Nat |-> f[k][p]]] =
          [k \in Nat |-> [p \in Nat |->
            IF k = 0 \/ p \notin DOMAIN info THEN <<>>
            ELSE f[k - 1][left[p]] \o <<p>> \o f[k - 1][right[p]]]]
    BY <2>2, Zenon
  <2> QED BY <2>1, <2>3, Zenon
<1>4. Is(c)
  <2> HIDE DEF Is
  <2> QED BY <1>3, Zenon
<1> HIDE DEF c
<1>5. \A k \in Nat : c[k] = [p \in Nat |->
            IF k = 0 \/ p \notin DOMAIN info THEN <<>>
            ELSE c[k - 1][left[p]] \o <<p>> \o c[k - 1][right[p]]]
  <2>1. PICK d : d = c
    OBVIOUS
  <2>2. c = [k \in Nat |-> [p \in Nat |->
            IF k = 0 \/ p \notin DOMAIN info THEN <<>>
            ELSE d[k - 1][left[p]] \o <<p>> \o d[k - 1][right[p]]]]
    BY <1>4, <2>1, Zenon
  <2>3. \A k \in Nat : c[k] = [p \in Nat |->
            IF k = 0 \/ p \notin DOMAIN info THEN <<>>
            ELSE d[k - 1][left[p]] \o <<p>> \o d[k - 1][right[p]]]
    BY <2>2
  <2> QED BY <2>3, <2>1, Zenon
<1> DEFINE Good == {k \in Nat : c[k] = f[k]}
<1>6. 0 \in Good
  <2>1. c[0] = [p \in Nat |-> <<>>]
    <3>1. 0 \in Nat
      OBVIOUS
    <3>2. c[0] = [p \in Nat |->
            IF 0 = 0 \/ p \notin DOMAIN info THEN <<>>
            ELSE c[0 - 1][left[p]] \o <<p>> \o c[0 - 1][right[p]]]
      BY <1>5, <3>1, Zenon
    <3>3. ASSUME NEW p \in Nat
          PROVE (IF 0 = 0 \/ p \notin DOMAIN info THEN <<>>
                 ELSE c[0 - 1][left[p]] \o <<p>> \o c[0 - 1][right[p]]) = <<>>
      BY Zenon
    <3> QED BY <3>2, <3>3, Zenon
  <2>2. f[0] = [p \in Nat |-> <<>>]
    BY <1>2 DEF Inorder
  <2> QED BY <2>1, <2>2
<1>7. ASSUME NEW k \in Nat, k \in Good PROVE k + 1 \in Good
  <2>1. (k + 1) - 1 = k /\ k + 1 # 0 /\ k + 1 \in Nat /\ c[k] = f[k]
    BY <1>7
  <2>2. c[k + 1] = [p \in Nat |-> IF p \notin DOMAIN info THEN <<>>
                                  ELSE f[k][left[p]] \o <<p>> \o f[k][right[p]]]
    <3>1. c[k + 1] = [p \in Nat |-> IF k + 1 = 0 \/ p \notin DOMAIN info THEN <<>>
                                    ELSE c[(k + 1) - 1][left[p]] \o <<p>> \o c[(k + 1) - 1][right[p]]]
      BY <2>1, <1>5, Zenon
    <3> QED BY <3>1, <2>1, Zenon
  <2>3. f[k + 1] = [p \in Nat |-> f[k + 1][p]]
    BY <1>2, <2>1 DEF Inorder
  <2>4. \A p \in Nat :
          f[k + 1][p] = IF p \notin DOMAIN info THEN <<>> ELSE f[k][left[p]] \o <<p>> \o f[k][right[p]]
    BY <1>11, Zenon
  <2>5. [p \in Nat |-> f[k + 1][p]] =
          [p \in Nat |-> IF p \notin DOMAIN info THEN <<>> ELSE f[k][left[p]] \o <<p>> \o f[k][right[p]]]
    BY <2>4, Zenon
  <2>6. c[k + 1] = f[k + 1]
    BY <2>2, <2>3, <2>5, Zenon
  <2> QED BY <2>1, <2>6
<1>8. Nat \subseteq Good
  <2> HIDE DEF Good
  <2> QED BY <1>6, <1>7, InductionBySet
<1>10. InorderIn(info, left, right, h, root) = f[h][root]
  BY <1>1, <1>8
<1> QED BY <1>2, <1>10
=============================================================================
