--------------------------- MODULE BenchmarkProofs ---------------------------
(***************************************************************************)
(* What the scenarios of vcmalloc_bench build, for any number of           *)
(* structures and nodes, any sizes and any page size, and what its runs    *)
(* leave in the result files, for any keys, files and number of runs.      *)
(***************************************************************************)
EXTENDS Benchmark, HyperContainerProofs

(* The bytes a call of vcmalloc asks for, and those the first k calls of a *)
(* script ask for together.                                                *)
CallType == PtrVars \X Nat
CallBytes(call) == TypeSize[call[1]] * call[2]

Sums(f, s, total) ==
  /\ f \in [0..Len(s) -> Nat] /\ f[0] = 0 /\ f[Len(s)] = total
  /\ \A k \in 1..Len(s) : f[k] = f[k - 1] + CallBytes(s[k])
  /\ \A k \in 0..Len(s) : f[k] <= total

SumsTo(s, total) == s \in Seq(CallType) /\ total \in Nat /\ \E f : Sums(f, s, total)

-----------------------------------------------------------------------------
(* What a call asks for is a number of bytes. *)
LEMMA BytesOfCall ==
  ASSUME NEW c \in CallType
  PROVE  /\ c[1] \in PtrVars /\ c[2] \in Nat /\ TypeSize[c[1]] \in Nat \ {0}
         /\ CallBytes(c) \in Nat
<1>1. c[1] \in PtrVars /\ c[2] \in Nat
  BY DEF CallType
<1>2. PICK a \in Nat : a = TypeSize[c[1]] /\ a # 0
  BY <1>1, HyperContainerAssumption
<1>3. a * c[2] \in Nat
  BY <1>1, <1>2
<1> QED BY <1>1, <1>2, <1>3 DEF CallBytes

(* One script after another. *)
LEMMA SumsJoined ==
  ASSUME NEW s, NEW u, NEW a, NEW b, SumsTo(s, a), SumsTo(u, b)
  PROVE  SumsTo(s \o u, a + b)
<1>1. /\ s \in Seq(CallType) /\ u \in Seq(CallType) /\ a \in Nat /\ b \in Nat
  BY DEF SumsTo
<1>2. PICK f : Sums(f, s, a)
  BY DEF SumsTo
<1>3. PICK g : Sums(g, u, b)
  BY DEF SumsTo
<1>4. PICK n \in Nat : n = Len(s)
  BY <1>1
<1>5. PICK m \in Nat : m = Len(u)
  BY <1>1
<1>6. /\ s \o u \in Seq(CallType) /\ Len(s \o u) = n + m
      /\ \A k \in 1..n + m : (s \o u)[k] = IF k <= n THEN s[k] ELSE u[k - n]
  BY <1>1, <1>4, <1>5, Joined
<1>7. PICK w : w = s \o u
  OBVIOUS
<1> DEFINE h == [k \in 0..n + m |-> IF k <= n THEN f[k] ELSE a + g[k - n]]
<1>8. /\ f \in [0..n -> Nat] /\ f[0] = 0 /\ f[n] = a
      /\ \A k \in 1..n : f[k] = f[k - 1] + CallBytes(s[k])
      /\ \A k \in 0..n : f[k] <= a
  BY ONLY <1>2, <1>4 DEF Sums
<1>9. /\ g \in [0..m -> Nat] /\ g[0] = 0 /\ g[m] = b
      /\ \A k \in 1..m : g[k] = g[k - 1] + CallBytes(u[k])
      /\ \A k \in 0..m : g[k] <= b
  BY ONLY <1>3, <1>5 DEF Sums
<1>10. ASSUME NEW k \in 0..n + m
       PROVE  /\ k <= n => k \in 0..n /\ h[k] = f[k]
              /\ k >= n => k - n \in 0..m /\ h[k] = a + g[k - n]
  <2>1. k <= n => k \in 0..n /\ h[k] = f[k]
    OBVIOUS
  <2>2. k > n => k - n \in 0..m /\ h[k] = a + g[k - n]
    OBVIOUS
  <2>3. k = n => k - n = 0 /\ h[k] = a + g[0]
    BY <2>1, <1>1, <1>8, <1>9
  <2> QED BY <2>1, <2>2, <2>3
<1>11. h \in [0..n + m -> Nat] /\ \A k \in 0..n + m : h[k] <= a + b
  <2> SUFFICES ASSUME NEW k \in 0..n + m PROVE h[k] \in Nat /\ h[k] <= a + b
    OBVIOUS
  <2> HIDE DEF h
  <2>1. CASE k <= n
    <3>1. h[k] = f[k] /\ f[k] \in Nat /\ f[k] <= a
      BY <2>1, <1>8, <1>10
    <3> QED BY <3>1, <1>1
  <2>2. CASE k > n
    <3>1. h[k] = a + g[k - n] /\ g[k - n] \in Nat /\ g[k - n] <= b
      BY <2>2, <1>9, <1>10
    <3> QED BY <3>1, <1>1
  <2> QED BY <2>1, <2>2
<1>12. h[0] = 0 /\ h[n + m] = a + b
  <2> HIDE DEF h
  <2>1. 0 \in 0..n + m /\ n + m \in 0..n + m /\ n + m - n = m /\ n + m >= n /\ 0 <= n
    OBVIOUS
  <2> QED BY <2>1, <1>1, <1>8, <1>9, <1>10
<1>13. ASSUME NEW k \in 1..n + m PROVE h[k] = h[k - 1] + CallBytes(w[k])
  <2> HIDE DEF h
  <2>1. k \in 0..n + m /\ k - 1 \in 0..n + m
    OBVIOUS
  <2>2. CASE k <= n
    <3>1. h[k] = f[k] /\ h[k - 1] = f[k - 1] /\ w[k] = s[k] /\ k \in 1..n
      BY <2>1, <2>2, <1>6, <1>7, <1>10
    <3> QED BY <3>1, <1>8
  <2>3. CASE k > n
    <3>1. h[k] = a + g[k - n] /\ h[k - 1] = a + g[k - 1 - n] /\ w[k] = u[k - n] /\ k - n \in 1..m
      BY <2>1, <2>3, <1>6, <1>7, <1>10
    <3>2. k - 1 - n = (k - n) - 1 /\ (k - n) - 1 \in 0..m /\ g[(k - n) - 1] \in Nat
      <4>1. k - 1 - n = (k - n) - 1 /\ (k - n) - 1 \in 0..m
        BY <3>1
      <4> QED BY <4>1, <1>9
    <3>3. g[k - n] = g[(k - n) - 1] + CallBytes(u[k - n])
      BY <3>1, <1>9
    <3>5. CallBytes(u[k - n]) \in Int
      <4>1. u[k - n] \in CallType
        BY <1>1, <1>5, <3>1, Member
      <4> QED BY <4>1, BytesOfCall
    <3> QED BY <3>1, <3>2, <3>3, <3>5, <1>1
  <2> QED BY <2>2, <2>3
<1> HIDE DEF h
<1>14. Sums(h, w, a + b)
  BY <1>6, <1>7, <1>11, <1>12, <1>13 DEF Sums
<1> QED BY <1>1, <1>6, <1>7, <1>14 DEF SumsTo

(* Calls that all ask for the same number of bytes. *)
LEMMA SumsEqual ==
  ASSUME NEW s \in Seq(CallType), NEW b \in Nat, \A k \in 1..Len(s) : CallBytes(s[k]) = b
  PROVE  SumsTo(s, Len(s) * b)
<1>1. PICK n \in Nat : n = Len(s)
  OBVIOUS
<1> DEFINE f == [k \in 0..n |-> k * b]
<1>2. ASSUME NEW k \in 0..n PROVE k * b \in Nat /\ k * b <= n * b
  <2>1. PICK d \in Nat : n = k + d
    OBVIOUS
  <2>2. n * b = k * b + d * b /\ k * b \in Nat /\ d * b \in Nat
    BY <2>1
  <2> QED BY <2>2
<1>3. \A k \in 1..n : k * b = (k - 1) * b + b
  OBVIOUS
<1>4. n * b \in Nat /\ 0 * b = 0
  OBVIOUS
<1>5. Sums(f, s, n * b)
  BY <1>1, <1>2, <1>3, <1>4 DEF Sums
<1> HIDE DEF f
<1> QED BY <1>1, <1>4, <1>5 DEF SumsTo

-----------------------------------------------------------------------------
(* The calls of a scenario that make one structure. *)
ofHead(i) == <<<<headP[i], 1>>>> \o [j \in 1..nodes |-> <<nodeP, 1>>]
HeadBytes == TypeSize[headP[1]] + nodes * TypeSize[nodeP]

LEMMA OneCall ==
  ASSUME NEW c \in CallType
  PROVE  SumsTo(<<c>>, CallBytes(c))
<1>1. /\ <<c>> \in Seq(CallType) /\ Len(<<c>>) = 1 /\ <<c>>[1] = c
      /\ CallBytes(c) \in Nat
  BY BytesOfCall
<1>2. \A k \in 1..Len(<<c>>) : CallBytes(<<c>>[k]) = CallBytes(c)
  BY <1>1
<1>3. SumsTo(<<c>>, Len(<<c>>) * CallBytes(c))
  BY ONLY <1>1, <1>2, SumsEqual
<1> QED BY <1>1, <1>3

LEMMA SumsOfHead ==
  ASSUME NEW i \in 1..heads
  PROVE  SumsTo(ofHead(i), HeadBytes)
<1>1. /\ headP[i] \in PtrVars /\ nodeP \in PtrVars /\ nodes \in Nat
      /\ TypeSize[headP[i]] = TypeSize[headP[1]]
  BY ScenarioAssumption
<1>2. /\ <<headP[i], 1>> \in CallType /\ <<nodeP, 1>> \in CallType
  BY <1>1 DEF CallType
<1>3. CallBytes(<<headP[i], 1>>) = TypeSize[headP[1]] /\ CallBytes(<<nodeP, 1>>) = TypeSize[nodeP]
      /\ TypeSize[nodeP] \in Nat
  BY <1>1, HyperContainerAssumption DEF CallBytes
<1>4. PICK s : s = [j \in 1..nodes |-> <<nodeP, 1>>]
  OBVIOUS
<1>5. /\ s \in Seq(CallType) /\ Len(s) = nodes
      /\ \A k \in 1..Len(s) : CallBytes(s[k]) = TypeSize[nodeP]
  <2>1. s \in [1..nodes -> CallType] /\ \A k \in 1..nodes : s[k] = <<nodeP, 1>>
    BY <1>2, <1>4
  <2>2. s \in Seq(CallType) /\ Len(s) = nodes
    BY <2>1, <1>1
  <2>3. \A k \in 1..nodes : CallBytes(s[k]) = TypeSize[nodeP]
    BY <2>1, <1>3
  <2> QED BY <2>2, <2>3
<1>6. SumsTo(s, nodes * TypeSize[nodeP])
  BY <1>3, <1>5, SumsEqual
<1>7. SumsTo(<<<<headP[i], 1>>>>, TypeSize[headP[1]])
  BY <1>2, <1>3, OneCall
<1>8. SumsTo(<<<<headP[i], 1>>>> \o s, HeadBytes)
  BY <1>6, <1>7, SumsJoined DEF HeadBytes
<1> QED BY <1>4, <1>8 DEF ofHead

(* vcmalloc_single is built structure by structure: from the calls of the  *)
(* structures before i and those of structure i.                           *)
Builds(f, n) ==
  /\ f \in [0..n -> Seq(CallType)] /\ f[0] = <<<<headsP, heads>>>>
  /\ \A i \in 1..n : f[i] = f[i - 1] \o ofHead(i)

LEMMA SingleBuilt ==
  ASSUME NEW n \in 0..heads
  PROVE  \E f : Builds(f, n)
<1> DEFINE Good == {k \in Nat : k <= heads => \E f : Builds(f, k)}
<1>1. <<<<headsP, heads>>>> \in Seq(CallType)
  BY ScenarioAssumption DEF CallType
<1>2. 0 \in Good
  <2> DEFINE f == [i \in 0..0 |-> <<<<headsP, heads>>>>]
  <2>1. Builds(f, 0)
    BY <1>1 DEF Builds
  <2> HIDE DEF f
  <2> QED BY <2>1
<1>3. ASSUME NEW k \in Nat, k \in Good PROVE k + 1 \in Good
  <2>1. SUFFICES ASSUME k + 1 <= heads PROVE \E f : Builds(f, k + 1)
    OBVIOUS
  <2>2. PICK f : Builds(f, k)
    BY <1>3, <2>1, ScenarioAssumption
  <2> DEFINE g == [i \in 0..k + 1 |-> IF i <= k THEN f[i] ELSE f[k] \o ofHead(k + 1)]
  <2>3. ofHead(k + 1) \in Seq(CallType)
    <3>1. k + 1 \in 1..heads
      BY <2>1, ScenarioAssumption
    <3> QED BY <3>1, SumsOfHead DEF SumsTo
  <2>4. f \in [0..k -> Seq(CallType)] /\ f[0] = <<<<headsP, heads>>>>
        /\ \A i \in 1..k : f[i] = f[i - 1] \o ofHead(i)
    BY <2>2 DEF Builds
  <2>5. f[k] \o ofHead(k + 1) \in Seq(CallType)
    <3>1. f[k] \in Seq(CallType)
      BY <2>4
    <3> QED BY <3>1, <2>3, Joined
  <2>6. g \in [0..k + 1 -> Seq(CallType)] /\ g[0] = <<<<headsP, heads>>>>
    BY <2>4, <2>5
  <2>7. ASSUME NEW i \in 1..k + 1 PROVE g[i] = g[i - 1] \o ofHead(i)
    <3>1. CASE i <= k
      <4>1. i \in 1..k /\ i \in 0..k + 1 /\ i - 1 \in 0..k + 1 /\ i - 1 <= k
        BY <3>1
      <4>2. g[i] = f[i] /\ g[i - 1] = f[i - 1]
        BY <3>1, <4>1
      <4> QED BY <4>1, <4>2, <2>4
    <3>2. CASE i = k + 1
      <4>1. g[i] = f[k] \o ofHead(k + 1) /\ g[i - 1] = f[k]
        BY <3>2
      <4> QED BY <4>1, <3>2
    <3> QED BY <3>1, <3>2
  <2> HIDE DEF g
  <2>8. Builds(g, k + 1)
    BY <2>6, <2>7 DEF Builds
  <2> QED BY <2>8
<1>4. Nat \subseteq Good
  <2> HIDE DEF Good
  <2> QED BY <1>2, <1>3, InductionBySet
<1> QED BY <1>4, ScenarioAssumption

SingleBytes == TypeSize[headsP] * heads + heads * HeadBytes

LEMMA SingleCalls ==
  \E f : /\ vcmalloc_single = f[heads] /\ f[0] = <<<<headsP, heads>>>>
         /\ \A i \in 1..heads : f[i] = f[i - 1] \o ofHead(i)
<1> DEFINE Calls(f) ==
             f = [i \in 0..heads |-> IF i = 0 THEN <<<<headsP, heads>>>> ELSE f[i - 1] \o ofHead(i)]
           calls == CHOOSE f : Calls(f)
<1>1. vcmalloc_single = calls[heads]
  BY DEF vcmalloc_single, ofHead
<1>2. heads \in Nat /\ heads \in 0..heads
  BY ScenarioAssumption
<1>3. \E f : Calls(f)
  <2>1. PICK f : Builds(f, heads)
    BY <1>2, SingleBuilt
  <2>2. DOMAIN f = 0..heads /\ f = [i \in 0..heads |-> f[i]]
    BY <2>1 DEF Builds
  <2>3. ASSUME NEW i \in 0..heads
        PROVE  f[i] = IF i = 0 THEN <<<<headsP, heads>>>> ELSE f[i - 1] \o ofHead(i)
    <3>1. i # 0 => i \in 1..heads
      BY <1>2
    <3> QED BY <2>1, <3>1 DEF Builds
  <2>4. Calls(f)
    BY <2>2, <2>3
  <2> QED BY <2>4
<1>4. Calls(calls)
  BY <1>3
<1> HIDE DEF calls
<1>5. \A i \in 0..heads : calls[i] = IF i = 0 THEN <<<<headsP, heads>>>> ELSE calls[i - 1] \o ofHead(i)
  BY <1>4
<1> HIDE DEF Calls
<1>6. calls[0] = <<<<headsP, heads>>>>
  <2>1. 0 \in 0..heads
    BY <1>2
  <2> QED BY <1>5, <2>1
<1>7. \A i \in 1..heads : calls[i] = calls[i - 1] \o ofHead(i)
  <2>1. \A i \in 1..heads : i \in 0..heads /\ i # 0
    BY <1>2
  <2> QED BY <1>5, <2>1
<1> QED BY <1>1, <1>6, <1>7

LEMMA SingleSums == SumsTo(vcmalloc_single, SingleBytes)
<1>1. PICK calls : /\ vcmalloc_single = calls[heads] /\ calls[0] = <<<<headsP, heads>>>>
                   /\ \A i \in 1..heads : calls[i] = calls[i - 1] \o ofHead(i)
  BY SingleCalls
<1>2. heads \in Nat /\ heads \in 0..heads
  BY ScenarioAssumption
<1> DEFINE Good == {k \in Nat : k <= heads => SumsTo(calls[k], TypeSize[headsP] * heads + k * HeadBytes)}
<1>6. HeadBytes \in Nat
  BY <1>2, SumsOfHead, ScenarioAssumption DEF SumsTo
<1>7. /\ TypeSize[headsP] * heads \in Nat
      /\ SumsTo(<<<<headsP, heads>>>>, TypeSize[headsP] * heads)
  <2>1. <<headsP, heads>> \in CallType /\ CallBytes(<<headsP, heads>>) = TypeSize[headsP] * heads
    BY ScenarioAssumption DEF CallType, CallBytes
  <2> QED BY <2>1, OneCall, BytesOfCall
<1>8. PICK a \in Nat : a = TypeSize[headsP] * heads
  BY <1>7
<1>9. PICK b \in Nat : b = HeadBytes
  BY <1>6
<1>10. 0 \in Good
  <2>1. calls[0] = <<<<headsP, heads>>>> /\ a + 0 * b = a
    BY <1>1
  <2> QED BY <2>1, <1>7, <1>8, <1>9
<1>11. ASSUME NEW k \in Nat, k \in Good PROVE k + 1 \in Good
  <2>1. SUFFICES ASSUME k + 1 <= heads
        PROVE SumsTo(calls[k + 1], TypeSize[headsP] * heads + (k + 1) * HeadBytes)
    OBVIOUS
  <2>2. k + 1 \in 1..heads /\ k + 1 \in 0..heads /\ k + 1 # 0 /\ (k + 1) - 1 = k
    BY <2>1, <1>2
  <2>3. SumsTo(calls[k], a + k * b) /\ SumsTo(ofHead(k + 1), b)
    BY <1>11, <2>1, <2>2, <1>2, <1>8, <1>9, SumsOfHead
  <2>4. calls[k + 1] = calls[k] \o ofHead(k + 1)
    BY <2>2, <1>1
  <2>5. SumsTo(calls[k + 1], (a + k * b) + b)
    BY <2>3, <2>4, SumsJoined
  <2>6. (a + k * b) + b = a + (k + 1) * b
    OBVIOUS
  <2> QED BY <2>5, <2>6, <1>8, <1>9
<1>12. Nat \subseteq Good
  <2> HIDE DEF Good
  <2> QED BY <1>10, <1>11, InductionBySet
<1>13. SumsTo(calls[heads], TypeSize[headsP] * heads + heads * HeadBytes)
  BY <1>2, <1>12
<1> QED BY <1>1, <1>13 DEF SingleBytes

(* Rows of one matrix, or of three. *)
LEMMA RowSums ==
  ASSUME NEW n \in Nat, n <= 3 * heads, NEW elements \in Nat,
         NEW s, s = [i \in 1..n |-> <<rowP[i], elements>>]
  PROVE  /\ TypeSize[rowP[1]] * elements \in Nat
         /\ SumsTo(s, n * (TypeSize[rowP[1]] * elements))
<1>1. /\ 1 \in 1..3 * heads /\ 1..n \subseteq 1..3 * heads
  BY ScenarioAssumption
<1>2. \A i \in 1..3 * heads : rowP[i] \in PtrVars /\ TypeSize[rowP[i]] = TypeSize[rowP[1]]
  BY ScenarioAssumption
<1>3. \A i \in 1..3 * heads : <<rowP[i], elements>> \in CallType
  BY <1>2 DEF CallType
<1>4. PICK b \in Nat : b = TypeSize[rowP[1]] * elements
  <2>1. CallBytes(<<rowP[1], elements>>) = TypeSize[rowP[1]] * elements
    BY DEF CallBytes
  <2> QED BY <2>1, <1>1, <1>3, BytesOfCall
<1>5. /\ s \in Seq(CallType) /\ Len(s) = n
      /\ \A k \in 1..n : s[k] = <<rowP[k], elements>>
  <2>1. s \in [1..n -> CallType] /\ \A k \in 1..n : s[k] = <<rowP[k], elements>>
    BY <1>1, <1>3
  <2> QED BY <2>1
<1>6. \A k \in 1..n : CallBytes(s[k]) = b
  BY <1>1, <1>2, <1>4, <1>5 DEF CallBytes
<1> QED BY <1>4, <1>5, <1>6, SumsEqual

(* Arrays of row pointers. *)
LEMMA ArraySums ==
  ASSUME NEW n \in 1..3, NEW s, s = [m \in 1..n |-> <<arrayP[m], heads>>]
  PROVE  /\ TypeSize[arrayP[1]] * heads \in Nat
         /\ SumsTo(s, n * (TypeSize[arrayP[1]] * heads))
<1>1. heads \in Nat /\ 1 \in 1..3 /\ 1..n \subseteq 1..3
  BY ScenarioAssumption
<1>2. \A m \in 1..3 : arrayP[m] \in PtrVars /\ TypeSize[arrayP[m]] = TypeSize[arrayP[1]]
  BY ScenarioAssumption
<1>3. \A m \in 1..3 : <<arrayP[m], heads>> \in CallType
  BY <1>1, <1>2 DEF CallType
<1>4. PICK b \in Nat : b = TypeSize[arrayP[1]] * heads
  <2>1. CallBytes(<<arrayP[1], heads>>) = TypeSize[arrayP[1]] * heads
    BY DEF CallBytes
  <2> QED BY <2>1, <1>1, <1>3, BytesOfCall
<1>5. /\ s \in Seq(CallType) /\ Len(s) = n
      /\ \A k \in 1..n : s[k] = <<arrayP[k], heads>>
  <2>1. s \in [1..n -> CallType] /\ \A k \in 1..n : s[k] = <<arrayP[k], heads>>
    BY <1>1, <1>3
  <2> QED BY <2>1
<1>6. \A k \in 1..n : CallBytes(s[k]) = b
  BY <1>1, <1>2, <1>4, <1>5 DEF CallBytes
<1> QED BY <1>4, <1>5, <1>6, SumsEqual

(* What a script asks for in all fits in the range that was reserved. *)
Fits(s) == \E total \in Nat : SumsTo(s, total) /\ total <= RegionPages * PageSize

LEMMA SingleFits == Fits(vcmalloc_single)
<1>1. /\ heads \in Nat /\ nodes \in Nat /\ headsP \in PtrVars /\ nodeP \in PtrVars
      /\ headP[1] \in PtrVars
  BY ScenarioAssumption
<1>2. PICK a \in Nat : a = TypeSize[headsP]
  BY <1>1, HyperContainerAssumption
<1>3. PICK b \in Nat : b = TypeSize[headP[1]]
  BY <1>1, HyperContainerAssumption
<1>4. PICK c \in Nat : c = TypeSize[nodeP]
  BY <1>1, HyperContainerAssumption
<1>5. SumsTo(vcmalloc_single, SingleBytes) /\ SingleBytes \in Nat
  BY SingleSums DEF SumsTo
<1>6. SingleBytes = a * heads + heads * (b + nodes * c)
  BY <1>2, <1>3, <1>4 DEF SingleBytes, HeadBytes
<1>7. container_size = 2 * a * heads + (b + c * nodes) * heads
  BY <1>2, <1>3, <1>4 DEF container_size
<1>8. SingleBytes <= container_size
  <2>1. nodes * c = c * nodes /\ nodes * c \in Nat /\ a * heads \in Nat
    BY <1>1
  <2>2. PICK h \in Nat : h = b + c * nodes
    BY <2>1
  <2>3. heads * h = h * heads /\ heads * h \in Nat /\ 2 * a * heads = a * heads + a * heads
    BY <1>1
  <2> QED BY <1>6, <1>7, <2>1, <2>2, <2>3
<1>9. container_size <= RegionPages * PageSize
  BY RangeAssumption
<1>10. container_size \in Int
  <2>1. 2 * a * heads \in Int /\ (b + c * nodes) * heads \in Int
    BY <1>1
  <2> QED BY <2>1, <1>7
<1>11. RegionPages * PageSize \in Int
  BY Sizes
<1> QED BY <1>5, <1>8, <1>9, <1>10, <1>11 DEF Fits

LEMMA MatrixFits == Fits(vcmalloc_2d_matrix_affine_array)
<1>1. heads \in Nat \ {0} /\ nodes \div 2 \in Nat
  BY ScenarioAssumption
<1>2. PICK a \in Nat : a = TypeSize[arrayP[1]] * heads
  <2>1. 1 \in 1..3
    OBVIOUS
  <2> QED BY <2>1, ArraySums
<1>3. PICK rows : rows = [i \in 1..heads |-> <<rowP[i], nodes \div 2>>]
  OBVIOUS
<1>4. /\ TypeSize[rowP[1]] * (nodes \div 2) \in Nat
      /\ SumsTo(rows, heads * (TypeSize[rowP[1]] * (nodes \div 2)))
  <2>1. heads \in Nat /\ heads <= 3 * heads
    BY <1>1
  <2> QED BY <2>1, <1>1, <1>3, RowSums
<1>5. PICK b \in Nat : b = TypeSize[rowP[1]] * (nodes \div 2)
  BY <1>4
<1>6. SumsTo(<<<<arrayP[1], heads>>>>, a)
  <2>1. <<arrayP[1], heads>> \in CallType /\ CallBytes(<<arrayP[1], heads>>) = a
    BY <1>1, <1>2, ScenarioAssumption DEF CallType, CallBytes
  <2> QED BY <2>1, OneCall
<1>7. SumsTo(vcmalloc_2d_matrix_affine_array, a + heads * b)
  BY <1>3, <1>4, <1>5, <1>6, SumsJoined DEF vcmalloc_2d_matrix_affine_array
<1>8. a + heads * b <= RegionPages * PageSize
  BY <1>2, <1>5, RangeAssumption
<1>9. a + heads * b \in Nat
  <2>1. heads * b \in Nat
    BY <1>1
  <2> QED BY <2>1
<1> QED BY <1>7, <1>8, <1>9 DEF Fits

LEMMA MatricesFit == Fits(vcmalloc_matmult(heads))
<1>1. heads \in Nat \ {0} /\ heads \in Nat
  BY ScenarioAssumption
<1>2. PICK arrays_ : arrays_ = [m \in 1..3 |-> <<arrayP[m], heads>>]
  OBVIOUS
<1>3. PICK rows : rows = [i \in 1..3 * heads |-> <<rowP[i], heads>>]
  OBVIOUS
<1>4. PICK a \in Nat : a = TypeSize[arrayP[1]] * heads /\ SumsTo(arrays_, 3 * a)
  <2>1. 3 \in 1..3
    OBVIOUS
  <2> QED BY <2>1, <1>2, ArraySums
<1>5. PICK b \in Nat : b = TypeSize[rowP[1]] * heads /\ SumsTo(rows, (3 * heads) * b)
  <2>1. 3 * heads \in Nat /\ 3 * heads <= 3 * heads
    BY <1>1
  <2> QED BY <2>1, <1>1, <1>3, RowSums
<1>6. vcmalloc_matmult(heads) = arrays_ \o rows
  BY <1>2, <1>3 DEF vcmalloc_matmult
<1>7. SumsTo(vcmalloc_matmult(heads), 3 * a + (3 * heads) * b)
  BY <1>4, <1>5, <1>6, SumsJoined
<1>8. 3 * a + (3 * heads) * b = 3 * (a + heads * b)
  <2>1. (3 * heads) * b = 3 * (heads * b) /\ heads * b \in Nat
    BY <1>1
  <2> QED BY <2>1
<1>9. 3 * (a + heads * b) <= RegionPages * PageSize
  BY <1>4, <1>5, RangeAssumption
<1>10. 3 * a + (3 * heads) * b \in Nat
  BY <1>1
<1> QED BY <1>7, <1>8, <1>9, <1>10 DEF Fits

LEMMA ScriptsFit ==
  ASSUME NEW s \in Scripts
  PROVE  Fits(s)
BY SingleFits, MatrixFits, MatricesFit DEF Scripts

-----------------------------------------------------------------------------
(* The inductive invariant of a scenario: what was handed out, by the      *)
(* script alone, and how the hypercontainer stands after it.  The address  *)
(* of the last container is right although other containers that share its *)
(* variable have lost theirs.                                              *)
HandedEnd ==
  IF handed = <<>> THEN Base ELSE handed[Len(handed)][1] + handed[Len(handed)][2]

HandedList ==
  /\ script \in Seq(CallType)
  /\ handed \in Seq(Nat \X Nat) /\ Len(handed) <= Len(script)
  /\ HandedApart
  /\ HandedEnd \in Nat
  /\ \A k \in 1..Len(handed) : Base <= handed[k][1] /\ handed[k][1] + handed[k][2] <= HandedEnd
  /\ \E f, total : /\ Sums(f, script, total) /\ total \in Nat
                   /\ total <= RegionPages * PageSize
                   /\ HandedEnd = Base + f[Len(handed)]

Linked ==
  /\ containers \in Seq(ContextType) /\ pointer \in [PtrVars -> Nat]
  /\ Len(containers) = Len(handed)
  /\ containers # <<>> => nextAddress(Context(Len(containers))) = HandedEnd
  /\ pfns \in Seq(Frames) /\ Consistent /\ Len(pfns) = PageCeil(HandedEnd)

HandedIInv ==
  HandedList /\ (status = "running" => Linked) /\ RangeSuffices

(* What Append returns. *)
LEMMA Appended ==
  ASSUME NEW T, NEW s \in Seq(T), NEW c \in T
  PROVE  /\ Append(s, c) \in Seq(T) /\ Len(Append(s, c)) = Len(s) + 1
         /\ Append(s, c)[Len(s) + 1] = c
         /\ \A k \in 1..Len(s) : Append(s, c)[k] = s[k]
  OBVIOUS

(* One more call, behind the ones before. *)
LEMMA HandedGrows ==
  ASSUME HandedList, Len(handed) < Len(script), UNCHANGED script,
         handed' = Append(handed, <<HandedEnd, CallBytes(script[Len(handed) + 1])>>)
  PROVE  /\ HandedList'
         /\ HandedEnd' = HandedEnd + CallBytes(script[Len(handed) + 1])
         /\ Len(handed') = Len(handed) + 1
         /\ HandedEnd' <= Base + RegionPages * PageSize
<1>0. /\ script \in Seq(CallType)
      /\ handed \in Seq(Nat \X Nat)
      /\ HandedApart /\ HandedEnd \in Nat
      /\ \A k \in 1..Len(handed) : Base <= handed[k][1] /\ handed[k][1] + handed[k][2] <= HandedEnd
  BY DEF HandedList
<1>1. PICK f, total : /\ Sums(f, script, total) /\ total \in Nat
                      /\ total <= RegionPages * PageSize
                      /\ HandedEnd = Base + f[Len(handed)]
  BY DEF HandedList
<1>2. PICK n \in Nat : n = Len(handed)
  BY <1>0
<1>3. PICK m \in Nat : m = Len(script)
  BY <1>0
<1>4. PICK end \in Nat : end = HandedEnd
  BY <1>0
<1>5. n + 1 \in 1..m /\ n \in 0..m /\ (n + 1) - 1 = n
  BY <1>2, <1>3
<1>6. PICK b \in Nat : b = CallBytes(script[n + 1])
  BY <1>0, <1>3, <1>5, Member, BytesOfCall
<1>7. /\ f[n] \in Nat /\ f[n + 1] \in Nat /\ f[n + 1] = f[n] + b /\ f[n + 1] <= total
  <2>1. /\ f \in [0..m -> Nat]
        /\ \A k \in 1..m : f[k] = f[k - 1] + CallBytes(script[k])
        /\ \A k \in 0..m : f[k] <= total
    BY ONLY <1>1, <1>3 DEF Sums
  <2>2. n + 1 \in 0..m
    BY <1>5
  <2> QED BY <2>1, <2>2, <1>5, <1>6
<1>before. PICK p \in Nat : p = f[n]
  BY <1>7
<1>after. PICK q \in Nat : q = f[n + 1] /\ q = p + b /\ q <= total
  BY <1>7, <1>before
<1>8. /\ handed' \in Seq(Nat \X Nat) /\ Len(handed') = n + 1
      /\ handed'[n + 1] = <<end, b>>
      /\ \A k \in 1..n : handed'[k] = handed[k]
      /\ handed' # <<>>
  <2>1. <<end, b>> \in Nat \X Nat
    OBVIOUS
  <2>2. PICK c \in Nat \X Nat : c = <<end, b>>
    BY <2>1
  <2>3. handed' = Append(handed, c)
    BY <2>2, <1>2, <1>4, <1>6
  <2>4. /\ Append(handed, c) \in Seq(Nat \X Nat) /\ Len(Append(handed, c)) = n + 1
        /\ Append(handed, c)[n + 1] = c
        /\ \A k \in 1..n : Append(handed, c)[k] = handed[k]
    BY ONLY <1>0, <1>2, <2>2, Appended
  <2>5. handed' \in Seq(Nat \X Nat) /\ Len(handed') = n + 1 => handed' # <<>>
    <3>1. n + 1 # 0
      BY <1>2
    <3> QED BY <3>1, NotEmpty
  <2> QED BY <2>2, <2>3, <2>4, <2>5
<1>9. HandedEnd' = end + b
  <2>1. <<end, b>>[1] = end /\ <<end, b>>[2] = b
    OBVIOUS
  <2>2. Len(handed') = n + 1 /\ handed'[n + 1] = <<end, b>> /\ handed' # <<>>
    BY <1>8
  <2>3. HandedEnd' = handed'[n + 1][1] + handed'[n + 1][2]
    BY ONLY <2>2 DEF HandedEnd
  <2> QED BY ONLY <2>1, <2>2, <2>3
<1>10. end = Base + p /\ Base \in Nat
  BY <1>1, <1>2, <1>4, <1>before, Sizes
<1>11. HandedApart'
  <2> SUFFICES ASSUME NEW k \in 1..n + 1
      PROVE handed'[k][1] = IF k = 1 THEN Base ELSE handed'[k - 1][1] + handed'[k - 1][2]
    BY <1>8 DEF HandedApart
  <2>1. CASE k \in 1..n
    <3>1. handed'[k] = handed[k] /\ (k # 1 => k - 1 \in 1..n /\ handed'[k - 1] = handed[k - 1])
      <4>1. k # 1 => k - 1 \in 1..n
        BY ONLY <2>1, n \in Nat
      <4> QED BY ONLY <4>1, <2>1, <1>8
    <3>2. handed[k][1] = IF k = 1 THEN Base ELSE handed[k - 1][1] + handed[k - 1][2]
      BY <2>1, <1>0, <1>2 DEF HandedApart
    <3> QED BY <3>1, <3>2
  <2>2. CASE k = n + 1
    <3>1. handed'[k][1] = end
      BY <2>2, <1>8
    <3>2. CASE n = 0
      <4>1. handed = <<>>
        BY <3>2, <1>0, <1>2, NotEmpty
      <4> QED BY <4>1, <3>1, <3>2, <2>2, <1>4 DEF HandedEnd
    <3>3. CASE n # 0
      <4>1. handed # <<>> /\ n \in 1..n /\ k - 1 = n /\ k # 1
        BY <3>3, <2>2, <1>2
      <4>2. end = handed[n][1] + handed[n][2]
        BY <4>1, <1>2, <1>4 DEF HandedEnd
      <4>3. handed'[n] = handed[n]
        BY <4>1, <1>8
      <4> QED BY <4>1, <4>2, <4>3, <3>1
    <3> QED BY <3>2, <3>3
  <2> QED BY <2>1, <2>2, <1>2
<1>12. ASSUME NEW k \in 1..n + 1
       PROVE Base <= handed'[k][1] /\ handed'[k][1] + handed'[k][2] <= HandedEnd'
  <2>1. CASE k \in 1..n
    <3>1. handed'[k] = handed[k] /\ Base <= handed[k][1] /\ handed[k][1] + handed[k][2] <= end
      BY <2>1, <1>0, <1>2, <1>4, <1>8
    <3>2. handed[k][1] \in Nat /\ handed[k][2] \in Nat
      <4>1. handed[k] \in Nat \X Nat
        BY <2>1, <1>0, <1>2, Member
      <4> QED BY <4>1
    <3>3. PICK x \in Nat : x = handed[k][1]
      BY <3>2
    <3>4. PICK y \in Nat : y = handed[k][2]
      BY <3>2
    <3>5. Base <= x /\ x + y <= end /\ handed'[k][1] = x /\ handed'[k][2] = y
      BY <3>1, <3>3, <3>4
    <3>6. x + y <= end + b
      BY ONLY <3>5, x \in Nat, y \in Nat, end \in Nat, b \in Nat
    <3> QED BY ONLY <3>5, <3>6, <1>9
  <2>2. CASE k = n + 1
    <3>1. handed'[k][1] = end /\ handed'[k][2] = b
      BY <2>2, <1>8
    <3> QED BY ONLY <3>1, <1>9, <1>10, p \in Nat, b \in Nat, end \in Nat
  <2> QED BY <2>1, <2>2, <1>2
<1>13. HandedEnd' = Base + q /\ HandedEnd' \in Nat
  BY ONLY <1>9, <1>10, <1>after, p \in Nat, b \in Nat, q \in Nat
<1>14. HandedList'
  <2>1. script' = script /\ Len(handed') <= Len(script')
    BY <1>3, <1>5, <1>8
  <2>2. \E g, t : /\ Sums(g, script', t) /\ t \in Nat
                  /\ t <= RegionPages * PageSize
                  /\ HandedEnd' = Base + g[Len(handed')]
    BY <2>1, <1>1, <1>8, <1>13, <1>after
  <2>3. \A k \in 1..Len(handed') : Base <= handed'[k][1] /\ handed'[k][1] + handed'[k][2] <= HandedEnd'
    BY <1>8, <1>12
  <2> QED BY ONLY <2>1, <2>2, <2>3, <1>0, <1>8, <1>11, <1>13 DEF HandedList
<1>15. HandedEnd' <= Base + RegionPages * PageSize
  <2>1. PICK t \in Int : t = RegionPages * PageSize
    BY Sizes
  <2>2. total \in Int /\ total <= t
    BY <1>1, <2>1
  <2>3. HandedEnd' <= Base + t
    BY ONLY <2>2, <1>10, <1>13, <1>after, q \in Nat, t \in Int
  <2> QED BY <2>1, <2>3
<1> QED BY <1>2, <1>4, <1>6, <1>8, <1>9, <1>14, <1>15

(* The pages up to an address within the reserved range are in it. *)
LEMMA PagesReserved ==
  ASSUME NEW a \in Int, a <= Base + RegionPages * PageSize
  PROVE  PageCeil(a) <= RegionPages
<1>1. Base \in Int /\ RegionPages \in Int /\ RegionPages * PageSize \in Int
  BY Sizes
<1>2. PageCeil(Base + RegionPages * PageSize) = 0 + RegionPages
  BY <1>1, PagesFurther, CeilOfBase
<1>3. PageCeil(a) <= PageCeil(Base + RegionPages * PageSize)
  BY <1>1, CeilMonotone
<1> QED BY <1>1, <1>2, <1>3

(* Nothing is handed out. *)
LEMMA HandedSame ==
  ASSUME HandedList, UNCHANGED <<script, handed>>
  PROVE  HandedList'
<1>1. script' = script /\ handed' = handed
  OBVIOUS
<1> QED BY <1>1 DEF HandedList, HandedEnd, HandedApart

(* Where ContainerAlloc places a container: the address is that of the     *)
(* last container, whichever variable it is held in.                       *)
LEMMA NextPlace ==
  ASSUME HandedList, Linked
  PROVE  /\ (IF containers = <<>> THEN Base ELSE nextAddress(Context(Len(containers)))) = HandedEnd
         /\ (IF containers = <<>> THEN Base ELSE nextMappingAddress(Context(Len(containers))))
              = RoundUp(HandedEnd)
         /\ (IF containers = <<>> THEN 0 ELSE guestBytes(Context(Len(containers))))
              = RoundUp(HandedEnd) - HandedEnd
<1>1. CASE containers = <<>>
  <2>1. handed = <<>>
    BY <1>1, NotEmpty DEF Linked, HandedList
  <2>2. HandedEnd = Base
    BY <2>1 DEF HandedEnd
  <2> QED BY <1>1, <2>2, RoundUpBase, Sizes
<1>2. CASE containers # <<>>
  <2>1. nextAddress(Context(Len(containers))) = HandedEnd
    BY <1>2 DEF Linked
  <2> QED BY <1>2, <2>1 DEF nextMappingAddress, guestBytes
<1> QED BY <1>1, <1>2

(* The new container is the last one, and its variable has its address.    *)
LEMMA LinkedGrown ==
  ASSUME Linked, HandedEnd \in Nat, NEW v \in PtrVars, NEW n \in Nat,
         containers' = Append(containers,
           [reference |-> v, type_size |-> TypeSize[v], elements_num |-> n]),
         pointer' = [pointer EXCEPT ![v] = HandedEnd],
         Len(handed') = Len(handed) + 1,
         HandedEnd' = HandedEnd + TypeSize[v] * n,
         pfns' \in Seq(Frames), Consistent', Len(pfns') = PageCeil(HandedEnd')
  PROVE  Linked'
<1>1. /\ containers \in Seq(ContextType) /\ pointer \in [PtrVars -> Nat]
      /\ Len(containers) = Len(handed)
  BY DEF Linked
<1>2. PICK m \in Nat : m = Len(containers)
  BY <1>1
<1>3. PICK c \in ContextType : c = [reference |-> v, type_size |-> TypeSize[v], elements_num |-> n]
  <2>1. TypeSize[v] \in Nat
    BY HyperContainerAssumption
  <2> QED BY <2>1 DEF ContextType
<1>4. /\ containers' \in Seq(ContextType) /\ Len(containers') = m + 1
      /\ containers'[m + 1] = c
  <2>1. containers' = Append(containers, c)
    BY <1>3
  <2>2. /\ Append(containers, c) \in Seq(ContextType) /\ Len(Append(containers, c)) = m + 1
        /\ Append(containers, c)[m + 1] = c
    BY ONLY <1>1, <1>2, <1>3, Appended
  <2> QED BY <2>1, <2>2
<1>5. pointer' \in [PtrVars -> Nat] /\ pointer'[v] = HandedEnd
  BY <1>1
<1>6. nextAddress(Context(m + 1))' = HandedEnd + TypeSize[v] * n
  <2>1. c.reference = v /\ c.type_size = TypeSize[v] /\ c.elements_num = n
    BY <1>3
  <2>2. nextAddress(Context(m + 1))'
          = pointer'[containers'[m + 1].reference]
              + containers'[m + 1].type_size * containers'[m + 1].elements_num
    BY DEF nextAddress, Context
  <2> QED BY <2>1, <2>2, <1>4, <1>5
<1>7. nextAddress(Context(Len(containers)))' = HandedEnd'
  BY <1>4, <1>6
<1>8. Len(containers') = Len(handed')
  BY <1>1, <1>2, <1>4
<1> QED BY ONLY <1>4, <1>5, <1>7, <1>8, pfns' \in Seq(Frames), Consistent',
              Len(pfns') = PageCeil(HandedEnd') DEF Linked, PageCeil, RoundUp

(* The reserved range has room for the call that follows. *)
LEMMA CallReserved ==
  ASSUME HandedList, Len(handed) < Len(script)
  PROVE  HandedEnd + CallBytes(script[Len(handed) + 1]) <= Base + RegionPages * PageSize
<1>1. /\ script \in Seq(CallType) /\ handed \in Seq(Nat \X Nat)
  BY DEF HandedList
<1>2. PICK f, total : /\ Sums(f, script, total) /\ total \in Nat
                      /\ total <= RegionPages * PageSize
                      /\ HandedEnd = Base + f[Len(handed)]
  BY DEF HandedList
<1>3. PICK n \in Nat : n = Len(handed)
  BY <1>1
<1>4. PICK m \in Nat : m = Len(script)
  BY <1>1
<1>5. n + 1 \in 1..m /\ n + 1 \in 0..m /\ n \in 0..m /\ (n + 1) - 1 = n
  BY <1>3, <1>4
<1>6. PICK b \in Nat : b = CallBytes(script[n + 1])
  BY <1>1, <1>4, <1>5, Member, BytesOfCall
<1>7. PICK p \in Nat : p = f[n]
  BY <1>2, <1>4, <1>5 DEF Sums
<1>8. p + b <= total
  BY <1>2, <1>4, <1>5, <1>6, <1>7 DEF Sums
<1>9. PICK t \in Int : t = RegionPages * PageSize
  BY Sizes
<1>10. HandedEnd = Base + p /\ Base \in Nat /\ total \in Nat /\ total <= t
  BY <1>2, <1>3, <1>7, <1>9, Sizes
<1>11. HandedEnd + b <= Base + t
  BY ONLY <1>8, <1>10, p \in Nat, b \in Nat, t \in Int
<1> QED BY <1>3, <1>6, <1>9, <1>11

(* A call of a scenario, with every way it can fail: for want of memory or *)
(* of frames, but never for want of reserved range.                        *)
LEMMA CallHands ==
  ASSUME HandedIInv, Call
  PROVE  HandedIInv'
<1>1. /\ status = "running" /\ Len(handed) < Len(script) /\ script' = script
      /\ HandedList /\ Linked /\ RangeSuffices
  BY DEF HandedIInv, Call, Running
<1>2. PICK call : /\ call = script[Len(handed) + 1]
                  /\ ContainerAlloc(call[1], call[2])
                  /\ handed' = IF status' # "running" THEN handed
                               ELSE Append(handed, <<pointer'[call[1]], TypeSize[call[1]] * call[2]>>)
  BY DEF Call
<1>3. call \in CallType
  <2>1. script \in Seq(CallType) /\ handed \in Seq(Nat \X Nat)
    BY <1>1 DEF HandedList
  <2>2. Len(handed) + 1 \in 1..Len(script)
    BY <2>1, <1>1
  <2> QED BY <2>1, <2>2, <1>2, Member
<1>4. PICK v \in PtrVars : v = call[1]
  BY <1>3, BytesOfCall
<1>5. PICK n \in Nat : n = call[2]
  BY <1>3, BytesOfCall
<1>6. PICK bytes \in Nat : bytes = TypeSize[v] * n /\ bytes = CallBytes(script[Len(handed) + 1])
  BY <1>2, <1>3, <1>4, <1>5, BytesOfCall DEF CallBytes
<1>7. PICK end \in Nat : end = HandedEnd
  BY <1>1 DEF HandedList
<1>8. PICK guest \in Int : guest = RoundUp(end) - end
  BY <1>7, PageBoundary
<1>9. PICK k \in Nat : k = PagesFor(bytes - guest)
  <2>1. bytes - guest \in Int
    BY <1>6, <1>8
  <2> QED BY <2>1, PageSizeAssumption, PagesForCovers
<1>10. PICK mapping : mapping = RoundUp(end) /\ PageAt(mapping) = PageCeil(end)
  BY <1>7, PageOfBoundary
<1>11. /\ PageCeil(end) \in Int
       /\ PageCeil(end + bytes) = PageCeil(end) + k
       /\ bytes <= guest => k = 0
  <2>1. bytes <= guest => bytes - guest <= 0
    BY <1>6, <1>8
  <2>2. bytes - guest <= 0 => PagesFor(bytes - guest) = 0
    BY DEF PagesFor
  <2>3. end \in Int /\ bytes \in Nat
    BY <1>6, <1>7
  <2>4. PageCeil(end) \in Int /\ PageCeil(end + bytes) = PageCeil(end) + PagesFor(bytes - (RoundUp(end) - end))
    BY <2>3, PageBoundary, CeilAfter
  <2> QED BY <2>1, <2>2, <2>4, <1>8, <1>9
<1>12. /\ pfns \in Seq(Frames) /\ Consistent /\ Len(pfns) = PageCeil(end)
  BY <1>1, <1>7 DEF Linked

<1>13. ASSUME status' # "running", status' # "cannot map" PROVE HandedIInv'
  <2>1. handed' = handed
    BY <1>2, <1>13
  <2>2. HandedList'
    BY <2>1, <1>1, HandedSame
  <2> QED BY <2>2, <1>13 DEF HandedIInv, RangeSuffices
<1>14. CASE /\ ContextReallocFails(1) /\ Throw("no memory for contexts")
            /\ UNCHANGED <<bookkeeping, caller, os>>
  BY <1>13, <1>14 DEF Throw
<1>15. CASE /\ containers' = Append(containers,
                 [reference |-> v, type_size |-> TypeSize[v], elements_num |-> n])
            /\ pointer' = [pointer EXCEPT ![v] = end]
            /\ \/ bytes <= guest /\ UNCHANGED <<pfns, pfns_max, os, status>>
               \/ bytes > guest /\ TakePages(mapping, k, v, n)
  <2>0. pointer'[v] = end
    BY <1>1, <1>15 DEF Linked
  <2>1. ASSUME status' = "running" PROVE /\ HandedList' /\ HandedEnd' = end + bytes
                                         /\ Len(handed') = Len(handed) + 1
                                         /\ end + bytes <= Base + RegionPages * PageSize
    <3>1. handed' = Append(handed, <<HandedEnd, CallBytes(script[Len(handed) + 1])>>)
      BY <2>0, <2>1, <1>2, <1>4, <1>5, <1>6, <1>7
    <3> QED BY <3>1, <1>1, <1>6, <1>7, HandedGrows
  <2>2. ASSUME status' = "running", pfns' \in Seq(Frames), Consistent', Len(pfns') = PageCeil(end) + k
        PROVE  HandedIInv'
    <3>1. HandedList' /\ HandedEnd' = HandedEnd + TypeSize[v] * n /\ Len(handed') = Len(handed) + 1
      BY <2>1, <2>2, <1>6, <1>7
    <3>2. Len(pfns') = PageCeil(HandedEnd')
      BY <2>1, <2>2, <1>11
    <3>3. pointer' = [pointer EXCEPT ![v] = HandedEnd] /\ HandedEnd \in Nat
      BY <1>7, <1>15
    <3>4. Linked'
      BY <3>1, <3>2, <3>3, <2>2, <1>1, <1>15, LinkedGrown
    <3> QED BY <3>1, <3>4, <2>2 DEF HandedIInv, RangeSuffices
  <2>3. CASE bytes <= guest /\ UNCHANGED <<pfns, pfns_max, os, status>>
    <3>1. /\ pfns' = pfns /\ frames' = frames /\ table' = table /\ status' = "running"
      BY <2>3, <1>1 DEF os
    <3>2. Consistent' /\ Len(pfns') = PageCeil(end) + k /\ pfns' \in Seq(Frames)
      <4>1. Consistent'
        BY ONLY <3>1, <1>12 DEF Consistent, Backed
      <4> QED BY <4>1, <3>1, <2>3, <1>11, <1>12
    <3> QED BY <3>1, <3>2, <2>2
  <2>4. CASE HeapReAllocFails(k) /\ Throw("no memory for pfns")
    BY <2>4, <1>13 DEF Throw
  <2> DEFINE Outcome(got) ==
        /\ frames' = frames \cup Range(got)
        /\ \/ /\ Len(got) < k
              /\ Throw("out of frames")
              /\ UNCHANGED <<pfns, asked, table>>
           \/ /\ Len(got) = k /\ ~CanMap(table, frames', mapping, got)
              /\ Throw("cannot map")
              /\ UNCHANGED <<pfns, asked, table>>
           \/ /\ Len(got) = k /\ CanMap(table, frames', mapping, got)
              /\ table' = MapPages(table, mapping, got)
              /\ pfns' = pfns \o got
              /\ asked' = [asked EXCEPT ![v] = n]
              /\ UNCHANGED status
  <2>5. CASE \E got \in Grants(k) : Outcome(got)
    <3>1. PICK got \in Grants(k) : Outcome(got)
      BY <2>5
    <3>2. /\ got \in Seq(Frames) /\ IsInjective(got) /\ frames \cap Range(got) = {}
      BY <1>9, Granted
    <3>3. PICK all : all = pfns \o got
      OBVIOUS
    <3>4. /\ all \in Seq(Frames) /\ Len(all) = Len(pfns) + Len(got)
          /\ IsInjective(all) /\ Range(all) = frames'
          /\ CanMap(table, frames', mapping, got) <=> Len(all) <= RegionPages
          /\ MapPages(table, mapping, got) = Backed(all)
      <4>1. /\ pfns \in Seq(Frames) /\ IsInjective(pfns) /\ NoFrame \notin Frames
            /\ got \in Seq(Frames) /\ IsInjective(got)
            /\ Range(pfns) \cap Range(got) = {} /\ PageAt(mapping) = Len(pfns)
        BY <1>10, <1>12, <3>2, FramesAssumption DEF Consistent
      <4>2. /\ pfns \o got \in Seq(Frames) /\ Len(pfns \o got) = Len(pfns) + Len(got)
            /\ IsInjective(pfns \o got) /\ Range(pfns \o got) = Range(pfns) \cup Range(got)
            /\ CanMap(Backed(pfns), Range(pfns) \cup Range(got), mapping, got)
                 <=> Len(pfns \o got) <= RegionPages
            /\ MapPages(Backed(pfns), mapping, got) = Backed(pfns \o got)
        BY ONLY <4>1, AppendAndMap
      <4>3. frames' = Range(pfns) \cup Range(got) /\ table = Backed(pfns)
        BY <1>12, <3>1 DEF Consistent
      <4> QED BY ONLY <3>3, <4>2, <4>3
    <3>5. PageCeil(end) + k <= RegionPages
      <4>1. end + bytes <= Base + RegionPages * PageSize
        BY <1>1, <1>6, <1>7, CallReserved
      <4> QED BY <4>1, <1>7, <1>6, <1>11, PagesReserved
    <3>6. CASE Len(got) < k /\ Throw("out of frames")
      BY <3>6, <1>13 DEF Throw
    <3>7. CASE Len(got) = k /\ ~CanMap(table, frames', mapping, got)
      BY <3>4, <3>5, <3>7, <1>12
    <3>8. CASE /\ Len(got) = k /\ CanMap(table, frames', mapping, got)
               /\ table' = MapPages(table, mapping, got)
               /\ pfns' = pfns \o got /\ UNCHANGED status
      <4>1. pfns' = all /\ table' = Backed(all) /\ Len(all) <= RegionPages /\ status' = "running"
        BY <3>3, <3>4, <3>8, <1>1
      <4>2. Consistent'
        BY ONLY <3>4, <4>1 DEF Consistent, Backed
      <4>3. Len(pfns') = PageCeil(end) + k
        BY <3>4, <3>8, <4>1, <1>12
      <4> QED BY <3>4, <4>1, <4>2, <4>3, <2>2
    <3> QED BY <3>1, <3>6, <3>7, <3>8
  <2> QED BY <1>15, <2>3, <2>4, <2>5 DEF TakePages
<1>16. /\ (IF containers = <<>> THEN Base ELSE nextAddress(Context(Len(containers)))) = end
       /\ (IF containers = <<>> THEN Base ELSE nextMappingAddress(Context(Len(containers)))) = mapping
       /\ (IF containers = <<>> THEN 0 ELSE guestBytes(Context(Len(containers)))) = guest
  BY <1>1, <1>7, <1>8, <1>10, NextPlace
<1>17. ContainerAlloc(v, n)
  BY <1>2, <1>4, <1>5

<1> QED BY ONLY <1>6, <1>9, <1>14, <1>15, <1>16, <1>17 DEF ContainerAlloc

(* Room made in advance, or refused. *)
LEMMA RoomHands ==
  ASSUME HandedIInv, MakeRoom
  PROVE  HandedIInv'
<1>1. /\ status = "running" /\ UNCHANGED <<script, handed>>
      /\ HandedList /\ Linked /\ RangeSuffices
  BY DEF HandedIInv, MakeRoom, Running
<1>2. HandedList'
  BY <1>1, HandedSame
<1>3. \E k : ExtendCcStorage(k) \/ ExtendPfnsStorage(k)
  BY DEF MakeRoom
<1>4. CASE UNCHANGED <<containers, pfns, caller, os, status>>
  <2>1. /\ containers' = containers /\ pointer' = pointer /\ pfns' = pfns
        /\ frames' = frames /\ table' = table /\ status' = status /\ handed' = handed
    BY <1>1, <1>4 DEF caller, os
  <2>2. Linked'
    BY ONLY <2>1, <1>1 DEF Linked, Consistent, Backed, HandedEnd, nextAddress, Context
  <2> QED BY <2>1, <2>2, <1>1, <1>2 DEF HandedIInv, RangeSuffices
<1>5. CASE status' \in {"no memory for contexts", "no memory for pfns"}
  <2>1. status' # "running" /\ status' # "cannot map"
    BY <1>5
  <2> QED BY <2>1, <1>2 DEF HandedIInv, RangeSuffices
<1> QED BY <1>3, <1>4, <1>5 DEF ExtendCcStorage, ExtendPfnsStorage, Throw

(* vccfree at the end: the frames are the process's own. *)
LEMMA FreeHands ==
  ASSUME HandedIInv, Free
  PROVE  HandedIInv'
<1>1. /\ HandedList /\ UNCHANGED <<script, handed>> /\ HyperContainerFree
  BY DEF HandedIInv, Free
<1>2. HandedList'
  BY <1>1, HandedSame
<1>3. status' = "freed" \/ status' = "cannot free"
  BY <1>1 DEF HyperContainerFree, Throw
<1>4. status' # "running" /\ status' # "cannot map"
  BY <1>3
<1> QED BY <1>2, <1>4 DEF HandedIInv, RangeSuffices

LEMMA HandsStep == HandedIInv /\ [ScenarioNext]_scenarioVars => HandedIInv'
<1> SUFFICES ASSUME HandedIInv, [ScenarioNext]_scenarioVars PROVE HandedIInv'
  OBVIOUS
<1>1. CASE UNCHANGED scenarioVars
  <2>1. /\ containers' = containers /\ pointer' = pointer /\ pfns' = pfns
        /\ frames' = frames /\ table' = table /\ status' = status
        /\ script' = script /\ handed' = handed
    BY <1>1 DEF scenarioVars, vars, bookkeeping, caller, os
  <2>2. HandedList'
    BY <2>1, HandedSame DEF HandedIInv
  <2>3. Linked => Linked'
    BY ONLY <2>1 DEF Linked, Consistent, Backed, HandedEnd, nextAddress, Context
  <2> QED BY <2>1, <2>2, <2>3 DEF HandedIInv, RangeSuffices
<1> QED BY <1>1, CallHands, RoomHands, FreeHands DEF ScenarioNext, Over

(* Before the first call. *)
LEMMA HandsInit == ScenarioInit => HandedIInv
<1> SUFFICES ASSUME ScenarioInit PROVE HandedIInv
  OBVIOUS
<1>1. /\ containers = <<>> /\ pfns = <<>> /\ handed = <<>> /\ status = "running"
      /\ frames = {} /\ table = [p \in Pages |-> NoFrame]
      /\ pointer = [v \in PtrVars |-> 0] /\ script \in Scripts
  BY DEF ScenarioInit, Init
<1>2. /\ HandedEnd = Base /\ Base \in Nat /\ Len(handed) = 0
  BY <1>1, Sizes DEF HandedEnd
<1>3. PICK total \in Nat : SumsTo(script, total) /\ total <= RegionPages * PageSize
  BY <1>1, ScriptsFit DEF Fits
<1>4. PICK f : Sums(f, script, total)
  BY <1>3 DEF SumsTo
<1>5. HandedEnd = Base + f[Len(handed)]
  <2>1. f[0] = 0
    BY <1>4 DEF Sums
  <2> QED BY <2>1, <1>2
<1>6. script \in Seq(CallType) /\ handed \in Seq(Nat \X Nat) /\ Len(handed) <= Len(script)
  <2>1. script \in Seq(CallType)
    BY <1>3 DEF SumsTo
  <2> QED BY <2>1, <1>1, <1>2
<1>7. HandedList
  <2>1. 1..Len(handed) = {}
    BY <1>2
  <2> QED BY <2>1, <1>2, <1>3, <1>4, <1>5, <1>6 DEF HandedList, HandedApart
<1>8. Linked
  <2>1. pfns \in Seq(Frames) /\ Len(pfns) = 0 /\ Range(pfns) = {} /\ IsInjective(pfns)
    BY <1>1 DEF Range, IsInjective
  <2>2. table = Backed(pfns)
    BY <2>1, <1>1 DEF Backed
  <2>3. Consistent
    BY <2>1, <2>2, <1>1, Sizes DEF Consistent
  <2>4. containers \in Seq(ContextType) /\ Len(containers) = 0 /\ pointer \in [PtrVars -> Nat]
    BY <1>1
  <2> QED BY <2>1, <2>3, <2>4, <1>1, <1>2, CeilOfBase DEF Linked
<1> QED BY <1>1, <1>7, <1>8 DEF HandedIInv, RangeSuffices

-----------------------------------------------------------------------------
(* The pages of what was handed out are backed, each by a frame of its own. *)
LEMMA HandsBacked == HandedIInv => HandedApart /\ HandedBacked /\ RangeSuffices
<1> SUFFICES ASSUME HandedIInv, status = "running" PROVE HandedBacked
  BY DEF HandedIInv, HandedList, HandedBacked
<1>1. HandedList /\ Linked
  BY DEF HandedIInv
<1>2. /\ pfns \in Seq(Frames) /\ IsInjective(pfns) /\ table = Backed(pfns)
      /\ Len(pfns) <= RegionPages /\ Len(pfns) = PageCeil(HandedEnd)
      /\ HandedEnd \in Nat /\ NoFrame \notin Frames
  BY <1>1, FramesAssumption DEF Linked, Consistent, HandedList
<1>3. ASSUME NEW k \in 1..Len(handed) PROVE Accessible(table, handed[k][1], handed[k][2])
  <2>1. /\ handed[k] \in Nat \X Nat /\ Base <= handed[k][1]
        /\ handed[k][1] + handed[k][2] <= HandedEnd
    BY <1>1, Member DEF HandedList
  <2>2. PICK a \in Nat : a = handed[k][1]
    BY <2>1
  <2>3. PICK n \in Nat : n = handed[k][2]
    BY <2>1
  <2>4. ASSUME NEW j \in 0..n - 1 PROVE PageAt(a + j) \in 0..Len(pfns) - 1
    <3>1. /\ a + j \in Int /\ HandedEnd \in Int /\ Base <= a + j /\ a + j < HandedEnd
      <4>1. HandedEnd \in Nat /\ Base \in Nat
        BY <1>2, Sizes
      <4>2. Base <= a /\ a + n <= HandedEnd
        BY ONLY <2>1, <2>2, <2>3
      <4> QED BY ONLY <4>1, <4>2, a \in Nat, n \in Nat, j \in 0..n - 1
    <3>2. /\ PageAt(a + j) \in Int /\ 0 <= PageAt(a + j) /\ PageAt(a + j) < PageCeil(HandedEnd)
      BY <3>1, PageOf, PageBefore
    <3> QED BY <3>2, <1>2
  <2>5. a \in Int /\ n \in Int
    BY <2>2, <2>3
  <2>6. Accessible(Backed(pfns), a, n)
    BY ONLY <2>4, <2>5, <1>2, BackedAccessible
  <2> QED BY <2>2, <2>3, <2>6, <1>2
<1>4. ASSUME NEW p \in Pages, NEW q \in Pages, table[p] = table[q], table[p] # NoFrame
      PROVE  p = q
  <2>1. p \in Nat /\ q \in Nat
    BY DEF Pages
  <2>2. p < Len(pfns) /\ q < Len(pfns) /\ table[p] = pfns[p + 1] /\ table[q] = pfns[q + 1]
    BY <2>1, <1>2, <1>4, BackedType
  <2>3. p + 1 \in 1..Len(pfns) /\ q + 1 \in 1..Len(pfns) /\ pfns[p + 1] = pfns[q + 1]
    BY <2>1, <2>2, <1>2, <1>4
  <2>4. p + 1 = q + 1
    BY <2>3, <1>2, Once
  <2> QED BY <2>1, <2>4
<1> QED BY <1>3, <1>4 DEF HandedBacked

-----------------------------------------------------------------------------
(* Where the rows are in a script: at its end, one after the other, all of *)
(* the same length, and nowhere else.                                      *)
RowPlaces(s, off, m, n) ==
  /\ off \in Nat /\ m \in 0..3 * heads /\ n \in Nat /\ s \in Seq(CallType) /\ Len(s) = off + m
  /\ \A k \in 1..off : \A i \in 1..3 * heads : s[k][1] # rowP[i]
  /\ \A i \in 1..m : s[off + i] = <<rowP[i], n>>

RowsLast(s) == \E off, m, n : RowPlaces(s, off, m, n)

Rowless(s) == s \in Seq(CallType) /\ \A k \in 1..Len(s) : \A i \in 1..3 * heads : s[k][1] # rowP[i]

LEMMA RowVariables ==
  /\ DOMAIN rowP = 1..3 * heads /\ \A i, j \in 1..3 * heads : rowP[i] = rowP[j] => i = j
  /\ \A i \in 1..3 * heads : /\ rowP[i] # headsP /\ rowP[i] # nodeP
                             /\ \A h \in 1..heads : rowP[i] # headP[h]
                             /\ \A m \in 1..3 : rowP[i] # arrayP[m]
<1>1. /\ rowP \in [1..3 * heads -> PtrVars] /\ headP \in [1..heads -> PtrVars]
      /\ arrayP \in [1..3 -> PtrVars]
  BY ScenarioAssumption
<1>2. DOMAIN rowP = 1..3 * heads /\ DOMAIN headP = 1..heads /\ DOMAIN arrayP = 1..3
  BY <1>1
<1>3. \A i, j \in 1..3 * heads : rowP[i] = rowP[j] => i = j
  BY <1>2, RowsAssumption DEF IsInjective
<1>4. \A i \in 1..3 * heads : rowP[i] \in Range(rowP)
  BY <1>2 DEF Range
<1>5. (\A h \in 1..heads : headP[h] \in Range(headP)) /\ (\A m \in 1..3 : arrayP[m] \in Range(arrayP))
  BY <1>2 DEF Range
<1> QED BY <1>2, <1>3, <1>4, <1>5, RowsAssumption

LEMMA RowlessJoined ==
  ASSUME NEW s, NEW t, Rowless(s), Rowless(t)
  PROVE  Rowless(s \o t)
<1>1. PICK m \in Nat, n \in Nat : m = Len(s) /\ n = Len(t) /\ s \in Seq(CallType) /\ t \in Seq(CallType)
  BY DEF Rowless
<1>2. /\ s \o t \in Seq(CallType) /\ Len(s \o t) = m + n
      /\ \A k \in 1..m + n : (s \o t)[k] = IF k <= m THEN s[k] ELSE t[k - m]
  BY <1>1, Joined
<1>3. ASSUME NEW k \in 1..m + n, NEW i \in 1..3 * heads PROVE (s \o t)[k][1] # rowP[i]
  <2>1. CASE k <= m
    BY <1>1, <1>2, <2>1 DEF Rowless
  <2>2. CASE ~(k <= m)
    <3>1. k - m \in 1..n
      BY <2>2
    <3> QED BY <1>1, <1>2, <2>2, <3>1 DEF Rowless
  <2> QED BY <2>1, <2>2
<1> QED BY <1>2, <1>3 DEF Rowless

LEMMA RowlessOne ==
  ASSUME NEW c \in CallType, \A i \in 1..3 * heads : c[1] # rowP[i]
  PROVE  Rowless(<<c>>)
<1>1. <<c>> \in Seq(CallType) /\ Len(<<c>>) = 1 /\ <<c>>[1] = c
  OBVIOUS
<1>2. \A k \in 1..Len(<<c>>) : k = 1
  BY <1>1
<1> QED BY <1>1, <1>2 DEF Rowless

LEMMA SingleRows == RowsLast(vcmalloc_single)
<1>1. PICK calls : /\ vcmalloc_single = calls[heads] /\ calls[0] = <<<<headsP, heads>>>>
                   /\ \A i \in 1..heads : calls[i] = calls[i - 1] \o ofHead(i)
  BY SingleCalls
<1>2. heads \in Nat /\ nodes \in Nat
  BY ScenarioAssumption
<1>3. Rowless(<<<<headsP, heads>>>>)
  <2>1. <<headsP, heads>> \in CallType
    BY ScenarioAssumption DEF CallType
  <2>2. \A i \in 1..3 * heads : <<headsP, heads>>[1] # rowP[i]
    BY RowVariables
  <2> QED BY <2>1, <2>2, RowlessOne
<1>4. ASSUME NEW h \in 1..heads PROVE Rowless(ofHead(h))
  <2>1. PICK s : s = [j \in 1..nodes |-> <<nodeP, 1>>]
    OBVIOUS
  <2>2. <<nodeP, 1>> \in CallType /\ <<headP[h], 1>> \in CallType
    BY ScenarioAssumption DEF CallType
  <2>3. s \in Seq(CallType) /\ Len(s) = nodes /\ \A k \in 1..nodes : s[k] = <<nodeP, 1>>
    <3>1. s \in [1..nodes -> CallType] /\ \A k \in 1..nodes : s[k] = <<nodeP, 1>>
      BY <2>1, <2>2
    <3> QED BY <3>1, <1>2
  <2>4. Rowless(s)
    BY <2>3, RowVariables DEF Rowless
  <2>5. Rowless(<<<<headP[h], 1>>>>)
    <3>1. \A i \in 1..3 * heads : <<headP[h], 1>>[1] # rowP[i]
      BY RowVariables
    <3> QED BY <2>2, <3>1, RowlessOne
  <2> QED BY <2>1, <2>4, <2>5, RowlessJoined DEF ofHead
<1> DEFINE Good == {k \in Nat : k <= heads => Rowless(calls[k])}
<1>5. 0 \in Good
  BY <1>1, <1>3
<1>6. ASSUME NEW k \in Nat, k \in Good PROVE k + 1 \in Good
  <2>1. SUFFICES ASSUME k + 1 <= heads PROVE Rowless(calls[k + 1])
    OBVIOUS
  <2>2. k + 1 \in 1..heads /\ k <= heads /\ (k + 1) - 1 = k
    BY <1>2, <2>1
  <2>3. calls[k + 1] = calls[k] \o ofHead(k + 1)
    BY <1>1, <2>2
  <2>4. Rowless(calls[k]) /\ Rowless(ofHead(k + 1))
    BY <1>4, <1>6, <2>2
  <2> QED BY <2>3, <2>4, RowlessJoined
<1>7. Nat \subseteq Good
  <2> HIDE DEF Good
  <2> QED BY <1>5, <1>6, InductionBySet
<1>8. Rowless(vcmalloc_single)
  BY <1>1, <1>2, <1>7
<1>9. PICK off \in Nat : off = Len(vcmalloc_single)
  BY <1>8 DEF Rowless
<1>10. RowPlaces(vcmalloc_single, off, 0, 0)
  BY <1>2, <1>8, <1>9 DEF RowPlaces, Rowless
<1> QED BY <1>10 DEF RowsLast

(* Rows behind calls for other pointers. *)
LEMMA RowsBehind ==
  ASSUME NEW s, Rowless(s), NEW m \in 0..3 * heads, NEW n \in Nat
  PROVE  RowsLast(s \o [i \in 1..m |-> <<rowP[i], n>>])
<1>1. PICK t : t = [i \in 1..m |-> <<rowP[i], n>>]
  OBVIOUS
<1>2. PICK off \in Nat : off = Len(s) /\ s \in Seq(CallType)
  BY DEF Rowless
<1>3. t \in Seq(CallType) /\ Len(t) = m /\ \A i \in 1..m : t[i] = <<rowP[i], n>>
  <2>1. \A i \in 1..m : i \in 1..3 * heads /\ rowP[i] \in PtrVars
    BY ScenarioAssumption
  <2>2. t \in [1..m -> CallType] /\ \A i \in 1..m : t[i] = <<rowP[i], n>>
    BY <1>1, <2>1 DEF CallType
  <2>3. m \in Nat
    OBVIOUS
  <2> QED BY <2>2, <2>3
<1>4. /\ s \o t \in Seq(CallType) /\ Len(s \o t) = off + m
      /\ \A k \in 1..off + m : (s \o t)[k] = IF k <= off THEN s[k] ELSE t[k - off]
  BY <1>2, <1>3, Joined
<1>5. \A k \in 1..off : \A i \in 1..3 * heads : (s \o t)[k][1] # rowP[i]
  BY <1>2, <1>4 DEF Rowless
<1>6. ASSUME NEW i \in 1..m PROVE (s \o t)[off + i] = <<rowP[i], n>>
  <2>1. off + i \in 1..off + m /\ ~(off + i <= off) /\ (off + i) - off = i
    OBVIOUS
  <2> QED BY <1>3, <1>4, <2>1
<1>7. RowPlaces(s \o t, off, m, n)
  BY <1>4, <1>5, <1>6 DEF RowPlaces
<1> QED BY <1>1, <1>7 DEF RowsLast

LEMMA ScriptRows ==
  ASSUME NEW s \in Scripts
  PROVE  RowsLast(s)
<1>1. heads \in Nat /\ nodes \div 2 \in Nat /\ heads \in 0..3 * heads /\ 3 * heads \in 0..3 * heads
  BY ScenarioAssumption
<1>2. \A m \in 1..3 : <<arrayP[m], heads>> \in CallType /\ \A i \in 1..3 * heads : arrayP[m] # rowP[i]
  BY ScenarioAssumption, RowVariables DEF CallType
<1>3. RowsLast(vcmalloc_2d_matrix_affine_array)
  <2>1. Rowless(<<<<arrayP[1], heads>>>>)
    <3>1. <<arrayP[1], heads>> \in CallType /\ \A i \in 1..3 * heads : <<arrayP[1], heads>>[1] # rowP[i]
      BY <1>2
    <3> QED BY <3>1, RowlessOne
  <2> QED BY <1>1, <2>1, RowsBehind DEF vcmalloc_2d_matrix_affine_array
<1>4. RowsLast(vcmalloc_matmult(heads))
  <2>1. PICK t : t = [m \in 1..3 |-> <<arrayP[m], heads>>]
    OBVIOUS
  <2>2. t \in Seq(CallType) /\ Len(t) = 3 /\ \A m \in 1..3 : t[m] = <<arrayP[m], heads>>
    <3>1. PICK q \in Nat : q = 3
      OBVIOUS
    <3>2. t \in [1..q -> CallType] /\ \A m \in 1..q : t[m] = <<arrayP[m], heads>>
      BY <1>2, <2>1, <3>1
    <3>3. t \in Seq(CallType) /\ Len(t) = q
      BY ONLY q \in Nat, <3>2
    <3> QED BY <3>1, <3>2, <3>3
  <2>3. Rowless(t)
    BY <1>2, <2>2 DEF Rowless
  <2> QED BY <1>1, <2>1, <2>3, RowsBehind DEF vcmalloc_matmult
<1> QED BY <1>3, <1>4, SingleRows DEF Scripts

-----------------------------------------------------------------------------
(* What was handed out is what was called for.                             *)
Called ==
  /\ script \in Scripts
  /\ \A k \in 1..Len(handed) : handed[k][2] = CallBytes(script[k])

LEMMA CalledInit == ScenarioInit => Called
<1> SUFFICES ASSUME ScenarioInit PROVE Called
  OBVIOUS
<1>1. script \in Scripts /\ handed = <<>>
  BY DEF ScenarioInit
<1>2. 1..Len(handed) = {}
  BY <1>1
<1> QED BY <1>1, <1>2 DEF Called

LEMMA CalledStep ==
  ASSUME HandedList, Called, [ScenarioNext]_scenarioVars
  PROVE  Called'
<1>1. CASE UNCHANGED <<script, handed>>
  BY <1>1 DEF Called
<1>2. CASE Call
  <2>1. PICK h \in Nat : h = Len(handed) /\ handed \in Seq(Nat \X Nat)
    BY DEF HandedList
  <2>2. PICK call : /\ call = script[Len(handed) + 1]
                    /\ handed' = IF status' # "running" THEN handed
                                 ELSE Append(handed, <<pointer'[call[1]], TypeSize[call[1]] * call[2]>>)
    BY <1>2, Zenon DEF Call
  <2>3. script' = script
    BY <1>2 DEF Call
  <2>4. PICK r : r = <<pointer'[call[1]], TypeSize[call[1]] * call[2]>>
    OBVIOUS
  <2>5. CASE handed' = Append(handed, r)
    <3>1. PICK T : handed \in Seq(T) /\ r \in T
      <4>1. handed \in Seq(Nat \X Nat \cup {r})
        BY <2>1
      <4> QED BY <4>1
    <3>2. Len(handed') = h + 1 /\ handed'[h + 1] = r /\ \A k \in 1..h : handed'[k] = handed[k]
      BY <2>1, <2>5, <3>1, Appended
    <3>3. ASSUME NEW k \in 1..h + 1 PROVE handed'[k][2] = CallBytes(script[k])
      <4>1. CASE k = h + 1
        BY <4>1, <2>1, <2>2, <2>4, <3>2 DEF CallBytes
      <4>2. CASE k # h + 1
        <5>1. k \in 1..h
          BY <4>2
        <5> QED BY <5>1, <2>1, <3>2 DEF Called
      <4> QED BY <4>1, <4>2
    <3> QED BY <2>3, <3>2, <3>3 DEF Called, CallBytes
  <2> QED BY <1>1, <2>2, <2>3, <2>4, <2>5
<1> QED BY <1>1, <1>2 DEF ScenarioNext, MakeRoom, Free, Over, scenarioVars

(* Rows follow each other without a hole, so their distance is a number of *)
(* rows.                                                                   *)
LEMMA RowsApart ==
  ASSUME HandedList, Called
  PROVE  RowsAffine
<1>1. PICK off, m, n : RowPlaces(script, off, m, n)
  BY ScriptRows DEF Called, RowsLast
<1>2. /\ off \in Nat /\ m \in 0..3 * heads /\ n \in Nat /\ Len(script) = off + m
      /\ \A k \in 1..off : \A i \in 1..3 * heads : script[k][1] # rowP[i]
      /\ \A i \in 1..m : script[off + i] = <<rowP[i], n>>
  BY <1>1 DEF RowPlaces
<1>3. heads \in Nat \ {0} /\ m \in Nat
  BY <1>2, ScenarioAssumption
<1>4. PICK b \in Nat : \A i \in 1..3 * heads : TypeSize[rowP[i]] * n = b
  <2>1. 1 \in 1..3 * heads
    BY <1>3
  <2>2. rowP[1] \in PtrVars /\ \A i \in 1..3 * heads : TypeSize[rowP[i]] = TypeSize[rowP[1]]
    BY <2>1, ScenarioAssumption
  <2>3. <<rowP[1], n>> \in CallType
    BY <1>2, <2>2 DEF CallType
  <2>4. TypeSize[rowP[1]] * n \in Nat
    BY <2>3, BytesOfCall DEF CallBytes
  <2> QED BY <2>2, <2>4
<1>5. PICK h \in Nat : h = Len(handed) /\ h <= off + m
  BY <1>2 DEF HandedList
<1>6. \A k \in 1..h : handed[k][1] \in Nat
  BY <1>5 DEF HandedList
<1>7. ASSUME NEW i \in 1..m, off + i <= h PROVE handed[off + i][2] = b /\ handed[off + i][1] \in Nat
  <2>1. off + i \in 1..h /\ i \in 1..3 * heads
    BY <1>2, <1>3, <1>7
  <2>2. script[off + i] = <<rowP[i], n>> /\ handed[off + i][2] = CallBytes(script[off + i])
    BY <1>2, <1>5, <2>1 DEF Called
  <2> QED BY <1>4, <1>6, <2>1, <2>2 DEF CallBytes
<1> DEFINE At2(i) == handed[off + i][1]
           Far(i, d) == At2(i + d) = At2(i) + d * b
           Good == {d \in Nat : \A i \in 1..m : i + d <= m /\ off + (i + d) <= h => Far(i, d)}
<1>8. 0 \in Good
  <2>1. ASSUME NEW i \in 1..m, i + 0 <= m, off + (i + 0) <= h PROVE Far(i, 0)
    <3>1. i + 0 = i /\ 0 * b = 0 /\ off + i <= h
      BY <2>1, <1>2
    <3>2. At2(i) \in Nat
      BY <1>7, <3>1
    <3>3. At2(i) + 0 = At2(i)
      <4> HIDE DEF At2
      <4> QED BY <3>2
    <3> HIDE DEF At2
    <3> QED BY <3>1, <3>3
  <2> QED BY <2>1
<1>9. ASSUME NEW d \in Nat, d \in Good PROVE d + 1 \in Good
  <2>1. ASSUME NEW i \in 1..m, i + (d + 1) <= m, off + (i + (d + 1)) <= h PROVE Far(i, d + 1)
    <3>1. PICK j \in 1..m : j = i + d
      BY <1>3, <2>1
    <3>2. /\ i + d <= m /\ off + (i + d) <= h /\ off + j <= h /\ off + i <= h
          /\ i + (d + 1) = j + 1 /\ off + (j + 1) \in 1..h /\ off + (j + 1) # 1
          /\ (off + (j + 1)) - 1 = off + j
      BY <1>2, <1>3, <1>5, <2>1, <3>1
    <3>3. At2(i + d) = At2(i) + d * b
      BY <1>9, <3>2
    <3>4. handed[off + (j + 1)][1] = handed[off + j][1] + handed[off + j][2]
      <4>1. HandedApart
        BY DEF HandedList
      <4> QED BY <4>1, <1>5, <3>2 DEF HandedApart
    <3>5. At2(j + 1) = At2(j) + b
      BY <1>7, <3>2, <3>4
    <3>6. At2(i) \in Nat
      BY <1>7, <3>2
    <3> HIDE DEF At2
    <3>7. PICK a \in Nat : a = At2(i)
      BY <3>6
    <3>8. (a + d * b) + b = a + (d + 1) * b
      OBVIOUS
    <3>9. At2(i + (d + 1)) = (At2(i) + d * b) + b
      BY <3>1, <3>2, <3>3, <3>5
    <3> QED BY <3>7, <3>8, <3>9
  <2> QED BY <2>1
<1>10. Nat \subseteq Good
  <2> HIDE DEF Good
  <2> QED BY <1>8, <1>9, InductionBySet
<1>11. ASSUME NEW i \in 1..m, NEW j \in 1..m, off + i <= h, off + j <= h, i <= j
       PROVE  At2(j) = At2(i) + (j - i) * b /\ At2(i) = At2(j) + (i - j) * b
  <2>1. PICK d \in Nat : d = j - i /\ i + d = j /\ i - j = 0 - d
    <3>1. j - i \in Nat /\ i + (j - i) = j /\ i - j = 0 - (j - i)
      BY <1>3, <1>11
    <3> QED BY <3>1
  <2>2. At2(i + d) = At2(i) + d * b
    <3>1. d \in Good
      <4> HIDE DEF Good
      <4> QED BY <1>10
    <3>2. i + d <= m /\ off + (i + d) <= h
      BY <1>3, <1>11, <2>1
    <3>3. i \in 1..m
      OBVIOUS
    <3>4. \A i_ \in 1..m : i_ + d <= m /\ off + (i_ + d) <= h => Far(i_, d)
      <4> HIDE DEF Far
      <4> QED BY ONLY <3>1, Zenon DEF Good
    <3> QED BY ONLY <3>2, <3>3, <3>4, Zenon
  <2>3. PICK a \in Nat : a = At2(i)
    BY <1>7, <1>11
  <2> HIDE DEF At2
  <2>4. a = (a + d * b) + (0 - d) * b
    OBVIOUS
  <2>5. At2(j) = a + d * b
    BY <2>1, <2>2, <2>3
  <2> QED BY <2>1, <2>3, <2>4, <2>5
<1>12. ASSUME NEW k \in 1..h, NEW i \in 1..3 * heads, script[k][1] = rowP[i]
       PROVE  i \in 1..m /\ k = off + i /\ off + i <= h
  <2>1. k \notin 1..off
    BY <1>2, <1>12
  <2>2. PICK e \in 1..m : k = off + e
    <3>1. k - off \in 1..m /\ k = off + (k - off)
      BY <1>2, <1>3, <1>5, <2>1
    <3> QED BY <3>1
  <2>3. e \in 1..3 * heads /\ script[k] = <<rowP[e], n>>
    BY <1>2, <1>3, <2>2
  <2>4. e = i
    BY <1>12, <2>3, RowVariables
  <2> QED BY <2>2, <2>4
<1>13. ASSUME NEW k \in 1..h, NEW l \in 1..h, NEW i \in 1..3 * heads, NEW j \in 1..3 * heads,
              script[k][1] = rowP[i], script[l][1] = rowP[j]
       PROVE  handed[l][1] = handed[k][1] + (j - i) * handed[k][2]
  <2>1. i \in 1..m /\ k = off + i /\ off + i <= h /\ j \in 1..m /\ l = off + j /\ off + j <= h
    BY <1>12, <1>13
  <2>2. handed[k][2] = b
    BY <1>7, <2>1
  <2>3. i <= j \/ j <= i
    BY <1>3, <2>1
  <2>4. At2(j) = At2(i) + (j - i) * b
    <3> HIDE DEF At2
    <3> QED BY <1>11, <2>1, <2>3
  <2> QED BY <2>1, <2>2, <2>4
<1>14. DOMAIN rowP = 1..3 * heads
  BY RowVariables
<1> HIDE DEF At2, Good
<1> SUFFICES ASSUME NEW k \in 1..Len(handed), NEW l \in 1..Len(handed),
                    NEW i \in DOMAIN rowP, NEW j \in DOMAIN rowP,
                    script[k][1] = rowP[i], script[l][1] = rowP[j]
             PROVE  handed[l][1] = handed[k][1] + (j - i) * handed[k][2]
  BY DEF RowsAffine
<1>15. k \in 1..h /\ l \in 1..h /\ i \in 1..3 * heads /\ j \in 1..3 * heads
  BY ONLY <1>5, <1>14, k \in 1..Len(handed), l \in 1..Len(handed), i \in DOMAIN rowP, j \in DOMAIN rowP, Zenon
<1>16. script[k][1] = rowP[i] /\ script[l][1] = rowP[j]
  OBVIOUS
<1> QED BY ONLY <1>13, <1>15, <1>16, Zenon

-----------------------------------------------------------------------------
(* The inductive invariant of the result files.  GoodAt(f, d, k): d has    *)
(* under k what the last run that wrote k to f measured.  It fails only    *)
(* of the file that is being written, between its truncation and its end,  *)
(* and what will be written to that one is at hand.                        *)
GoodAt(f, d, k) ==
  IF last[f][k] = 0 THEN k \notin DOMAIN d
  ELSE IF k \in DOMAIN d THEN d[k] = last[f][k] ELSE FALSE

ResultType ==
  /\ pc \in {"idle", "read", "merge", "write", "close"}
  /\ key \in Keys /\ run \in Nat
  /\ disk \in [Files -> {disk[f] : f \in Files}]
  /\ last \in [Files -> [Keys -> Nat]]
  /\ todo \in Seq(Files) /\ (pc # "idle" => todo # <<>> /\ run # 0)

ResultIInv ==
  /\ ResultType
  /\ \A f \in Files, k \in Keys :
       pc # "close" \/ f # todo[1] => GoodAt(f, disk[f], k)
  /\ pc = "merge" => rslt = disk[todo[1]]
  /\ pc \in {"write", "close"} =>
       /\ key \in DOMAIN rslt /\ rslt[key] = run
       /\ \A k \in Keys \ {key} : GoodAt(todo[1], rslt, k)

LEMMA ResultInit == Results!Init => ResultIInv
<1> SUFFICES ASSUME Results!Init PROVE ResultIInv
  OBVIOUS
<1>1. /\ disk = [f \in Files |-> <<>>] /\ pc = "idle" /\ key \in Keys /\ todo = <<>>
      /\ run = 0 /\ last = [f \in Files |-> [k \in Keys |-> 0]]
  BY DEF Results!Init, Results!Nothing
<1>2. ASSUME NEW f \in Files, NEW k \in Keys PROVE GoodAt(f, disk[f], k)
  <2>1. last[f][k] = 0 /\ disk[f] = <<>>
    BY <1>1
  <2>2. DOMAIN (<<>>) = {}
    OBVIOUS
  <2> QED BY <2>1, <2>2 DEF GoodAt
<1>3. ResultType
  <2>1. disk \in [Files -> {disk[f] : f \in Files}]
    BY <1>1
  <2>2. last \in [Files -> [Keys -> Nat]]
    BY <1>1
  <2> QED BY <2>1, <2>2, <1>1 DEF ResultType
<1> QED BY <1>1, <1>2, <1>3 DEF ResultIInv

LEMMA ResultStep ==
  ASSUME ResultIInv, Results!Starts \/ Results!Steps
  PROVE  ResultIInv'
<1>0. /\ key \in Keys /\ run \in Nat
      /\ disk \in [Files -> {disk[f] : f \in Files}]
      /\ last \in [Files -> [Keys -> Nat]]
      /\ todo \in Seq(Files) /\ (pc # "idle" => todo # <<>> /\ run # 0)
      /\ \A f \in Files, k \in Keys :
           pc # "close" \/ f # todo[1] => GoodAt(f, disk[f], k)
      /\ pc = "merge" => rslt = disk[todo[1]]
      /\ pc \in {"write", "close"} =>
           /\ key \in DOMAIN rslt /\ rslt[key] = run
           /\ \A k \in Keys \ {key} : GoodAt(todo[1], rslt, k)
  BY DEF ResultIInv, ResultType
<1>1. ASSUME NEW k \in Keys, NEW f \in Files, Results!main(k, f) PROVE ResultIInv'
  <2>1. /\ pc = "idle" /\ run' = run + 1 /\ key' = k /\ pc' = "read"
        /\ todo' = IF f = Default THEN <<Default>> ELSE <<Default, f>>
        /\ disk' = disk /\ last' = last /\ rslt' = rslt
    BY <1>1 DEF Results!main
  <2>2. todo' \in Seq(Files) /\ todo' # <<>>
    <3>1. Default \in Files
      BY BenchmarkAssumption
    <3>2. CASE f = Default
      BY <3>1, <3>2, <2>1
    <3>3. CASE f # Default
      BY <3>1, <3>3, <2>1
    <3> QED BY <3>2, <3>3
  <2>3. run' \in Nat /\ run' # 0
    BY <1>0, <2>1
  <2>4. ResultType'
    BY <1>0, <2>1, <2>2, <2>3 DEF ResultType
  <2>5. \A g \in Files, j \in Keys : GoodAt(g, disk[g], j)'
    BY <1>0, <2>1 DEF GoodAt
  <2> QED BY <2>1, <2>4, <2>5 DEF ResultIInv
<1>2. CASE Results!Read
  <2>1. /\ pc = "read" /\ rslt' = disk[todo[1]] /\ pc' = "merge"
        /\ disk' = disk /\ key' = key /\ todo' = todo /\ run' = run /\ last' = last
    BY <1>2 DEF Results!Read
  <2>2. ResultType'
    BY <1>0, <2>1 DEF ResultType
  <2>3. \A g \in Files, j \in Keys : GoodAt(g, disk[g], j)'
    BY <1>0, <2>1 DEF GoodAt
  <2> QED BY <2>1, <2>2, <2>3 DEF ResultIInv
<1>3. CASE Results!Merge
  <2>1. /\ pc = "merge" /\ pc' = "write"
        /\ rslt' = [k \in DOMAIN rslt \cup {key} |-> IF k = key THEN run ELSE rslt[k]]
        /\ disk' = disk /\ key' = key /\ todo' = todo /\ run' = run /\ last' = last
    BY <1>3 DEF Results!Merge
  <2>2. ResultType'
    BY <1>0, <2>1 DEF ResultType
  <2>3. \A g \in Files, j \in Keys : GoodAt(g, disk[g], j)'
    BY <1>0, <2>1 DEF GoodAt
  <2>4. key' \in DOMAIN rslt' /\ rslt'[key'] = run'
    BY <2>1
  <2>5. todo[1] \in Files
    BY <1>0, <2>1
  <2>6. ASSUME NEW j \in Keys \ {key} PROVE GoodAt(todo[1], rslt, j)'
    <3>1. GoodAt(todo[1], rslt, j)
      BY <1>0, <2>1, <2>5
    <3>2. /\ j \in DOMAIN rslt' <=> j \in DOMAIN rslt
          /\ j \in DOMAIN rslt => rslt'[j] = rslt[j]
      BY <2>1
    <3> QED BY <3>1, <3>2, <2>1 DEF GoodAt
  <2> QED BY <2>1, <2>2, <2>3, <2>4, <2>6 DEF ResultIInv
<1>4. CASE Results!Truncate
  <2>1. /\ pc = "write" /\ pc' = "close" /\ disk' = [disk EXCEPT ![todo[1]] = <<>>]
        /\ key' = key /\ todo' = todo /\ rslt' = rslt /\ run' = run /\ last' = last
    BY <1>4 DEF Results!Truncate, Results!Nothing
  <2>2. ResultType'
    <3>1. disk' \in [Files -> {disk'[f] : f \in Files}]
      BY <1>0, <2>1
    <3> QED BY <3>1, <1>0, <2>1 DEF ResultType
  <2>3. ASSUME NEW g \in Files, NEW j \in Keys, g # todo[1] PROVE GoodAt(g, disk[g], j)'
    <3>1. disk'[g] = disk[g] /\ GoodAt(g, disk[g], j)
      BY <2>3, <1>0, <2>1
    <3> QED BY <3>1, <2>1 DEF GoodAt
  <2>4. /\ key' \in DOMAIN rslt' /\ rslt'[key'] = run'
        /\ \A j \in Keys \ {key} : GoodAt(todo[1], rslt, j)'
    BY <1>0, <2>1 DEF GoodAt
  <2> QED BY <2>1, <2>2, <2>3, <2>4 DEF ResultIInv
<1>5. CASE Results!Write
  <2>1. /\ pc = "close" /\ disk' = [disk EXCEPT ![todo[1]] = rslt]
        /\ last' = [last EXCEPT ![todo[1]][key] = run]
        /\ todo' = Tail(todo)
        /\ pc' = IF Tail(todo) = <<>> THEN "idle" ELSE "read"
        /\ key' = key /\ rslt' = rslt /\ run' = run
    BY <1>5 DEF Results!Write
  <2>2. PICK file \in Files : file = todo[1]
    <3>1. todo \in Seq(Files) /\ todo # <<>>
      BY <1>0, <2>1
    <3>2. todo[1] \in Files
      BY ONLY <3>1
    <3> QED BY <3>2, Zenon
  <2>3. /\ last' \in [Files -> [Keys -> Nat]]
        /\ last'[file][key] = run
        /\ \A k \in Keys \ {key} : last'[file][k] = last[file][k]
        /\ \A g \in Files \ {file} : last'[g] = last[g]
    BY <1>0, <2>1, <2>2
  <2>4. /\ disk' \in [Files -> {disk'[f] : f \in Files}]
        /\ disk'[file] = rslt /\ \A g \in Files \ {file} : disk'[g] = disk[g]
    BY <1>0, <2>1, <2>2
  <2>5. ResultType'
    <3>1. Tail(todo) \in Seq(Files)
      BY <1>0, <2>1
    <3> QED BY <3>1, <1>0, <2>1, <2>3, <2>4 DEF ResultType
  <2>6. ASSUME NEW g \in Files, NEW j \in Keys PROVE GoodAt(g, disk[g], j)'
    <3>1. CASE g # file
      <4>1. disk'[g] = disk[g] /\ last'[g] = last[g] /\ GoodAt(g, disk[g], j)
        BY <3>1, <1>0, <2>2, <2>3, <2>4
      <4> QED BY <4>1 DEF GoodAt
    <3>2. CASE g = file /\ j = key
      <4>1. disk'[g] = rslt /\ last'[g][j] = run /\ run # 0 /\ j \in DOMAIN rslt /\ rslt[j] = run
        BY <3>2, <1>0, <2>1, <2>3, <2>4
      <4> QED BY <4>1 DEF GoodAt
    <3>3. CASE g = file /\ j # key
      <4>1. disk'[g] = rslt /\ last'[g][j] = last[g][j] /\ GoodAt(g, rslt, j)
        BY <3>3, <1>0, <2>1, <2>2, <2>3, <2>4
      <4> QED BY <4>1 DEF GoodAt
    <3> QED BY <3>1, <3>2, <3>3
  <2>7. pc' = "idle" \/ pc' = "read"
    BY <2>1
  <2> QED BY <2>5, <2>6, <2>7 DEF ResultIInv
<1> QED BY <1>1, <1>2, <1>3, <1>4, <1>5 DEF Results!Starts, Results!Steps

-----------------------------------------------------------------------------
(* Each part of the benchmark leaves the variables of the other alone.     *)
BenchmarkIInv ==
  /\ part = "scenario" => HandedIInv /\ Called
  /\ part = "results" => ResultIInv

LEMMA BenchmarkInitial == BenchmarkInit => BenchmarkIInv
BY HandsInit, CalledInit, ResultInit DEF BenchmarkInit, BenchmarkIInv

LEMMA ResultSame ==
  ASSUME ResultIInv, UNCHANGED results
  PROVE  ResultIInv'
BY DEF ResultIInv, ResultType, GoodAt, results

LEMMA BenchmarkStep == BenchmarkIInv /\ [BenchmarkNext]_benchmarkVars => BenchmarkIInv'
<1> SUFFICES ASSUME BenchmarkIInv, [BenchmarkNext]_benchmarkVars PROVE BenchmarkIInv'
  OBVIOUS
<1>1. part' = part
  BY DEF BenchmarkNext, benchmarkVars
<1>2. ASSUME part = "scenario" PROVE HandedIInv' /\ Called'
  <2>1. [ScenarioNext]_scenarioVars
    BY <1>2 DEF BenchmarkNext, benchmarkVars
  <2>2. HandedIInv /\ HandedList /\ Called
    BY <1>2 DEF BenchmarkIInv, HandedIInv
  <2> QED BY <2>1, <2>2, HandsStep, CalledStep
<1>3. ASSUME part = "results" PROVE ResultIInv'
  <2>1. Results!Starts \/ Results!Steps \/ UNCHANGED results
    BY <1>3 DEF BenchmarkNext, benchmarkVars, Results!Over, Results!vars, results
  <2> QED BY <1>3, <2>1, ResultStep, ResultSame DEF BenchmarkIInv
<1> QED BY <1>1, <1>2, <1>3 DEF BenchmarkIInv

LEMMA BenchmarkIInvHolds == BenchmarkSpec => []BenchmarkIInv
BY BenchmarkInitial, BenchmarkStep, PTL DEF BenchmarkSpec

(* Whatever the numbers and sizes of a scenario's structures, and however  *)
(* many of its nodes share a variable, what vcmalloc hands out lies side   *)
(* by side, each byte in a page with a frame of its own, and the range it  *)
(* reserved (vcmalloc_bench.cpp:309) is never too small.                   *)
THEOREM HandedAlwaysApart == BenchmarkSpec => []HandedOut
<1>1. BenchmarkIInv => HandedOut
  BY HandsBacked DEF BenchmarkIInv, HandedOut
<1> QED BY <1>1, BenchmarkIInvHolds, PTL

(* The index arithmetic of the affine scenarios and of the multiplications *)
(* (vcmalloc_bench.cpp:1536-1543) reaches every row from any other, for    *)
(* matrices of any size.                                                   *)
THEOREM RowsAlwaysInPlace == BenchmarkSpec => []RowsInPlace
<1>1. BenchmarkIInv => RowsInPlace
  BY RowsApart DEF BenchmarkIInv, HandedIInv, RowsInPlace
<1> QED BY <1>1, BenchmarkIInvHolds, PTL

(* Between two runs every result file has the measurements of the last run *)
(* that wrote each key there (to_json), for any runs and any files.        *)
THEOREM NewDataAlwaysAdded == BenchmarkSpec => []NewDataAdded
<1>1. BenchmarkIInv => NewDataAdded
  BY DEF BenchmarkIInv, ResultIInv, GoodAt, NewDataAdded, Results!NewDataAdded
<1> QED BY <1>1, BenchmarkIInvHolds, PTL
=============================================================================
