---------------------------- MODULE ListsProofs ----------------------------
(***************************************************************************)
(* The structures linked one way: unorderedLinkedList, the stack derived   *)
(* from it, linkedStackType, orderedLinkedList and linkedQueueType, for    *)
(* every set of addresses and elements.  The nodes are in chains, one for  *)
(* each object (Heap of ChainsProofs); each method takes the chains to     *)
(* those its comment promises, and so is a step of the abstract sequences. *)
(* The first section is shared by all structures.                          *)
(***************************************************************************)
EXTENDS Structures, ChainsProofs

-----------------------------------------------------------------------------
(* The list of unorderedLinkedList.h: two objects over one heap of nodes.  *)
(* Chained says that the links of a structure form the chains cs, Changed  *)
(* that a call replaced the chain of l by t, whose elements are v.         *)
U == "unorderedLinkedList"

Answered == reply[3] \in {"done", "value", "found", "missing", "refused", "aborted"}

Chained(k, cs) == Heap(Addresses[k], Elements[k], Objects, info, link, cs)

Changed(k, cs, l, t, v) == Becomes(Addresses[k], Elements[k], Objects, info, cs, l, t, v, info', link')

ListInv(cs) ==
  /\ Chained(U, cs)
  /\ head = Firsts(Objects, cs) /\ tail = Lasts(Objects, cs) /\ size = Lengths(Objects, cs)
  /\ Answered

LEMMA RoomFor ==
  ASSUME NEW k, k \in LinkedKinds
  PROVE  Room(Addresses[k]) /\ Elements[k] \subseteq Nat
BY StructuresAssumption DEF Room

LEMMA ListNodes ==
  ASSUME NEW cs, ListInv(cs), NEW l, l \in Objects
  PROVE  /\ List!nodes(l) = cs[l] /\ head[l] = At(cs[l], 1) /\ tail[l] = At(cs[l], Len(cs[l]))
         /\ size[l] = Len(cs[l]) /\ List!Proper(link, head[l])
<1>1. Room(Addresses[U])
  BY RoomFor DEF LinkedKinds, U
<1>2. N!Chain(link, At(cs[l], 1)) = cs[l] /\ N!Proper(link, At(cs[l], 1))
  BY <1>1, HeapFacts DEF ListInv, Chained
<1>3. head[l] = At(cs[l], 1) /\ tail[l] = At(cs[l], Len(cs[l])) /\ size[l] = Len(cs[l])
  BY DEF ListInv, Firsts, Lasts, Lengths
<1>4. List!Chain(link, head[l]) = N!Chain(link, head[l])
  BY Zenon DEF List!Chain, N!Chain, List!Cardinality, N!Cardinality
<1>5. List!Proper(link, head[l]) <=> N!Proper(link, head[l])
  BY ONLY <1>4, Zenon DEF List!Proper, N!Proper, List!IsInjective, N!IsInjective, List!Last, N!Last, List!null, N!null
<1> QED BY <1>2, <1>3, <1>4, <1>5 DEF List!nodes

LEMMA ListContents ==
  ASSUME kind = U, NEW cs, ListInv(cs)
  PROVE  contents = Items(Objects, info, cs)
<1>1. \A l \in Objects : List!Values(info, List!nodes(l)) = N!Values(info, cs[l])
  BY ListNodes DEF List!Values, N!Values
<1> QED BY <1>1 DEF contents, Items, U

(* The same of the next state. *)
LEMMA ListNodesNext ==
  ASSUME NEW cs, ListInv(cs)', NEW l, l \in Objects
  PROVE  List!nodes(l)' = cs[l]
<1>1. Room(Addresses[U])
  BY RoomFor DEF LinkedKinds, U
<1>2. N!Chain(link', At(cs[l], 1)) = cs[l]
  BY <1>1, HeapFacts DEF ListInv, Chained
<1>3. head'[l] = At(cs[l], 1)
  BY DEF ListInv, Firsts
<1>4. List!nodes(l)' = N!Chain(link', head'[l])
  BY Zenon DEF List!nodes, List!Chain, N!Chain, List!Cardinality, N!Cardinality
<1> QED BY <1>2, <1>3, <1>4

LEMMA ListContentsNext ==
  ASSUME kind' = U, NEW cs, ListInv(cs)'
  PROVE  contents' = Items(Objects, info', cs)
<1>1. \A l \in Objects : List!Values(info', List!nodes(l)') = N!Values(info', cs[l])
  BY ListNodesNext DEF List!Values, N!Values
<1> QED BY <1>1 DEF contents, Items, U

LEMMA ListSet ==
  ASSUME kind = U, kind' = U, NEW cs, ListInv(cs), NEW l, l \in Objects, NEW t, NEW v,
         Changed(U, cs, l, t, v), Answered',
         head' = [head EXCEPT ![l] = At(t, 1)], tail' = [tail EXCEPT ![l] = At(t, Len(t))],
         size' = [size EXCEPT ![l] = Len(t)]
  PROVE  /\ ListInv([cs EXCEPT ![l] = t])'
         /\ contents[l] = N!Values(info, cs[l]) /\ Sequence!Becomes(l, v)
<1>1. PICK ds : ds = [cs EXCEPT ![l] = t]
  OBVIOUS
<1>2. Heap(Addresses[U], Elements[U], Objects, info', link', ds)
  BY <1>1 DEF Changed, Becomes
<1>3. head' = Firsts(Objects, ds) /\ tail' = Lasts(Objects, ds) /\ size' = Lengths(Objects, ds)
  <2>1. cs \in [Objects -> Seq(Addresses[U])]
    BY DEF ListInv, Chained, Heap
  <2>2. SetTo(Objects, cs, ds, l, t)
    BY <2>1, <1>1 DEF SetTo
  <2>3. head = Firsts(Objects, cs) /\ tail = Lasts(Objects, cs) /\ size = Lengths(Objects, cs)
    BY DEF ListInv
  <2>4. /\ Firsts(Objects, ds) = [Firsts(Objects, cs) EXCEPT ![l] = At(t, 1)]
        /\ Lasts(Objects, ds) = [Lasts(Objects, cs) EXCEPT ![l] = At(t, Len(t))]
        /\ Lengths(Objects, ds) = [Lengths(Objects, cs) EXCEPT ![l] = Len(t)]
    BY ONLY <2>2, FieldsSet
  <2> QED BY <2>3, <2>4, Zenon
<1>4. ListInv(ds)'
  BY <1>2, <1>3, Zenon DEF ListInv, Chained
<1>5. contents' = [Items(Objects, info, cs) EXCEPT ![l] = v]
  BY <1>1, <1>4, ListContentsNext DEF Changed, Becomes
<1>6. contents = Items(Objects, info, cs)
  BY ListContents
<1>7. contents[l] = N!Values(info, cs[l])
  BY <1>6 DEF Items
<1> QED BY <1>1, <1>4, <1>5, <1>6, <1>7, Zenon DEF Sequence!Becomes

(* What is known of a list and its chain. *)
Known(k, cs, l, c) ==
  /\ c = cs[l] /\ c \in Seq(Addresses[k]) /\ c \in Seq(Nat) /\ IsInjective(c)
  /\ DOMAIN link = DOMAIN info /\ Ends(c) /\ Len(c) \in Nat
  /\ ToSet(c) \subseteq DOMAIN info
  /\ \A i \in 1..Len(c) : c[i] \in DOMAIN info /\ c[i] \in Nat \ {0} /\ link[c[i]] = At(c, i + 1)
  /\ N!Values(info, c) \in Seq(Nat) /\ ValueEnds(info, c, N!Values(info, c))

LEMMA KnownOf ==
  ASSUME NEW k, k \in LinkedKinds, NEW cs, Chained(k, cs), NEW l, l \in Objects
  PROVE  Known(k, cs, l, cs[l])
<1>1. Room(Addresses[k]) /\ Elements[k] \subseteq Nat
  BY RoomFor
<1>2. PICK c : c = cs[l]
  OBVIOUS
<1>3. /\ c \in Seq(Addresses[k]) /\ c \in Seq(Nat) /\ Len(c) \in Nat
      /\ ToSet(c) \subseteq DOMAIN info /\ DOMAIN link = DOMAIN info
      /\ \A i, j \in 1..Len(c) : c[i] = c[j] => i = j
      /\ \A i \in 1..Len(c) : c[i] \in ToSet(c) /\ c[i] \in Addresses[k] /\ link[c[i]] = At(c, i + 1)
      /\ \A b \in ToSet(c) : info[b] \in Elements[k]
  BY <1>1, <1>2, HeapFacts DEF Chained
<1>4. IsInjective(c)
  BY <1>3 DEF IsInjective
<1>5. Ends(c)
  BY <1>1, <1>3, EndsAre
<1>6. \A i \in 1..Len(c) : c[i] \in Nat \ {0}
  BY <1>1, <1>3 DEF Room
<1>7. N!Values(info, c) \in Seq(Nat)
  <2>1. \A b \in ToSet(c) : info[b] \in Nat
    BY <1>1, <1>3
  <2> QED BY <2>1, <1>3, ValuesAre
<1>8. ValueEnds(info, c, N!Values(info, c))
  BY <1>3, ValueEndsAre
<1> QED BY <1>2, <1>3, <1>4, <1>5, <1>6, <1>7, <1>8 DEF Known

LEMMA ListKnown ==
  ASSUME NEW cs, ListInv(cs), NEW l, l \in Objects
  PROVE  /\ Known(U, cs, l, cs[l]) /\ Room(Addresses[U]) /\ Chained(U, cs)
         /\ List!nodes(l) = cs[l] /\ head[l] = At(cs[l], 1) /\ tail[l] = At(cs[l], Len(cs[l]))
         /\ size[l] = Len(cs[l])
<1>1. U \in LinkedKinds /\ Chained(U, cs)
  BY DEF LinkedKinds, U, ListInv
<1> QED BY <1>1, KnownOf, RoomFor, ListNodes

(* insertFirst and insertLast: the new node is the k-th. *)
Inserting(kd, cs, l, k, a, x) ==
  /\ x \in Elements[kd] /\ a \in Addresses[kd] /\ a \notin DOMAIN info
  /\ k \in 1..Len(cs[l]) + 1 /\ info' = N!With(info, a, x)
  /\ link' = N!With(IF k = 1 THEN link ELSE [link EXCEPT ![cs[l][k - 1]] = a], a, At(cs[l], k))

LEMMA InsertStep ==
  ASSUME NEW kd, kd \in LinkedKinds, NEW cs, Chained(kd, cs), NEW l, l \in Objects,
         NEW k, NEW a, NEW x, Inserting(kd, cs, l, k, a, x)
  PROVE  /\ Changed(kd, cs, l, InsertAt(cs[l], k, a), InsertAt(N!Values(info, cs[l]), k, x))
         /\ InsertEnd(cs[l], k, a, InsertAt(cs[l], k, a))
<1>1. Room(Addresses[kd]) /\ Known(kd, cs, l, cs[l]) /\ Addresses[kd] \subseteq Nat
  BY RoomFor, KnownOf DEF Room
<1>2. InsertEnd(cs[l], k, a, InsertAt(cs[l], k, a))
  BY <1>1, InsertEndIs DEF Known, Inserting
<1>3. Changed(kd, cs, l, InsertAt(cs[l], k, a), InsertAt(N!Values(info, cs[l]), k, x))
  BY <1>1, HeapInsert DEF Changed, Chained, Inserting
<1> QED BY <1>2, <1>3

LEMMA ListInsertFirst ==
  ASSUME kind = U, kind' = U, NEW cs, ListInv(cs), NEW l, l \in Objects,
         NEW x, x \in Elements[U], NEW a, a \in Addresses[U], List!insertFirst(l, x, a)
  PROVE  (\E ds : ListInv(ds)') /\ Sequence!insertFirst(l, x)
<1>1. PICK c : c = cs[l]
  OBVIOUS
<1>2. /\ Known(U, cs, l, c) /\ Room(Addresses[U]) /\ Chained(U, cs) /\ U \in LinkedKinds
      /\ head[l] = At(c, 1) /\ tail[l] = At(c, Len(c)) /\ size[l] = Len(c)
  BY <1>1, ListKnown DEF LinkedKinds, U
<1>3. DOMAIN link = DOMAIN info /\ Ends(c) /\ Len(c) \in Nat /\ 1 \in 1..Len(c) + 1
  BY <1>2 DEF Known
<1>4. /\ a \notin DOMAIN info /\ info' = N!With(info, a, x) /\ link' = N!With(link, a, At(c, 1))
      /\ head' = [head EXCEPT ![l] = a] /\ size' = [size EXCEPT ![l] = @ + 1]
      /\ tail' = IF tail[l] = 0 THEN [tail EXCEPT ![l] = a] ELSE tail
      /\ reply' = <<l, "insertFirst", "done", x>>
  BY <1>2, <1>3, Zenon DEF List!insertFirst, List!NewNode, List!With, N!With, List!null
<1>5. PICK t, v : /\ Changed(U, cs, l, t, v) /\ InsertEnd(c, 1, a, t)
                  /\ v = InsertAt(N!Values(info, c), 1, x)
  <2>1. Inserting(U, cs, l, 1, a, x)
    BY <1>1, <1>3, <1>4, Zenon DEF Inserting
  <2> QED BY <1>1, <1>2, <2>1, InsertStep
<1>6. At(t, 1) = a /\ Len(t) = Len(c) + 1 /\ At(t, Len(t)) = IF tail[l] = 0 THEN a ELSE tail[l]
  BY <1>2, <1>3, <1>5 DEF InsertEnd, Ends
<1>7. ListInv([cs EXCEPT ![l] = t])' /\ contents[l] = N!Values(info, c) /\ Sequence!Becomes(l, v)
  <2>1. /\ head' = [head EXCEPT ![l] = At(t, 1)] /\ size' = [size EXCEPT ![l] = Len(t)]
        /\ tail' = [tail EXCEPT ![l] = At(t, Len(t))]
    <3>1. tail = [tail EXCEPT ![l] = tail[l]]
      BY DEF ListInv, Lasts
    <3> QED BY <1>2, <1>4, <1>6, <3>1
  <2>2. Answered'
    BY <1>4 DEF Answered
  <2> QED BY <1>1, <1>5, <2>1, <2>2, ListSet
<1>8. v = <<x>> \o contents[l]
  BY <1>2, <1>5, <1>7, RoomFor, InsertAtEnds DEF Known
<1> QED BY <1>4, <1>7, <1>8, Zenon DEF Sequence!insertFirst, Sequence!Answers

(* The k-th node is deleted. *)
Removing(cs, l, k) ==
  /\ k \in 1..Len(cs[l]) /\ info' = N!Without(info, {cs[l][k]})
  /\ link' = N!Without(IF k = 1 THEN link ELSE [link EXCEPT ![cs[l][k - 1]] = link[cs[l][k]]],
                       {cs[l][k]})

LEMMA RemoveStep ==
  ASSUME NEW kd, kd \in LinkedKinds, NEW cs, Chained(kd, cs), NEW l, l \in Objects,
         NEW k, Removing(cs, l, k)
  PROVE  /\ Changed(kd, cs, l, RemoveAt(cs[l], k), RemoveAt(N!Values(info, cs[l]), k))
         /\ RemoveEnd(cs[l], k, RemoveAt(cs[l], k))
<1>1. Room(Addresses[kd]) /\ Known(kd, cs, l, cs[l])
  BY RoomFor, KnownOf
<1>2. RemoveEnd(cs[l], k, RemoveAt(cs[l], k))
  BY <1>1, RemoveEndIs DEF Known, Removing
<1>3. Changed(kd, cs, l, RemoveAt(cs[l], k), RemoveAt(N!Values(info, cs[l]), k))
  BY <1>1, HeapRemove DEF Changed, Chained, Removing
<1> QED BY <1>2, <1>3

(* All nodes of an object are deleted. *)
LEMMA ClearStep ==
  ASSUME NEW kd, kd \in LinkedKinds, NEW cs, Chained(kd, cs), NEW l, l \in Objects,
         info' = N!Without(info, ToSet(cs[l])), link' = N!Without(link, ToSet(cs[l]))
  PROVE  Changed(kd, cs, l, <<>>, <<>>)
<1>1. Room(Addresses[kd])
  BY RoomFor
<1> QED BY <1>1, HeapClear DEF Changed, Chained

(* The object l becomes a copy of m. *)
Copying(kd, cs, l, m, new) ==
  \E kept \in {DOMAIN link \ ToSet(cs[l])} :
    /\ Copies(Addresses[kd], new, cs[m], kept)
    /\ info' = CopyInfo(info, new, cs[m], kept) /\ link' = CopyLink(link, new, cs[m], kept)

LEMMA CopyStep ==
  ASSUME NEW kd, kd \in LinkedKinds, NEW cs, Chained(kd, cs),
         NEW l, l \in Objects, NEW m, m \in Objects, NEW new, Copying(kd, cs, l, m, new)
  PROVE  /\ Changed(kd, cs, l, new, N!Values(info, cs[m]))
         /\ Len(new) = Len(cs[m]) /\ Len(new) \in Nat /\ Ends(new)
<1>1. Room(Addresses[kd])
  BY RoomFor
<1>2. Heap(Addresses[kd], Elements[kd], Objects, info, link, cs)
  BY DEF Chained
<1>3. PICK kept : KeptOf(link, cs, l, kept) /\ Copies(Addresses[kd], new, cs[m], kept)
                  /\ info' = CopyInfo(info, new, cs[m], kept) /\ link' = CopyLink(link, new, cs[m], kept)
  BY DEF Copying, KeptOf
<1>4. /\ new \in Seq(Addresses[kd]) /\ Len(new) = Len(cs[m])
      /\ Becomes(Addresses[kd], Elements[kd], Objects, info, cs, l, new, N!Values(info, cs[m]),
                 CopyInfo(info, new, cs[m], kept), CopyLink(link, new, cs[m], kept))
  BY ONLY <1>1, <1>2, <1>3, l \in Objects, m \in Objects, CopyIs
<1>5. Changed(kd, cs, l, new, N!Values(info, cs[m]))
  BY <1>3, <1>4, Zenon DEF Changed
<1>6. Len(new) \in Nat /\ Ends(new)
  BY <1>1, <1>4, EndsAre
<1> QED BY <1>4, <1>5, <1>6

(* The position the loops find is the one the abstract list is about. *)
LEMMA SequenceFinds ==
  ASSUME NEW l, NEW x
  PROVE  Sequence!Position(l, x) = Find(contents[l], x)
BY Zenon DEF Sequence!Position, Sequence!SelectInSeq, Sequence!Min, Find, SelectInSeq, Min

LEMMA ListFinds ==
  ASSUME NEW A, NEW c, c \in Seq(A), NEW x
  PROVE  List!FirstWith(info, c, x) = Find(N!Values(info, c), x)
<1>1. List!FirstWith(info, c, x) = N!FirstWith(info, c, x)
  BY Zenon DEF List!FirstWith, N!FirstWith, List!SelectInSeq, N!SelectInSeq, List!Min, N!Min
<1> QED BY <1>1, FirstWithIsFind

LEMMA ListDestroy ==
  ASSUME kind = U, kind' = U, NEW cs, ListInv(cs), NEW l, l \in Objects, List!destroyList(l)
  PROVE  (\E ds : ListInv(ds)') /\ Sequence!destroyList(l)
<1>1. /\ Chained(U, cs) /\ U \in LinkedKinds /\ List!nodes(l) = cs[l]
  BY ListKnown DEF LinkedKinds, U
<1>2. /\ info' = N!Without(info, ToSet(cs[l])) /\ link' = N!Without(link, ToSet(cs[l]))
      /\ head' = [head EXCEPT ![l] = 0] /\ tail' = [tail EXCEPT ![l] = 0]
      /\ size' = [size EXCEPT ![l] = 0] /\ reply' = <<l, "destroyList", "done">>
  BY <1>1, Zenon DEF List!destroyList, List!NodeSet, List!ToSet, ToSet, List!Without, N!Without,
     List!Restrict, N!Restrict, List!null
<1>3. PICK t : t = <<>> /\ Changed(U, cs, l, t, <<>>)
  BY <1>1, <1>2, ClearStep
<1>4. At(t, 1) = 0 /\ At(t, Len(t)) = 0 /\ Len(t) = 0
  BY <1>3 DEF At
<1>5. Answered'
  BY <1>2 DEF Answered
<1>6. ListInv([cs EXCEPT ![l] = t])' /\ Sequence!Becomes(l, <<>>)
  BY <1>2, <1>3, <1>4, <1>5, ListSet
<1> QED BY <1>2, <1>6, Zenon DEF Sequence!destroyList, Sequence!Answers

LEMMA ListInsertLast ==
  ASSUME kind = U, kind' = U, NEW cs, ListInv(cs), NEW l, l \in Objects,
         NEW x, x \in Elements[U], NEW a, a \in Addresses[U], List!insertLast(l, x, a)
  PROVE  (\E ds : ListInv(ds)') /\ Sequence!insertLast(l, x)
<1>1. PICK c : c = cs[l]
  OBVIOUS
<1>2. /\ Known(U, cs, l, c) /\ Room(Addresses[U]) /\ Chained(U, cs) /\ U \in LinkedKinds
      /\ head[l] = At(c, 1) /\ tail[l] = At(c, Len(c)) /\ size[l] = Len(c)
  BY <1>1, ListKnown DEF LinkedKinds, U
<1>3. DOMAIN link = DOMAIN info /\ Ends(c) /\ Len(c) \in Nat
  BY <1>2 DEF Known
<1>4. PICK k : k = Len(c) + 1 /\ k \in 1..Len(c) + 1 /\ At(c, k) = 0
  BY <1>3 DEF At
<1>5. k = 1 <=> head[l] = 0
  BY <1>2, <1>3, <1>4 DEF Ends
<1>6. k # 1 => c[k - 1] = tail[l]
  BY <1>2, <1>3, <1>4 DEF Ends
<1>7. /\ a \notin DOMAIN info /\ info' = N!With(info, a, x)
      /\ link' = N!With(IF k = 1 THEN link ELSE [link EXCEPT ![c[k - 1]] = a], a, At(c, k))
      /\ head' = (IF k = 1 THEN [head EXCEPT ![l] = a] ELSE head) /\ size' = [size EXCEPT ![l] = @ + 1]
      /\ tail' = [tail EXCEPT ![l] = a]
      /\ reply' = <<l, "insertLast", "done", x>>
  <2>1. CASE k = 1
    BY <1>3, <1>4, <1>5, <2>1, Zenon
    DEF List!insertLast, List!isEmptyList, List!NewNode, List!With, N!With, List!null
  <2>2. CASE k # 1
    BY <1>3, <1>4, <1>5, <1>6, <2>2, ZenonT(40)
    DEF List!insertLast, List!isEmptyList, List!NewNode, List!With, N!With, List!null
  <2> QED BY <2>1, <2>2
<1>8. PICK t, v : /\ Changed(U, cs, l, t, v) /\ InsertEnd(c, k, a, t)
                  /\ v = InsertAt(N!Values(info, c), k, x)
  <2>1. Inserting(U, cs, l, k, a, x)
    BY <1>1, <1>4, <1>7, Zenon DEF Inserting
  <2> QED BY <1>1, <1>2, <2>1, InsertStep
<1>9. At(t, 1) = (IF k = 1 THEN a ELSE head[l]) /\ Len(t) = size[l] + 1 /\ At(t, Len(t)) = a
  BY <1>2, <1>4, <1>8 DEF InsertEnd
<1>10. ListInv([cs EXCEPT ![l] = t])' /\ contents[l] = N!Values(info, c) /\ Sequence!Becomes(l, v)
  <2>1. /\ head' = [head EXCEPT ![l] = At(t, 1)] /\ size' = [size EXCEPT ![l] = Len(t)]
        /\ tail' = [tail EXCEPT ![l] = At(t, Len(t))]
    <3>1. head = [head EXCEPT ![l] = head[l]]
      BY DEF ListInv, Firsts
    <3> QED BY <1>7, <1>9, <3>1
  <2>2. Answered'
    BY <1>7 DEF Answered
  <2> QED BY <1>1, <1>8, <2>1, <2>2, ListSet
<1>11. v = Append(contents[l], x)
  <2>1. N!Values(info, c) \in Seq(Nat) /\ x \in Nat /\ Len(N!Values(info, c)) = Len(c)
    BY <1>2, RoomFor DEF Known, ValueEnds
  <2> QED BY <1>4, <1>8, <1>10, <2>1, InsertAtEnds
<1> QED BY <1>7, <1>10, <1>11, Zenon DEF Sequence!insertLast, Sequence!Answers

LEMMA ListDelete ==
  ASSUME kind = U, kind' = U, NEW cs, ListInv(cs), NEW l, l \in Objects,
         NEW x, x \in Elements[U], List!deleteNode(l, x)
  PROVE  (\E ds : ListInv(ds)') /\ Sequence!deleteNode(l, x)
<1>1. PICK c : c = cs[l]
  OBVIOUS
<1>2. /\ Known(U, cs, l, c) /\ Room(Addresses[U]) /\ Chained(U, cs) /\ U \in LinkedKinds
      /\ List!nodes(l) = c
      /\ head[l] = At(c, 1) /\ tail[l] = At(c, Len(c)) /\ size[l] = Len(c)
  BY <1>1, ListKnown DEF LinkedKinds, U
<1>3. PICK v : v = N!Values(info, c)
  OBVIOUS
<1>4. /\ c \in Seq(Addresses[U]) /\ v \in Seq(Nat) /\ Len(v) = Len(c) /\ Len(c) \in Nat
      /\ \A i \in 1..Len(c) : link[c[i]] = At(c, i + 1)
  BY <1>2, <1>3 DEF Known, ValueEnds
<1>5. PICK k : k = Find(v, x) /\ k = List!FirstWith(info, c, x)
  BY <1>3, <1>4, ListFinds
<1>6. k = 0 \/ k \in 1..Len(c)
  BY <1>4, <1>5, FindIs
<1>7. contents[l] = v
  <2>1. contents = Items(Objects, info, cs)
    BY ListContents
  <2> QED BY <2>1, <1>1, <1>3 DEF Items
<1>8. Sequence!Position(l, x) = k
  BY <1>5, <1>7, SequenceFinds
<1>9. CASE k = 0
  <2>1. List!Answers(<<l, "deleteNode", "refused", x>>)
    BY <1>2, <1>5, <1>9, Zenon DEF List!deleteNode
  <2>2. UNCHANGED <<info, link, head, tail, size>> /\ reply' = <<l, "deleteNode", "refused", x>>
    BY <2>1 DEF List!Answers, List!fields
  <2>3. Answered'
    BY <2>2 DEF Answered
  <2>4. ListInv(cs)'
    BY <2>2, <2>3 DEF ListInv, Chained
  <2>5. contents' = contents
    BY <2>2, <2>4, ListContents, ListContentsNext
  <2> QED BY <2>2, <2>4, <2>5, <1>8, <1>9, Zenon DEF Sequence!deleteNode, Sequence!Answers, Sequence!Keeps
<1>10. CASE k # 0
  <2>1. k \in 1..Len(c) /\ (k # 1 <=> k > 1)
    BY <1>4, <1>6, <1>10
  <2>2. link[c[1]] = At(c, 2)
    BY <1>4, <2>1
  <2>3. /\ info' = N!Without(info, {c[k]})
        /\ link' = N!Without(IF k = 1 THEN link ELSE [link EXCEPT ![c[k - 1]] = link[c[k]]], {c[k]})
        /\ head' = (IF k = 1 THEN [head EXCEPT ![l] = link[c[1]]] ELSE head)
        /\ tail' = [tail EXCEPT ![l] = IF k = 1 /\ link[c[1]] = 0 THEN 0
                                       ELSE IF k > 1 /\ @ = c[k] THEN c[k - 1] ELSE @]
        /\ size' = [size EXCEPT ![l] = @ - 1]
        /\ reply' = <<l, "deleteNode", "done", x>>
    BY <1>2, <1>5, <1>10
    DEF List!deleteNode, List!Answers, List!Without, N!Without, List!Restrict, N!Restrict, List!null
  <2>4. PICK t, w : /\ Changed(U, cs, l, t, w) /\ RemoveEnd(c, k, t)
                    /\ w = RemoveAt(v, k)
    <3>1. Removing(cs, l, k)
      BY <1>1, <2>1, <2>3, Zenon DEF Removing
    <3> QED BY <1>1, <1>2, <1>3, <3>1, RemoveStep
  <2>5. /\ At(t, 1) = (IF k = 1 THEN link[c[1]] ELSE head[l]) /\ Len(t) = size[l] - 1
        /\ At(t, Len(t)) = IF k = 1 /\ link[c[1]] = 0 THEN 0
                           ELSE IF k > 1 /\ tail[l] = c[k] THEN c[k - 1] ELSE tail[l]
    BY <1>2, <2>2, <2>4 DEF RemoveEnd
  <2>6. ListInv([cs EXCEPT ![l] = t])' /\ Sequence!Becomes(l, w)
    <3>1. /\ head' = [head EXCEPT ![l] = At(t, 1)] /\ size' = [size EXCEPT ![l] = Len(t)]
          /\ tail' = [tail EXCEPT ![l] = At(t, Len(t))]
      <4>1. head = [head EXCEPT ![l] = head[l]]
        BY DEF ListInv, Firsts
      <4> QED BY <2>3, <2>5, <4>1
    <3>2. Answered'
      BY <2>3 DEF Answered
    <3> QED BY <1>1, <2>4, <3>1, <3>2, ListSet
  <2> QED BY <1>7, <1>8, <1>10, <2>3, <2>4, <2>6, Zenon DEF Sequence!deleteNode, Sequence!Answers,
            Sequence!RemoveAt, RemoveAt
<1> QED BY <1>9, <1>10

ListCopies(l, m, c, kept) ==
  \E new \in List!Fresh(Len(c), kept) :
    /\ info' = [a \in kept \cup List!ToSet(new) |->
                  IF a \in kept THEN info[a]
                  ELSE info[c[List!Inverse(new, 1..Len(c), List!ToSet(new))[a]]]]
    /\ link' = [a \in kept \cup List!ToSet(new) |->
                  IF a \in kept THEN link[a]
                  ELSE IF a = new[Len(c)] THEN List!null
                  ELSE new[List!Inverse(new, 1..Len(c), List!ToSet(new))[a] + 1]]
    /\ head' = [head EXCEPT ![l] = IF c = <<>> THEN List!null ELSE new[1]]
    /\ tail' = [tail EXCEPT ![l] = IF c = <<>> THEN List!null ELSE new[Len(c)]]
    /\ size' = [size EXCEPT ![l] = IF c = <<>> THEN 0 ELSE size[m]]

LEMMA ListAssign ==
  ASSUME kind = U, kind' = U, NEW cs, ListInv(cs), NEW l, l \in Objects, NEW m, m \in Objects,
         List!assign(l, m)
  PROVE  (\E ds : ListInv(ds)') /\ Sequence!assign(l, m)
<1>1. /\ Chained(U, cs) /\ U \in LinkedKinds /\ List!nodes(l) = cs[l] /\ List!nodes(m) = cs[m]
      /\ size[m] = Len(cs[m]) /\ Known(U, cs, m, cs[m])
  BY ListKnown DEF LinkedKinds, U
<1>2. contents = Items(Objects, info, cs)
  BY ListContents
<1>3. contents[m] = N!Values(info, cs[m])
  BY <1>2 DEF Items
<1>4. CASE l = m
  <2>1. UNCHANGED <<info, link, head, tail, size>> /\ reply' = <<l, "assign", "done", m>>
    BY <1>4 DEF List!assign, List!fields
  <2>2. Answered'
    BY <2>1 DEF Answered
  <2>3. ListInv(cs)'
    BY <2>1, <2>2 DEF ListInv, Chained
  <2>4. contents' = contents
    BY <1>2, <2>1, <2>3, ListContentsNext
  <2>5. contents' = [contents EXCEPT ![l] = contents[m]]
    BY <2>4, <1>4, <1>2 DEF Items
  <2> QED BY <2>1, <2>3, <2>5, Zenon DEF Sequence!assign, Sequence!Answers, Sequence!Becomes
<1>5. CASE l # m
  <2>1. PICK kept : kept = DOMAIN link \ ToSet(cs[l])
    OBVIOUS
  <2>2. PICK c : c = cs[m] /\ Len(c) \in Nat /\ Ends(c)
    BY <1>1 DEF Known
  <2>3. List!copyList(l, m) /\ reply' = <<l, "assign", "done", m>>
    BY <1>5 DEF List!assign
  <2>4. PICK new \in List!Fresh(Len(c), kept) :
          /\ info' = CopyInfo(info, new, c, kept)
          /\ link' = CopyLinks(link, new, c, kept)
          /\ head' = [head EXCEPT ![l] = IF c = <<>> THEN 0 ELSE new[1]]
          /\ tail' = [tail EXCEPT ![l] = IF c = <<>> THEN 0 ELSE new[Len(c)]]
          /\ size' = [size EXCEPT ![l] = IF c = <<>> THEN 0 ELSE size[m]]
    <3>1. \A new : List!Inverse(new, 1..Len(c), ToSet(new)) = PlaceOf(new, c)
      BY Zenon DEF PlaceOf, List!Inverse, N!Inverse, List!Range, N!Range
    <3>2. ListCopies(l, m, c, kept)
      <4>1. \E d \in {List!nodes(m)}, others \in {DOMAIN link \ List!NodeSet(l)} : ListCopies(l, m, d, others)
        BY ONLY <2>3, Zenon DEF List!copyList, ListCopies
      <4>2. List!nodes(m) = c /\ DOMAIN link \ List!NodeSet(l) = kept
        BY <1>1, <2>1, <2>2, Zenon DEF List!NodeSet, List!ToSet, ToSet
      <4> QED BY ONLY <4>1, <4>2, Zenon
    <3>3. PICK new \in List!Fresh(Len(c), kept) :
          /\ info' = [a \in kept \cup ToSet(new) |->
                        IF a \in kept THEN info[a]
                        ELSE info[c[List!Inverse(new, 1..Len(c), ToSet(new))[a]]]]
          /\ link' = [a \in kept \cup ToSet(new) |->
                        IF a \in kept THEN link[a]
                        ELSE IF a = new[Len(c)] THEN 0
                        ELSE new[List!Inverse(new, 1..Len(c), ToSet(new))[a] + 1]]
          /\ head' = [head EXCEPT ![l] = IF c = <<>> THEN 0 ELSE new[1]]
          /\ tail' = [tail EXCEPT ![l] = IF c = <<>> THEN 0 ELSE new[Len(c)]]
          /\ size' = [size EXCEPT ![l] = IF c = <<>> THEN 0 ELSE size[m]]
      BY <3>2, Zenon DEF ListCopies, List!ToSet, ToSet, List!null
    <3>4. List!Inverse(new, 1..Len(c), ToSet(new)) = PlaceOf(new, c)
      BY <3>1
    <3> QED BY <3>3, <3>4 DEF CopyInfo, CopyLinks
  <2>5. Copies(Addresses[U], new, c, kept)
    BY <2>4, Zenon DEF Copies, List!Fresh, List!IsInjective, IsInjective, U
  <2>6. link' = CopyLink(link, new, c, kept)
    BY <2>2, <2>4, <2>5, CopyLinkIs
  <2>7. PICK v : /\ Changed(U, cs, l, new, v) /\ v = N!Values(info, c)
                 /\ Len(new) = Len(c) /\ Ends(new)
    <3>1. Copying(U, cs, l, m, new)
      BY <2>1, <2>2, <2>4, <2>5, <2>6, Zenon DEF Copying
    <3> QED BY <1>1, <2>2, <3>1, CopyStep
  <2>8. /\ At(new, 1) = (IF c = <<>> THEN 0 ELSE new[1])
        /\ At(new, Len(new)) = (IF c = <<>> THEN 0 ELSE new[Len(c)])
        /\ Len(new) = (IF c = <<>> THEN 0 ELSE size[m])
    BY <1>1, <2>2, <2>7 DEF Ends
  <2>9. ListInv([cs EXCEPT ![l] = new])' /\ Sequence!Becomes(l, v)
    <3>1. Answered'
      BY <2>3 DEF Answered
    <3> QED BY <2>4, <2>7, <2>8, <3>1, ListSet
  <2> QED BY <1>3, <2>2, <2>3, <2>7, <2>9, Zenon DEF Sequence!assign, Sequence!Answers
<1> QED BY <1>4, <1>5

(* The calls that change nothing. *)
Held(l, c) == contents[l] = N!Values(info, c) /\ ValueEnds(info, c, contents[l]) /\ Ends(c)

LEMMA FrontIs ==
  ASSUME NEW l, NEW c, Held(l, c), contents' = contents,
         reply' = IF At(c, 1) = 0 THEN <<l, "front", "aborted">>
                  ELSE <<l, "front", "value", info[At(c, 1)]>>
  PROVE  Sequence!front(l)
<1>1. CASE c = <<>>
  <2>1. contents[l] = <<>> /\ reply' = <<l, "front", "aborted">>
    BY <1>1 DEF Held, Ends, ValueEnds
  <2> QED BY <2>1, Zenon DEF Sequence!front, Sequence!EndOf, Sequence!Answers, Sequence!Keeps
<1>2. CASE c # <<>>
  <2>1. contents[l] # <<>> /\ reply' = <<l, "front", "value", Head(contents[l])>>
    BY <1>2 DEF Held, Ends, ValueEnds
  <2>2. reply'[2] = "front"
    BY <2>1
  <2> QED BY <2>1, <2>2, Zenon DEF Sequence!front, Sequence!EndOf, Sequence!Answers, Sequence!Keeps
<1> QED BY <1>1, <1>2

LEMMA BackIs ==
  ASSUME NEW l, NEW c, Held(l, c), contents' = contents,
         reply' = IF At(c, Len(c)) = 0 THEN <<l, "back", "aborted">>
                  ELSE <<l, "back", "value", info[At(c, Len(c))]>>
  PROVE  Sequence!back(l)
<1>1. CASE c = <<>>
  <2>1. contents[l] = <<>> /\ reply' = <<l, "back", "aborted">>
    BY <1>1 DEF Held, Ends, ValueEnds
  <2> QED BY <2>1, Zenon DEF Sequence!back, Sequence!EndOf, Sequence!Answers, Sequence!Keeps
<1>2. CASE c # <<>>
  <2>1. contents[l] # <<>> /\ reply' = <<l, "back", "value", Last(contents[l])>>
    BY <1>2 DEF Held, Ends, ValueEnds
  <2>2. reply'[2] = "back"
    BY <2>1
  <2> QED BY <2>1, <2>2, Zenon DEF Sequence!back, Sequence!EndOf, Sequence!Answers, Sequence!Keeps,
             Sequence!Last, Last
<1> QED BY <1>1, <1>2

LEMMA LengthIs ==
  ASSUME NEW l, NEW c, Held(l, c), contents' = contents, reply' = <<l, "length", "value", Len(c)>>
  PROVE  Sequence!length(l)
<1>1. Len(contents[l]) = Len(c) /\ reply'[2] = "length"
  BY DEF Held, ValueEnds
<1> QED BY <1>1, Zenon DEF Sequence!length, Sequence!Answers, Sequence!Keeps

LEMMA SearchIs ==
  ASSUME NEW l, NEW c, Held(l, c), contents' = contents, NEW x,
         reply' = <<l, "search", IF Find(N!Values(info, c), x) # 0 THEN "found" ELSE "missing", x>>
  PROVE  Sequence!search(l, x)
<1>1. Sequence!Position(l, x) = Find(N!Values(info, c), x)
  BY SequenceFinds DEF Held
<1> QED BY <1>1, Zenon DEF Sequence!search, Sequence!Answers, Sequence!Keeps

LEMMA ListSame ==
  ASSUME kind = U, kind' = U, NEW cs, ListInv(cs), UNCHANGED <<info, link, head, tail, size>>, Answered'
  PROVE  ListInv(cs)' /\ contents' = contents
<1>1. ListInv(cs)'
  BY DEF ListInv, Chained
<1>2. contents' = contents
  BY <1>1, ListContents, ListContentsNext
<1> QED BY <1>1, <1>2

LEMMA ListHeld ==
  ASSUME kind = U, NEW cs, ListInv(cs), NEW l, l \in Objects
  PROVE  Held(l, cs[l])
<1>1. Known(U, cs, l, cs[l])
  BY ListKnown
<1>2. contents[l] = N!Values(info, cs[l])
  BY ListContents DEF Items
<1> QED BY <1>1, <1>2 DEF Held, Known

LEMMA ListEnds ==
  ASSUME kind = U, NEW cs, ListInv(cs), NEW l, l \in Objects, NEW c, c = cs[l]
  PROVE  /\ Held(l, c) /\ List!nodes(l) = c /\ c \in Seq(Addresses[U]) /\ Len(c) \in Nat
         /\ head[l] = At(c, 1) /\ tail[l] = At(c, Len(c)) /\ size[l] = Len(c)
         /\ At(c, 1) # 0 => At(c, 1) \in DOMAIN info
         /\ At(c, Len(c)) # 0 => At(c, Len(c)) \in DOMAIN info
<1>1. /\ Known(U, cs, l, c) /\ List!nodes(l) = c
      /\ head[l] = At(c, 1) /\ tail[l] = At(c, Len(c)) /\ size[l] = Len(c) /\ Held(l, c)
  BY ListKnown, ListHeld
<1>2. /\ Ends(c) /\ c \in Seq(Addresses[U]) /\ Len(c) \in Nat
      /\ \A i \in 1..Len(c) : c[i] \in DOMAIN info
  BY <1>1 DEF Known
<1>3. /\ At(c, 1) # 0 => At(c, 1) \in DOMAIN info
      /\ At(c, Len(c)) # 0 => At(c, Len(c)) \in DOMAIN info
  BY <1>2 DEF Ends
<1> QED BY <1>1, <1>2, <1>3

LEMMA ListFront ==
  ASSUME kind = U, kind' = U, NEW cs, ListInv(cs), NEW l, l \in Objects, List!front(l)
  PROVE  (\E ds : ListInv(ds)') /\ Sequence!front(l)
<1>1. PICK c : c = cs[l]
  OBVIOUS
<1>2. Held(l, c) /\ head[l] = At(c, 1) /\ (At(c, 1) # 0 => At(c, 1) \in DOMAIN info)
  BY <1>1, ListEnds
<1>3. /\ UNCHANGED <<info, link, head, tail, size>>
      /\ reply' = IF At(c, 1) = 0 THEN <<l, "front", "aborted">>
                  ELSE <<l, "front", "value", info[At(c, 1)]>>
  BY <1>2 DEF List!front, List!End, List!Answers, List!fields, List!null
<1>4. Answered'
  BY <1>3 DEF Answered
<1>5. ListInv(cs)' /\ contents' = contents
  BY <1>3, <1>4, ListSame
<1> QED BY <1>2, <1>3, <1>5, FrontIs

LEMMA ListBack ==
  ASSUME kind = U, kind' = U, NEW cs, ListInv(cs), NEW l, l \in Objects, List!back(l)
  PROVE  (\E ds : ListInv(ds)') /\ Sequence!back(l)
<1>1. PICK c : c = cs[l]
  OBVIOUS
<1>2. Held(l, c) /\ tail[l] = At(c, Len(c)) /\ (At(c, Len(c)) # 0 => At(c, Len(c)) \in DOMAIN info)
  BY <1>1, ListEnds
<1>3. /\ UNCHANGED <<info, link, head, tail, size>>
      /\ reply' = IF At(c, Len(c)) = 0 THEN <<l, "back", "aborted">>
                  ELSE <<l, "back", "value", info[At(c, Len(c))]>>
  BY <1>2 DEF List!back, List!End, List!Answers, List!fields, List!null
<1>4. Answered'
  BY <1>3 DEF Answered
<1>5. ListInv(cs)' /\ contents' = contents
  BY <1>3, <1>4, ListSame
<1> QED BY <1>2, <1>3, <1>5, BackIs

LEMMA ListLength ==
  ASSUME kind = U, kind' = U, NEW cs, ListInv(cs), NEW l, l \in Objects, List!length(l)
  PROVE  (\E ds : ListInv(ds)') /\ Sequence!length(l)
<1>1. PICK c : c = cs[l]
  OBVIOUS
<1>2. Held(l, c) /\ size[l] = Len(c)
  BY <1>1, ListEnds
<1>3. UNCHANGED <<info, link, head, tail, size>> /\ reply' = <<l, "length", "value", Len(c)>>
  BY <1>2 DEF List!length, List!Answers, List!fields
<1>4. Answered'
  BY <1>3 DEF Answered
<1>5. ListInv(cs)' /\ contents' = contents
  BY <1>3, <1>4, ListSame
<1> QED BY <1>2, <1>3, <1>5, LengthIs

(* print visits as many nodes as the count says, and there are as many. *)
LEMMA ListPrint ==
  ASSUME kind = U, kind' = U, NEW cs, ListInv(cs), NEW l, l \in Objects, List!print(l)
  PROVE  (\E ds : ListInv(ds)') /\ Sequence!print(l)
<1>1. size[l] = Len(List!nodes(l)) /\ size[l] \in Nat
  BY ListEnds
<1>2. UNCHANGED <<info, link, head, tail, size>> /\ reply' = <<l, "print", "done">>
  BY <1>1 DEF List!print, List!Answers, List!fields
<1>3. Answered'
  BY <1>2 DEF Answered
<1>4. ListInv(cs)' /\ contents' = contents
  BY <1>2, <1>3, ListSame
<1> QED BY <1>2, <1>4, Zenon DEF Sequence!print, Sequence!Answers, Sequence!Keeps

LEMMA ListSearch ==
  ASSUME kind = U, kind' = U, NEW cs, ListInv(cs), NEW l, l \in Objects, NEW x, List!search(l, x)
  PROVE  (\E ds : ListInv(ds)') /\ Sequence!search(l, x)
<1>1. PICK c : c = cs[l]
  OBVIOUS
<1>2. Held(l, c) /\ List!nodes(l) = c /\ c \in Seq(Addresses[U])
  BY <1>1, ListEnds
<1>3. List!FirstWith(info, c, x) = Find(N!Values(info, c), x)
  BY <1>2, ListFinds
<1>4. /\ UNCHANGED <<info, link, head, tail, size>>
      /\ reply' = <<l, "search", IF Find(N!Values(info, c), x) # 0 THEN "found" ELSE "missing", x>>
  BY <1>2, <1>3, Zenon DEF List!search, List!Answers, List!fields
<1>5. Answered'
  BY <1>4 DEF Answered
<1>6. ListInv(cs)' /\ contents' = contents
  BY <1>4, <1>5, ListSame
<1> QED BY <1>2, <1>4, <1>6, SearchIs

LEMMA ListStep ==
  ASSUME kind = U, kind' = U, NEW cs, ListInv(cs), List!Next
  PROVE  (\E ds : ListInv(ds)') /\ (UNCHANGED <<info, link, head, tail, size, reply>> \/ Sequence!Next)
<1> DEFINE StillInv == \E ds : ListInv(ds)'
<1>1. \A x \in Elements[U] : x \in UNION {Elements[k] : k \in SequenceKinds}
  BY DEF SequenceKinds, LinkedKinds, U
<1>2. CASE List!Ended
  <2>1. UNCHANGED <<info, link, head, tail, size, reply>>
    BY <1>2 DEF List!Ended, List!vars, List!fields
  <2>2. ListInv(cs)'
    BY <2>1 DEF ListInv, Chained, Answered
  <2> QED BY <2>1, <2>2
<1>3. ASSUME NEW l \in Objects,
             List!destroyList(l) \/ List!back(l) \/ List!length(l) \/ List!print(l) \/ List!front(l)
      PROVE  StillInv /\ Sequence!Next
  <2>1. CASE List!destroyList(l)
    BY <2>1, <1>3, ListDestroy, Zenon DEF Sequence!Next
  <2>2. CASE List!back(l)
    BY <2>2, <1>3, ListBack, Zenon DEF Sequence!Next
  <2>3. CASE List!length(l)
    BY <2>3, <1>3, ListLength, Zenon DEF Sequence!Next
  <2>4. CASE List!print(l)
    BY <2>4, <1>3, ListPrint, Zenon DEF Sequence!Next
  <2>5. CASE List!front(l)
    BY <2>5, <1>3, ListFront, Zenon DEF Sequence!Next
  <2> QED BY <1>3, <2>1, <2>2, <2>3, <2>4, <2>5
<1>4. ASSUME NEW l \in Objects, NEW x \in Elements[U], List!deleteNode(l, x) \/ List!search(l, x)
      PROVE  StillInv /\ Sequence!Next
  <2>1. CASE List!deleteNode(l, x)
    BY <2>1, <1>1, <1>4, ListDelete, Zenon DEF Sequence!Next
  <2>2. CASE List!search(l, x)
    BY <2>2, <1>1, <1>4, ListSearch, Zenon DEF Sequence!Next
  <2> QED BY <1>4, <2>1, <2>2
<1>5. ASSUME NEW l \in Objects, NEW x \in Elements[U], NEW a \in Addresses[U],
             List!insertFirst(l, x, a) \/ List!insertLast(l, x, a)
      PROVE  StillInv /\ Sequence!Next
  <2>1. CASE List!insertFirst(l, x, a)
    BY <2>1, <1>1, <1>5, ListInsertFirst, Zenon DEF Sequence!Next
  <2>2. CASE List!insertLast(l, x, a)
    BY <2>2, <1>1, <1>5, ListInsertLast, Zenon DEF Sequence!Next
  <2> QED BY <1>5, <2>1, <2>2
<1>6. ASSUME NEW l \in Objects, NEW m \in Objects, List!assign(l, m)
      PROVE  StillInv /\ Sequence!Next
  BY <1>6, ListAssign, Zenon DEF Sequence!Next
<1>7. ASSUME NEW l \in Objects, List!pop(l) PROVE FALSE
  BY <1>7 DEF List!pop, List!Uses, UnorderedMethods
<1> HIDE DEF StillInv
<1>8. List!Ended \/ (StillInv /\ Sequence!Next)
  BY <1>3, <1>4, <1>5, <1>6, <1>7, Zenon DEF List!Next, U
<1> QED BY <1>2, <1>8 DEF StillInv

-----------------------------------------------------------------------------
(* stackUnorderedLinkedList.  Of the fields of its objects only the first  *)
(* is kept by every method.                                                *)
S == "stackUnorderedLinkedList"

ListStackInv(cs) == Chained(S, cs) /\ head = Firsts(Objects, cs)

LEMMA ListStackKnown ==
  ASSUME NEW cs, ListStackInv(cs), NEW l, l \in Objects
  PROVE  /\ Known(S, cs, l, cs[l]) /\ Room(Addresses[S]) /\ Chained(S, cs) /\ S \in LinkedKinds
         /\ ListStack!nodes(l) = cs[l] /\ head[l] = At(cs[l], 1)
<1>1. S \in LinkedKinds /\ Chained(S, cs)
  BY DEF LinkedKinds, S, ListStackInv
<1>2. Known(S, cs, l, cs[l]) /\ Room(Addresses[S])
  BY <1>1, KnownOf, RoomFor
<1>3. N!Chain(link, At(cs[l], 1)) = cs[l] /\ head[l] = At(cs[l], 1)
  BY <1>1, <1>2, HeapFacts DEF ListStackInv, Chained, Firsts
<1>4. ListStack!nodes(l) = N!Chain(link, head[l])
  BY Zenon DEF ListStack!nodes, ListStack!Chain, N!Chain, ListStack!Cardinality, N!Cardinality
<1> QED BY <1>1, <1>2, <1>3, <1>4

LEMMA ListStackContents ==
  ASSUME kind = S, NEW cs, ListStackInv(cs)
  PROVE  contents = Items(Objects, info, cs)
<1>1. ASSUME NEW l \in Objects PROVE List!nodes(l) = cs[l]
  <2>1. ListStack!nodes(l) = cs[l]
    BY ListStackKnown
  <2>2. ListStack!nodes(l) = List!nodes(l)
    BY Zenon DEF ListStack!nodes, ListStack!Chain, ListStack!Cardinality, List!nodes, List!Chain, List!Cardinality
  <2> QED BY <2>1, <2>2
<1>2. \A l \in Objects : List!Values(info, List!nodes(l)) = N!Values(info, cs[l])
  BY <1>1 DEF List!Values, N!Values
<1> QED BY <1>2 DEF contents, Items, S

LEMMA ListStackContentsNext ==
  ASSUME kind' = S, NEW cs, ListStackInv(cs)'
  PROVE  contents' = Items(Objects, info', cs)
<1>1. ASSUME NEW l \in Objects PROVE List!nodes(l)' = cs[l]
  <2>1. S \in LinkedKinds
    BY DEF LinkedKinds, S
  <2>2. Room(Addresses[S])
    BY <2>1, RoomFor
  <2>3. N!Chain(link', At(cs[l], 1)) = cs[l] /\ head'[l] = At(cs[l], 1)
    BY <2>2, HeapFacts DEF ListStackInv, Chained, Firsts
  <2>4. List!nodes(l)' = N!Chain(link', head'[l])
    BY Zenon DEF List!nodes, List!Chain, N!Chain, List!Cardinality, N!Cardinality
  <2> QED BY <2>3, <2>4
<1>2. \A l \in Objects : List!Values(info', List!nodes(l)') = N!Values(info', cs[l])
  BY <1>1 DEF List!Values, N!Values
<1> QED BY <1>2 DEF contents, Items, S

LEMMA ListStackSet ==
  ASSUME kind = S, kind' = S, NEW cs, ListStackInv(cs), NEW l, l \in Objects, NEW t, NEW v,
         Changed(S, cs, l, t, v), head' = [head EXCEPT ![l] = At(t, 1)]
  PROVE  /\ ListStackInv([cs EXCEPT ![l] = t])'
         /\ contents[l] = N!Values(info, cs[l]) /\ Sequence!Becomes(l, v)
<1>1. PICK ds : ds = [cs EXCEPT ![l] = t]
  OBVIOUS
<1>2. Heap(Addresses[S], Elements[S], Objects, info', link', ds)
  BY <1>1 DEF Changed, Becomes
<1>3. head' = Firsts(Objects, ds)
  <2>1. cs \in [Objects -> Seq(Addresses[S])] /\ head = Firsts(Objects, cs)
    BY DEF ListStackInv, Chained, Heap
  <2>2. SetTo(Objects, cs, ds, l, t)
    BY <2>1, <1>1 DEF SetTo
  <2>3. Firsts(Objects, ds) = [Firsts(Objects, cs) EXCEPT ![l] = At(t, 1)]
    BY ONLY <2>2, FieldsSet
  <2> QED BY <2>1, <2>3, Zenon
<1>4. ListStackInv(ds)'
  BY <1>2, <1>3, Zenon DEF ListStackInv, Chained
<1>5. contents' = [Items(Objects, info, cs) EXCEPT ![l] = v]
  BY <1>1, <1>4, ListStackContentsNext DEF Changed, Becomes
<1>6. contents = Items(Objects, info, cs)
  BY ListStackContents
<1>7. contents[l] = N!Values(info, cs[l])
  BY <1>6 DEF Items
<1> QED BY <1>1, <1>4, <1>5, <1>6, <1>7, Zenon DEF Sequence!Becomes

LEMMA ListStackSame ==
  ASSUME kind = S, kind' = S, NEW cs, ListStackInv(cs), UNCHANGED <<info, link, head>>
  PROVE  ListStackInv(cs)' /\ contents' = contents
<1>1. ListStackInv(cs)'
  BY DEF ListStackInv, Chained
<1>2. contents' = contents
  BY <1>1, ListStackContents, ListStackContentsNext
<1> QED BY <1>1, <1>2

LEMMA ListStackHeld ==
  ASSUME kind = S, NEW cs, ListStackInv(cs), NEW l, l \in Objects
  PROVE  Held(l, cs[l])
<1>1. Known(S, cs, l, cs[l])
  BY ListStackKnown
<1>2. contents[l] = N!Values(info, cs[l])
  BY ListStackContents DEF Items
<1> QED BY <1>1, <1>2 DEF Held, Known

LEMMA ListStackPush ==
  ASSUME kind = S, kind' = S, NEW cs, ListStackInv(cs), NEW l, l \in Objects,
         NEW x, x \in Elements[S], NEW a, a \in Addresses[S], ListStack!insertFirst(l, x, a)
  PROVE  (\E ds : ListStackInv(ds)') /\ Sequence!insertFirst(l, x)
<1>1. PICK c : c = cs[l]
  OBVIOUS
<1>2. /\ Known(S, cs, l, c) /\ Room(Addresses[S]) /\ Chained(S, cs) /\ S \in LinkedKinds
      /\ head[l] = At(c, 1)
  BY <1>1, ListStackKnown
<1>3. DOMAIN link = DOMAIN info /\ Len(c) \in Nat /\ 1 \in 1..Len(c) + 1
  BY <1>2 DEF Known
<1>4. /\ a \notin DOMAIN info /\ info' = N!With(info, a, x) /\ link' = N!With(link, a, At(c, 1))
      /\ head' = [head EXCEPT ![l] = a] /\ reply' = <<l, "insertFirst", "done", x>>
  BY <1>2, <1>3, Zenon DEF ListStack!insertFirst, ListStack!NewNode, ListStack!With, N!With
<1>5. PICK t, v : /\ Changed(S, cs, l, t, v) /\ InsertEnd(c, 1, a, t)
                  /\ v = InsertAt(N!Values(info, c), 1, x)
  <2>1. Inserting(S, cs, l, 1, a, x)
    BY <1>1, <1>3, <1>4, Zenon DEF Inserting
  <2> QED BY <1>1, <1>2, <2>1, InsertStep
<1>6. head' = [head EXCEPT ![l] = At(t, 1)]
  BY <1>4, <1>5 DEF InsertEnd
<1>7. ListStackInv([cs EXCEPT ![l] = t])' /\ contents[l] = N!Values(info, c) /\ Sequence!Becomes(l, v)
  BY <1>1, <1>5, <1>6, ListStackSet
<1>8. v = <<x>> \o contents[l]
  BY <1>2, <1>5, <1>7, RoomFor, InsertAtEnds DEF Known
<1> QED BY <1>4, <1>7, <1>8, Zenon DEF Sequence!insertFirst, Sequence!Answers

LEMMA ListStackDestroy ==
  ASSUME kind = S, kind' = S, NEW cs, ListStackInv(cs), NEW l, l \in Objects, ListStack!destroyList(l)
  PROVE  (\E ds : ListStackInv(ds)') /\ Sequence!destroyList(l)
<1>1. /\ Chained(S, cs) /\ S \in LinkedKinds /\ ListStack!nodes(l) = cs[l]
  BY ListStackKnown
<1>2. /\ info' = N!Without(info, ToSet(cs[l])) /\ link' = N!Without(link, ToSet(cs[l]))
      /\ head' = [head EXCEPT ![l] = 0] /\ reply' = <<l, "destroyList", "done">>
  BY <1>1, Zenon DEF ListStack!destroyList, ListStack!NodeSet, ListStack!ToSet, ToSet,
     ListStack!Without, N!Without, ListStack!Restrict, N!Restrict, ListStack!null
<1>3. PICK t : t = <<>> /\ Changed(S, cs, l, t, <<>>)
  BY <1>1, <1>2, ClearStep
<1>4. At(t, 1) = 0
  BY <1>3 DEF At
<1>5. ListStackInv([cs EXCEPT ![l] = t])' /\ Sequence!Becomes(l, <<>>)
  BY <1>2, <1>3, <1>4, ListStackSet
<1> QED BY <1>2, <1>5, Zenon DEF Sequence!destroyList, Sequence!Answers

(* pop deletes the first node. *)
LEMMA PoppedTail ==
  ASSUME NEW kd, NEW cs, NEW l, NEW c, Known(kd, cs, l, c), c # <<>>, contents[l] = N!Values(info, c)
  PROVE  /\ RemoveAt(N!Values(info, c), 1) = Tail(contents[l]) /\ contents[l] # <<>>
         /\ 1 \in 1..Len(c) /\ At(c, 1) = c[1] /\ At(c, 1) # 0 /\ link[c[1]] = At(c, 2)
<1>1. /\ N!Values(info, c) \in Seq(Nat) /\ N!Values(info, c) # <<>> /\ 1 \in 1..Len(c)
      /\ At(c, 1) = c[1] /\ At(c, 1) # 0 /\ \A i \in 1..Len(c) : link[c[i]] = At(c, i + 1)
  BY DEF Known, ValueEnds, Ends
<1>2. RemoveAt(N!Values(info, c), 1) = Tail(N!Values(info, c))
  BY <1>1, RemoveAtFirst
<1> QED BY <1>1, <1>2

LEMMA ListStackPop ==
  ASSUME kind = S, kind' = S, NEW cs, ListStackInv(cs), NEW l, l \in Objects, ListStack!pop(l)
  PROVE  (\E ds : ListStackInv(ds)') /\ Sequence!pop(l)
<1>1. PICK c : c = cs[l]
  OBVIOUS
<1>2. /\ Known(S, cs, l, c) /\ Chained(S, cs) /\ S \in LinkedKinds /\ head[l] = At(c, 1)
      /\ contents[l] = N!Values(info, c)
  BY <1>1, ListStackKnown, ListStackHeld DEF Held
<1>3. head[l] # 0
  BY DEF ListStack!pop, ListStack!isEmptyList, ListStack!null
<1>4. c # <<>>
  BY <1>2, <1>3 DEF Known, Ends
<1>5. /\ RemoveAt(N!Values(info, c), 1) = Tail(contents[l]) /\ contents[l] # <<>>
      /\ 1 \in 1..Len(c) /\ head[l] = c[1] /\ link[c[1]] = At(c, 2)
  BY <1>2, <1>4, PoppedTail
<1>6. /\ info' = N!Without(info, {c[1]}) /\ link' = N!Without(link, {c[1]})
      /\ head' = [head EXCEPT ![l] = link[c[1]]] /\ reply' = <<l, "pop", "done">>
  BY <1>5, Zenon DEF ListStack!pop, ListStack!Without, N!Without, ListStack!Restrict, N!Restrict
<1>7. PICK t, w : Changed(S, cs, l, t, w) /\ RemoveEnd(c, 1, t) /\ w = RemoveAt(N!Values(info, c), 1)
  <2>1. Removing(cs, l, 1)
    BY <1>1, <1>5, <1>6, Zenon DEF Removing
  <2> QED BY <1>1, <1>2, <2>1, RemoveStep
<1>8. head' = [head EXCEPT ![l] = At(t, 1)]
  BY <1>5, <1>6, <1>7 DEF RemoveEnd
<1>9. ListStackInv([cs EXCEPT ![l] = t])' /\ Sequence!Becomes(l, w)
  BY <1>1, <1>7, <1>8, ListStackSet
<1> QED BY <1>5, <1>6, <1>7, <1>9, Zenon DEF Sequence!pop, Sequence!Answers

ListStackCopies(l, m, c, kept) ==
  \E new \in ListStack!Fresh(Len(c), kept) :
    /\ info' = [a \in kept \cup ListStack!ToSet(new) |->
                  IF a \in kept THEN info[a]
                  ELSE info[c[ListStack!Inverse(new, 1..Len(c), ListStack!ToSet(new))[a]]]]
    /\ link' = [a \in kept \cup ListStack!ToSet(new) |->
                  IF a \in kept THEN link[a]
                  ELSE IF a = new[Len(c)] THEN ListStack!null
                  ELSE new[ListStack!Inverse(new, 1..Len(c), ListStack!ToSet(new))[a] + 1]]
    /\ head' = [head EXCEPT ![l] = IF c = <<>> THEN ListStack!null ELSE new[1]]
    /\ tail' = [tail EXCEPT ![l] = IF c = <<>> THEN ListStack!null ELSE new[Len(c)]]
    /\ size' = [size EXCEPT ![l] = IF c = <<>> THEN 0 ELSE size[m]]

LEMMA ListStackAssign ==
  ASSUME kind = S, kind' = S, NEW cs, ListStackInv(cs), NEW l, l \in Objects, NEW m, m \in Objects,
         ListStack!assign(l, m)
  PROVE  (\E ds : ListStackInv(ds)') /\ Sequence!assign(l, m)
<1>1. /\ Chained(S, cs) /\ S \in LinkedKinds
      /\ ListStack!nodes(l) = cs[l] /\ ListStack!nodes(m) = cs[m] /\ Known(S, cs, m, cs[m])
  BY ListStackKnown
<1>2. contents = Items(Objects, info, cs)
  BY ListStackContents
<1>3. contents[m] = N!Values(info, cs[m])
  BY <1>2 DEF Items
<1>4. CASE l = m
  <2>1. UNCHANGED <<info, link, head>> /\ reply' = <<l, "assign", "done", m>>
    BY <1>4 DEF ListStack!assign, ListStack!fields
  <2>2. ListStackInv(cs)' /\ contents' = contents
    BY <2>1, ListStackSame
  <2>3. contents' = [contents EXCEPT ![l] = contents[m]]
    BY <2>2, <1>4, <1>2 DEF Items
  <2> QED BY <2>1, <2>2, <2>3, Zenon DEF Sequence!assign, Sequence!Answers, Sequence!Becomes
<1>5. CASE l # m
  <2>1. PICK kept : kept = DOMAIN link \ ToSet(cs[l])
    OBVIOUS
  <2>2. PICK c : c = cs[m] /\ Len(c) \in Nat /\ Ends(c)
    BY <1>1 DEF Known
  <2>3. ListStack!copyList(l, m) /\ reply' = <<l, "assign", "done", m>>
    BY <1>5 DEF ListStack!assign
  <2>4. PICK new \in ListStack!Fresh(Len(c), kept) :
          /\ info' = CopyInfo(info, new, c, kept)
          /\ link' = CopyLinks(link, new, c, kept)
          /\ head' = [head EXCEPT ![l] = IF c = <<>> THEN 0 ELSE new[1]]
    <3>1. ListStackCopies(l, m, c, kept)
      <4>1. \E d \in {ListStack!nodes(m)}, others \in {DOMAIN link \ ListStack!NodeSet(l)} :
              ListStackCopies(l, m, d, others)
        BY ONLY <2>3, Zenon DEF ListStack!copyList, ListStackCopies
      <4>2. ListStack!nodes(m) = c /\ DOMAIN link \ ListStack!NodeSet(l) = kept
        BY <1>1, <2>1, <2>2, Zenon DEF ListStack!NodeSet, ListStack!ToSet, ToSet
      <4> QED BY ONLY <4>1, <4>2, Zenon
    <3>2. PICK new \in ListStack!Fresh(Len(c), kept) :
          /\ info' = [a \in kept \cup ToSet(new) |->
                        IF a \in kept THEN info[a]
                        ELSE info[c[ListStack!Inverse(new, 1..Len(c), ToSet(new))[a]]]]
          /\ link' = [a \in kept \cup ToSet(new) |->
                        IF a \in kept THEN link[a]
                        ELSE IF a = new[Len(c)] THEN 0
                        ELSE new[ListStack!Inverse(new, 1..Len(c), ToSet(new))[a] + 1]]
          /\ head' = [head EXCEPT ![l] = IF c = <<>> THEN 0 ELSE new[1]]
      BY <3>1, Zenon DEF ListStackCopies, ListStack!ToSet, ToSet, ListStack!null
    <3>3. ListStack!Inverse(new, 1..Len(c), ToSet(new)) = PlaceOf(new, c)
      BY Zenon DEF PlaceOf, ListStack!Inverse, N!Inverse, ListStack!Range, N!Range
    <3> QED BY <3>2, <3>3 DEF CopyInfo, CopyLinks
  <2>5. Copies(Addresses[S], new, c, kept)
    BY <2>4, Zenon DEF Copies, ListStack!Fresh, ListStack!IsInjective, IsInjective, S
  <2>6. link' = CopyLink(link, new, c, kept)
    BY <2>2, <2>4, <2>5, CopyLinkIs
  <2>7. PICK v : /\ Changed(S, cs, l, new, v) /\ v = N!Values(info, c)
                 /\ Len(new) = Len(c) /\ Ends(new)
    <3>1. Copying(S, cs, l, m, new)
      BY <2>1, <2>2, <2>4, <2>5, <2>6, Zenon DEF Copying
    <3> QED BY <1>1, <2>2, <3>1, CopyStep
  <2>8. At(new, 1) = IF c = <<>> THEN 0 ELSE new[1]
    BY <2>2, <2>7 DEF Ends
  <2>9. ListStackInv([cs EXCEPT ![l] = new])' /\ Sequence!Becomes(l, v)
    BY <2>4, <2>7, <2>8, ListStackSet
  <2> QED BY <1>3, <2>2, <2>3, <2>7, <2>9, Zenon DEF Sequence!assign, Sequence!Answers
<1> QED BY <1>4, <1>5

LEMMA ListStackFront ==
  ASSUME kind = S, kind' = S, NEW cs, ListStackInv(cs), NEW l, l \in Objects, ListStack!front(l)
  PROVE  (\E ds : ListStackInv(ds)') /\ Sequence!front(l)
<1>1. PICK c : c = cs[l]
  OBVIOUS
<1>2. Held(l, c) /\ head[l] = At(c, 1) /\ Known(S, cs, l, c)
  BY <1>1, ListStackHeld, ListStackKnown
<1>3. At(c, 1) # 0 => At(c, 1) \in DOMAIN info
  <2>1. Ends(c) /\ \A i \in 1..Len(c) : c[i] \in DOMAIN info
    BY <1>2 DEF Known
  <2> QED BY <2>1 DEF Ends
<1>4. /\ UNCHANGED <<info, link, head>>
      /\ reply' = IF At(c, 1) = 0 THEN <<l, "front", "aborted">>
                  ELSE <<l, "front", "value", info[At(c, 1)]>>
  BY <1>2, <1>3 DEF ListStack!front, ListStack!End, ListStack!Answers, ListStack!fields, ListStack!null
<1>5. ListStackInv(cs)' /\ contents' = contents
  BY <1>4, ListStackSame
<1> QED BY <1>2, <1>4, <1>5, FrontIs

LEMMA ListStackSearch ==
  ASSUME kind = S, kind' = S, NEW cs, ListStackInv(cs), NEW l, l \in Objects, NEW x, ListStack!search(l, x)
  PROVE  (\E ds : ListStackInv(ds)') /\ Sequence!search(l, x)
<1>1. PICK c : c = cs[l]
  OBVIOUS
<1>2. Held(l, c) /\ Known(S, cs, l, c) /\ ListStack!nodes(l) = c
  BY <1>1, ListStackHeld, ListStackKnown
<1>3. ListStack!FirstWith(info, c, x) = Find(N!Values(info, c), x)
  <2>1. ListStack!FirstWith(info, c, x) = N!FirstWith(info, c, x)
    BY Zenon DEF ListStack!FirstWith, N!FirstWith, ListStack!SelectInSeq, N!SelectInSeq,
       ListStack!Min, N!Min
  <2> QED BY <2>1, <1>2, FirstWithIsFind DEF Known
<1>4. /\ UNCHANGED <<info, link, head>>
      /\ reply' = <<l, "search", IF Find(N!Values(info, c), x) # 0 THEN "found" ELSE "missing", x>>
  BY <1>2, <1>3, Zenon DEF ListStack!search, ListStack!Answers, ListStack!fields
<1>5. ListStackInv(cs)' /\ contents' = contents
  BY <1>4, ListStackSame
<1> QED BY <1>2, <1>4, <1>5, SearchIs

LEMMA ListStackStep ==
  ASSUME kind = S, kind' = S, NEW cs, ListStackInv(cs), ListStack!Next
  PROVE  /\ \E ds : ListStackInv(ds)'
         /\ UNCHANGED <<info, link, head, tail, size, reply>> \/ Sequence!Next
<1> DEFINE StillInv == \E ds : ListStackInv(ds)'
<1>1. \A x \in Elements[S] : x \in UNION {Elements[k] : k \in SequenceKinds}
  BY DEF SequenceKinds, LinkedKinds, S
<1>2. CASE ListStack!Ended
  <2>1. UNCHANGED <<info, link, head, tail, size, reply>>
    BY <1>2 DEF ListStack!Ended, ListStack!vars, ListStack!fields
  <2> QED BY <2>1, ListStackSame
<1>3. ASSUME NEW l \in Objects, ListStack!destroyList(l) \/ ListStack!pop(l) \/ ListStack!front(l)
      PROVE  StillInv /\ Sequence!Next
  <2>1. CASE ListStack!destroyList(l)
    BY <2>1, <1>3, ListStackDestroy, Zenon DEF Sequence!Next
  <2>2. CASE ListStack!pop(l)
    BY <2>2, <1>3, ListStackPop, Zenon DEF Sequence!Next
  <2>3. CASE ListStack!front(l)
    BY <2>3, <1>3, ListStackFront, Zenon DEF Sequence!Next
  <2> QED BY <1>3, <2>1, <2>2, <2>3
<1>4. ASSUME NEW l \in Objects, NEW x \in Elements[S], ListStack!search(l, x)
      PROVE  StillInv /\ Sequence!Next
  BY <1>1, <1>4, ListStackSearch, Zenon DEF Sequence!Next
<1>5. ASSUME NEW l \in Objects, NEW x \in Elements[S], NEW a \in Addresses[S],
             ListStack!insertFirst(l, x, a)
      PROVE  StillInv /\ Sequence!Next
  BY <1>1, <1>5, ListStackPush, Zenon DEF Sequence!Next
<1>6. ASSUME NEW l \in Objects, NEW m \in Objects, ListStack!assign(l, m)
      PROVE  StillInv /\ Sequence!Next
  BY <1>6, ListStackAssign, Zenon DEF Sequence!Next
<1>7. /\ ~ListStack!Uses("back") /\ ~ListStack!Uses("length") /\ ~ListStack!Uses("print")
      /\ ~ListStack!Uses("deleteNode") /\ ~ListStack!Uses("insertLast")
  BY DEF ListStack!Uses, StackMethods
<1> HIDE DEF StillInv
<1>8. ASSUME NEW l, NEW x, NEW a PROVE ~ListStack!deleteNode(l, x) /\ ~ListStack!insertLast(l, x, a)
  BY <1>7, Zenon DEF ListStack!deleteNode, ListStack!insertLast
<1>9. ListStack!Ended \/ (StillInv /\ Sequence!Next)
  BY <1>3, <1>4, <1>5, <1>6, <1>7, <1>8, Zenon DEF ListStack!Next, S
<1> QED BY <1>2, <1>9 DEF StillInv

-----------------------------------------------------------------------------
(* linkedStackType. *)
K == "linkedStackType"

LinkedStackInv(cs) == Chained(K, cs) /\ head = Firsts(Objects, cs)

LEMMA LinkedStackKnown ==
  ASSUME NEW cs, LinkedStackInv(cs), NEW l, l \in Objects
  PROVE  /\ Known(K, cs, l, cs[l]) /\ Room(Addresses[K]) /\ Chained(K, cs) /\ K \in LinkedKinds
         /\ LinkedStack!nodes(l) = cs[l] /\ head[l] = At(cs[l], 1)
<1>1. K \in LinkedKinds /\ Chained(K, cs)
  BY DEF LinkedKinds, K, LinkedStackInv
<1>2. Known(K, cs, l, cs[l]) /\ Room(Addresses[K])
  BY <1>1, KnownOf, RoomFor
<1>3. N!Chain(link, At(cs[l], 1)) = cs[l] /\ head[l] = At(cs[l], 1)
  BY <1>1, <1>2, HeapFacts DEF LinkedStackInv, Chained, Firsts
<1>4. LinkedStack!nodes(l) = N!Chain(link, head[l])
  BY Zenon DEF LinkedStack!nodes, LinkedStack!Chain, N!Chain, LinkedStack!Cardinality, N!Cardinality
<1> QED BY <1>1, <1>2, <1>3, <1>4

LEMMA LinkedStackContents ==
  ASSUME kind = K, NEW cs, LinkedStackInv(cs)
  PROVE  contents = Items(Objects, info, cs)
<1>1. \A l \in Objects : List!Values(info, LinkedStack!nodes(l)) = N!Values(info, cs[l])
  BY LinkedStackKnown DEF List!Values, N!Values
<1> QED BY <1>1 DEF contents, Items, K

LEMMA LinkedStackContentsNext ==
  ASSUME kind' = K, NEW cs, LinkedStackInv(cs)'
  PROVE  contents' = Items(Objects, info', cs)
<1>1. ASSUME NEW l \in Objects PROVE LinkedStack!nodes(l)' = cs[l]
  <2>1. K \in LinkedKinds
    BY DEF LinkedKinds, K
  <2>2. Room(Addresses[K])
    BY <2>1, RoomFor
  <2>3. N!Chain(link', At(cs[l], 1)) = cs[l] /\ head'[l] = At(cs[l], 1)
    BY <2>2, HeapFacts DEF LinkedStackInv, Chained, Firsts
  <2>4. LinkedStack!nodes(l)' = N!Chain(link', head'[l])
    BY Zenon DEF LinkedStack!nodes, LinkedStack!Chain, N!Chain, LinkedStack!Cardinality, N!Cardinality
  <2> QED BY <2>3, <2>4
<1>2. \A l \in Objects : List!Values(info', LinkedStack!nodes(l)') = N!Values(info', cs[l])
  BY <1>1 DEF List!Values, N!Values
<1> QED BY <1>2 DEF contents, Items, K

LEMMA LinkedStackSet ==
  ASSUME kind = K, kind' = K, NEW cs, LinkedStackInv(cs), NEW l, l \in Objects, NEW t, NEW v,
         Changed(K, cs, l, t, v), head' = [head EXCEPT ![l] = At(t, 1)]
  PROVE  /\ LinkedStackInv([cs EXCEPT ![l] = t])'
         /\ contents[l] = N!Values(info, cs[l]) /\ Sequence!Becomes(l, v)
<1>1. PICK ds : ds = [cs EXCEPT ![l] = t]
  OBVIOUS
<1>2. Heap(Addresses[K], Elements[K], Objects, info', link', ds)
  BY <1>1 DEF Changed, Becomes
<1>3. head' = Firsts(Objects, ds)
  <2>1. cs \in [Objects -> Seq(Addresses[K])] /\ head = Firsts(Objects, cs)
    BY DEF LinkedStackInv, Chained, Heap
  <2>2. SetTo(Objects, cs, ds, l, t)
    BY <2>1, <1>1 DEF SetTo
  <2>3. Firsts(Objects, ds) = [Firsts(Objects, cs) EXCEPT ![l] = At(t, 1)]
    BY ONLY <2>2, FieldsSet
  <2> QED BY <2>1, <2>3, Zenon
<1>4. LinkedStackInv(ds)'
  BY <1>2, <1>3, Zenon DEF LinkedStackInv, Chained
<1>5. contents' = [Items(Objects, info, cs) EXCEPT ![l] = v]
  BY <1>1, <1>4, LinkedStackContentsNext DEF Changed, Becomes
<1>6. contents = Items(Objects, info, cs)
  BY LinkedStackContents
<1>7. contents[l] = N!Values(info, cs[l])
  BY <1>6 DEF Items
<1> QED BY <1>1, <1>4, <1>5, <1>6, <1>7, Zenon DEF Sequence!Becomes

LEMMA LinkedStackSame ==
  ASSUME kind = K, kind' = K, NEW cs, LinkedStackInv(cs), UNCHANGED <<info, link, head>>
  PROVE  LinkedStackInv(cs)' /\ contents' = contents
<1>1. LinkedStackInv(cs)'
  BY DEF LinkedStackInv, Chained
<1>2. contents' = contents
  BY <1>1, LinkedStackContents, LinkedStackContentsNext
<1> QED BY <1>1, <1>2

LEMMA LinkedStackHeld ==
  ASSUME kind = K, NEW cs, LinkedStackInv(cs), NEW l, l \in Objects
  PROVE  Held(l, cs[l])
<1>1. Known(K, cs, l, cs[l])
  BY LinkedStackKnown
<1>2. contents[l] = N!Values(info, cs[l])
  BY LinkedStackContents DEF Items
<1> QED BY <1>1, <1>2 DEF Held, Known

LEMMA LinkedStackPush ==
  ASSUME kind = K, kind' = K, NEW cs, LinkedStackInv(cs), NEW l, l \in Objects,
         NEW x, x \in Elements[K], NEW a, a \in Addresses[K], LinkedStack!push(l, x, a)
  PROVE  (\E ds : LinkedStackInv(ds)') /\ Sequence!insertFirst(l, x)
<1>1. PICK c : c = cs[l]
  OBVIOUS
<1>2. /\ Known(K, cs, l, c) /\ Room(Addresses[K]) /\ Chained(K, cs) /\ K \in LinkedKinds
      /\ head[l] = At(c, 1)
  BY <1>1, LinkedStackKnown
<1>3. DOMAIN link = DOMAIN info /\ Len(c) \in Nat /\ 1 \in 1..Len(c) + 1
  BY <1>2 DEF Known
<1>4. /\ a \notin DOMAIN info /\ info' = N!With(info, a, x) /\ link' = N!With(link, a, At(c, 1))
      /\ head' = [head EXCEPT ![l] = a] /\ reply' = <<l, "insertFirst", "done", x>>
  BY <1>2, <1>3, Zenon DEF LinkedStack!push, LinkedStack!With, N!With
<1>5. PICK t, v : /\ Changed(K, cs, l, t, v) /\ InsertEnd(c, 1, a, t)
                  /\ v = InsertAt(N!Values(info, c), 1, x)
  <2>1. Inserting(K, cs, l, 1, a, x)
    BY <1>1, <1>3, <1>4, Zenon DEF Inserting
  <2> QED BY <1>1, <1>2, <2>1, InsertStep
<1>6. head' = [head EXCEPT ![l] = At(t, 1)]
  BY <1>4, <1>5 DEF InsertEnd
<1>7. LinkedStackInv([cs EXCEPT ![l] = t])' /\ contents[l] = N!Values(info, c) /\ Sequence!Becomes(l, v)
  BY <1>1, <1>5, <1>6, LinkedStackSet
<1>8. v = <<x>> \o contents[l]
  BY <1>2, <1>5, <1>7, RoomFor, InsertAtEnds DEF Known
<1> QED BY <1>4, <1>7, <1>8, Zenon DEF Sequence!insertFirst, Sequence!Answers

LEMMA LinkedStackDestroy ==
  ASSUME kind = K, kind' = K, NEW cs, LinkedStackInv(cs), NEW l, l \in Objects, LinkedStack!initializeStack(l)
  PROVE  (\E ds : LinkedStackInv(ds)') /\ Sequence!destroyList(l)
<1>1. /\ Chained(K, cs) /\ K \in LinkedKinds /\ LinkedStack!nodes(l) = cs[l]
  BY LinkedStackKnown
<1>2. /\ info' = N!Without(info, ToSet(cs[l])) /\ link' = N!Without(link, ToSet(cs[l]))
      /\ head' = [head EXCEPT ![l] = 0] /\ reply' = <<l, "destroyList", "done">>
  BY <1>1, Zenon DEF LinkedStack!initializeStack, LinkedStack!NodeSet, LinkedStack!ToSet, ToSet,
     LinkedStack!Without, N!Without, LinkedStack!Restrict, N!Restrict, LinkedStack!null
<1>3. PICK t : t = <<>> /\ Changed(K, cs, l, t, <<>>)
  BY <1>1, <1>2, ClearStep
<1>4. At(t, 1) = 0
  BY <1>3 DEF At
<1>5. LinkedStackInv([cs EXCEPT ![l] = t])' /\ Sequence!Becomes(l, <<>>)
  BY <1>2, <1>3, <1>4, LinkedStackSet
<1> QED BY <1>2, <1>5, Zenon DEF Sequence!destroyList, Sequence!Answers

LEMMA LinkedStackPop ==
  ASSUME kind = K, kind' = K, NEW cs, LinkedStackInv(cs), NEW l, l \in Objects, LinkedStack!pop(l)
  PROVE  (\E ds : LinkedStackInv(ds)') /\ (Sequence!pop(l) \/ Sequence!popEmpty(l))
<1>1. PICK c : c = cs[l]
  OBVIOUS
<1>2. /\ Known(K, cs, l, c) /\ Chained(K, cs) /\ K \in LinkedKinds /\ head[l] = At(c, 1)
      /\ contents[l] = N!Values(info, c)
  BY <1>1, LinkedStackKnown, LinkedStackHeld DEF Held
<1>3. head[l] = 0 <=> c = <<>>
  BY <1>2 DEF Known, Ends
<1>4. CASE c = <<>>
  <2>1. UNCHANGED <<info, link, head>> /\ reply' = <<l, "pop", "refused">>
    BY <1>3, <1>4 DEF LinkedStack!pop, LinkedStack!Answers, LinkedStack!null
  <2>2. LinkedStackInv(cs)' /\ contents' = contents
    BY <2>1, LinkedStackSame
  <2>3. contents[l] = <<>>
    BY <1>2, <1>4 DEF Known, ValueEnds
  <2> QED BY <2>1, <2>2, <2>3, Zenon DEF Sequence!popEmpty, Sequence!Answers, Sequence!Keeps
<1>5. CASE c # <<>>
  <2>1. /\ RemoveAt(N!Values(info, c), 1) = Tail(contents[l]) /\ contents[l] # <<>>
        /\ 1 \in 1..Len(c) /\ head[l] = c[1] /\ head[l] # 0 /\ link[c[1]] = At(c, 2)
    BY <1>2, <1>5, PoppedTail
  <2>2. /\ info' = N!Without(info, {c[1]}) /\ link' = N!Without(link, {c[1]})
        /\ head' = [head EXCEPT ![l] = link[@]] /\ reply' = <<l, "pop", "done">>
    BY <2>1, Zenon DEF LinkedStack!pop, LinkedStack!Answers, LinkedStack!null, LinkedStack!Without, N!Without,
       LinkedStack!Restrict, N!Restrict
  <2>3. PICK t, w : Changed(K, cs, l, t, w) /\ RemoveEnd(c, 1, t) /\ w = RemoveAt(N!Values(info, c), 1)
    <3>1. Removing(cs, l, 1)
      BY <1>1, <2>1, <2>2, Zenon DEF Removing
    <3> QED BY <1>1, <1>2, <3>1, RemoveStep
  <2>4. head' = [head EXCEPT ![l] = At(t, 1)]
    BY <2>1, <2>2, <2>3 DEF RemoveEnd
  <2>5. LinkedStackInv([cs EXCEPT ![l] = t])' /\ Sequence!Becomes(l, w)
    BY <1>1, <2>3, <2>4, LinkedStackSet
  <2> QED BY <2>1, <2>2, <2>3, <2>5, Zenon DEF Sequence!pop, Sequence!Answers
<1> QED BY <1>4, <1>5

LinkedStackCopies(l, c, kept) ==
  \E new \in LinkedStack!Fresh(Len(c), kept) :
    \E of \in {LinkedStack!Inverse(new, 1..Len(c), LinkedStack!ToSet(new))} :
      /\ info' = [a \in kept \cup LinkedStack!ToSet(new) |->
                    IF a \in kept THEN info[a] ELSE info[c[of[a]]]]
      /\ link' = [a \in kept \cup LinkedStack!ToSet(new) |->
                    IF a \in kept THEN link[a]
                    ELSE IF of[a] = Len(c) THEN LinkedStack!null ELSE new[of[a] + 1]]
      /\ head' = [head EXCEPT ![l] = IF c = <<>> THEN LinkedStack!null ELSE new[1]]

LEMMA LinkedStackAssign ==
  ASSUME kind = K, kind' = K, NEW cs, LinkedStackInv(cs), NEW l, l \in Objects, NEW m, m \in Objects,
         LinkedStack!assign(l, m)
  PROVE  (\E ds : LinkedStackInv(ds)') /\ Sequence!assign(l, m)
<1>1. /\ Chained(K, cs) /\ K \in LinkedKinds
      /\ LinkedStack!nodes(l) = cs[l] /\ LinkedStack!nodes(m) = cs[m] /\ Known(K, cs, m, cs[m])
  BY LinkedStackKnown
<1>2. contents = Items(Objects, info, cs)
  BY LinkedStackContents
<1>3. contents[m] = N!Values(info, cs[m])
  BY <1>2 DEF Items
<1>4. CASE l = m
  <2>1. UNCHANGED <<info, link, head>> /\ reply' = <<l, "assign", "done", m>>
    BY <1>4 DEF LinkedStack!assign
  <2>2. LinkedStackInv(cs)' /\ contents' = contents
    BY <2>1, LinkedStackSame
  <2>3. contents' = [contents EXCEPT ![l] = contents[m]]
    BY <2>2, <1>4, <1>2 DEF Items
  <2> QED BY <2>1, <2>2, <2>3, Zenon DEF Sequence!assign, Sequence!Answers, Sequence!Becomes
<1>5. CASE l # m
  <2>1. PICK kept : kept = DOMAIN link \ ToSet(cs[l])
    OBVIOUS
  <2>2. PICK c : c = cs[m] /\ Len(c) \in Nat /\ Ends(c)
    BY <1>1 DEF Known
  <2>3. LinkedStack!copyStack(l, m) /\ reply' = <<l, "assign", "done", m>>
    BY <1>5 DEF LinkedStack!assign
  <2>4. PICK new \in LinkedStack!Fresh(Len(c), kept) :
          /\ info' = CopyInfo(info, new, c, kept)
          /\ link' = CopyLink(link, new, c, kept)
          /\ head' = [head EXCEPT ![l] = IF c = <<>> THEN 0 ELSE new[1]]
    <3>1. LinkedStackCopies(l, c, kept)
      <4>1. \E d \in {LinkedStack!nodes(m)}, others \in {DOMAIN link \ LinkedStack!NodeSet(l)} :
              LinkedStackCopies(l, d, others)
        BY ONLY <2>3, Zenon DEF LinkedStack!copyStack, LinkedStackCopies
      <4>2. LinkedStack!nodes(m) = c /\ DOMAIN link \ LinkedStack!NodeSet(l) = kept
        BY <1>1, <2>1, <2>2, Zenon DEF LinkedStack!NodeSet, LinkedStack!ToSet, ToSet
      <4> QED BY ONLY <4>1, <4>2, Zenon
    <3>2. PICK new \in LinkedStack!Fresh(Len(c), kept) :
            \E of \in {PlaceOf(new, c)} :
              /\ info' = [a \in kept \cup ToSet(new) |-> IF a \in kept THEN info[a] ELSE info[c[of[a]]]]
              /\ link' = [a \in kept \cup ToSet(new) |->
                            IF a \in kept THEN link[a]
                            ELSE IF of[a] = Len(c) THEN 0 ELSE new[of[a] + 1]]
              /\ head' = [head EXCEPT ![l] = IF c = <<>> THEN 0 ELSE new[1]]
      BY <3>1, Zenon DEF LinkedStackCopies, LinkedStack!ToSet, ToSet, LinkedStack!null,
         PlaceOf, LinkedStack!Inverse, N!Inverse, LinkedStack!Range, N!Range
    <3>3. PICK of \in {PlaceOf(new, c)} :
            /\ info' = [a \in kept \cup ToSet(new) |-> IF a \in kept THEN info[a] ELSE info[c[of[a]]]]
            /\ link' = [a \in kept \cup ToSet(new) |->
                          IF a \in kept THEN link[a]
                          ELSE IF of[a] = Len(c) THEN 0 ELSE new[of[a] + 1]]
            /\ head' = [head EXCEPT ![l] = IF c = <<>> THEN 0 ELSE new[1]]
      BY <3>2
    <3>4. of = PlaceOf(new, c)
      OBVIOUS
    <3> QED BY ONLY <3>3, <3>4, new \in LinkedStack!Fresh(Len(c), kept), Zenon DEF CopyInfo, CopyLink
  <2>5. Copies(Addresses[K], new, c, kept)
    BY <2>4, Zenon DEF Copies, LinkedStack!Fresh, LinkedStack!IsInjective, IsInjective, K
  <2>6. PICK v : /\ Changed(K, cs, l, new, v) /\ v = N!Values(info, c)
                 /\ Len(new) = Len(c) /\ Ends(new)
    <3>1. Copying(K, cs, l, m, new)
      BY <2>1, <2>2, <2>4, <2>5, Zenon DEF Copying
    <3> QED BY <1>1, <2>2, <3>1, CopyStep
  <2>7. At(new, 1) = IF c = <<>> THEN 0 ELSE new[1]
    BY <2>2, <2>6 DEF Ends
  <2>8. LinkedStackInv([cs EXCEPT ![l] = new])' /\ Sequence!Becomes(l, v)
    BY <2>4, <2>6, <2>7, LinkedStackSet
  <2> QED BY <1>3, <2>2, <2>3, <2>6, <2>8, Zenon DEF Sequence!assign, Sequence!Answers
<1> QED BY <1>4, <1>5

LEMMA LinkedStackFront ==
  ASSUME kind = K, kind' = K, NEW cs, LinkedStackInv(cs), NEW l, l \in Objects, LinkedStack!top(l)
  PROVE  (\E ds : LinkedStackInv(ds)') /\ Sequence!front(l)
<1>1. PICK c : c = cs[l]
  OBVIOUS
<1>2. Held(l, c) /\ head[l] = At(c, 1) /\ Known(K, cs, l, c)
  BY <1>1, LinkedStackHeld, LinkedStackKnown
<1>3. At(c, 1) # 0 => At(c, 1) \in DOMAIN info
  <2>1. Ends(c) /\ \A i \in 1..Len(c) : c[i] \in DOMAIN info
    BY <1>2 DEF Known
  <2> QED BY <2>1 DEF Ends
<1>4. /\ UNCHANGED <<info, link, head>>
      /\ reply' = IF At(c, 1) = 0 THEN <<l, "front", "aborted">>
                  ELSE <<l, "front", "value", info[At(c, 1)]>>
  BY <1>2, <1>3 DEF LinkedStack!top, LinkedStack!Answers, LinkedStack!null
<1>5. LinkedStackInv(cs)' /\ contents' = contents
  BY <1>4, LinkedStackSame
<1> QED BY <1>2, <1>4, <1>5, FrontIs

LEMMA LinkedStackSearch ==
  ASSUME kind = K, kind' = K, NEW cs, LinkedStackInv(cs), NEW l, l \in Objects, NEW x, LinkedStack!search(l, x)
  PROVE  (\E ds : LinkedStackInv(ds)') /\ Sequence!search(l, x)
<1>1. PICK c : c = cs[l]
  OBVIOUS
<1>2. Held(l, c) /\ Known(K, cs, l, c) /\ LinkedStack!nodes(l) = c
  BY <1>1, LinkedStackHeld, LinkedStackKnown
<1>3. LinkedStack!FirstWith(info, c, x) = Find(N!Values(info, c), x)
  <2>1. LinkedStack!FirstWith(info, c, x) = N!FirstWith(info, c, x)
    BY Zenon DEF LinkedStack!FirstWith, N!FirstWith, LinkedStack!SelectInSeq, N!SelectInSeq,
       LinkedStack!Min, N!Min
  <2> QED BY <2>1, <1>2, FirstWithIsFind DEF Known
<1>4. /\ UNCHANGED <<info, link, head>>
      /\ reply' = <<l, "search", IF Find(N!Values(info, c), x) # 0 THEN "found" ELSE "missing", x>>
  BY <1>2, <1>3, Zenon DEF LinkedStack!search, LinkedStack!Answers
<1>5. LinkedStackInv(cs)' /\ contents' = contents
  BY <1>4, LinkedStackSame
<1> QED BY <1>2, <1>4, <1>5, SearchIs

LEMMA LinkedStackStep ==
  ASSUME kind = K, kind' = K, NEW cs, LinkedStackInv(cs), LinkedStack!Next
  PROVE  /\ \E ds : LinkedStackInv(ds)'
         /\ UNCHANGED <<info, link, head, reply>> \/ Sequence!Next
<1> DEFINE StillInv == \E ds : LinkedStackInv(ds)'
<1>1. \A x \in Elements[K] : x \in UNION {Elements[k] : k \in SequenceKinds}
  BY DEF SequenceKinds, LinkedKinds, K
<1>2. CASE LinkedStack!Ended
  <2>1. UNCHANGED <<info, link, head, reply>>
    BY <1>2 DEF LinkedStack!Ended, LinkedStack!vars
  <2> QED BY <2>1, LinkedStackSame
<1>3. ASSUME NEW l \in Objects, LinkedStack!initializeStack(l) \/ LinkedStack!pop(l) \/ LinkedStack!top(l)
      PROVE  StillInv /\ Sequence!Next
  <2>1. CASE LinkedStack!initializeStack(l)
    BY <2>1, <1>3, LinkedStackDestroy, Zenon DEF Sequence!Next
  <2>2. CASE LinkedStack!pop(l)
    BY <2>2, <1>3, LinkedStackPop, Zenon DEF Sequence!Next
  <2>3. CASE LinkedStack!top(l)
    BY <2>3, <1>3, LinkedStackFront, Zenon DEF Sequence!Next
  <2> QED BY <1>3, <2>1, <2>2, <2>3
<1>4. ASSUME NEW l \in Objects, NEW x \in Elements[K], LinkedStack!search(l, x)
      PROVE  StillInv /\ Sequence!Next
  BY <1>1, <1>4, LinkedStackSearch, Zenon DEF Sequence!Next
<1>5. ASSUME NEW l \in Objects, NEW x \in Elements[K], NEW a \in Addresses[K],
             LinkedStack!push(l, x, a)
      PROVE  StillInv /\ Sequence!Next
  BY <1>1, <1>5, LinkedStackPush, Zenon DEF Sequence!Next
<1>6. ASSUME NEW l \in Objects, NEW m \in Objects, LinkedStack!assign(l, m)
      PROVE  StillInv /\ Sequence!Next
  BY <1>6, LinkedStackAssign, Zenon DEF Sequence!Next
<1> HIDE DEF StillInv
<1>7. LinkedStack!Ended \/ (StillInv /\ Sequence!Next)
  BY <1>3, <1>4, <1>5, <1>6, Zenon DEF LinkedStack!Next, K
<1> QED BY <1>2, <1>7 DEF StillInv

-----------------------------------------------------------------------------
(* orderedLinkedList: one object; its elements ascend.                     *)
O == "orderedLinkedList"

One(cs) == cs["other"] = <<>>

OrderedInv(cs) ==
  /\ Chained(O, cs) /\ One(cs)
  /\ head = Firsts({"list"}, cs) /\ tail = Lasts({"list"}, cs) /\ size = Lengths({"list"}, cs)
  /\ Sorted(N!Values(info, cs["list"])) /\ Answered

(* Where the loops of insert and deleteNode stop. *)
StopsAt(v, x, k) ==
  /\ k \in 1..Len(v) + 1
  /\ \A i \in 1..k - 1 : v[i] < x
  /\ k <= Len(v) => v[k] >= x

LEMMA Stops ==
  ASSUME NEW kd, kd \in LinkedKinds, NEW cs, Chained(kd, cs), NEW l, l \in Objects,
         NEW c, c = cs[l], NEW x, x \in Elements[kd]
  PROVE  /\ StopsAt(N!Values(info, c), x, N!FirstFrom(info, c, x)) /\ x \in Nat
         /\ \A i \in 1..Len(c) : N!Values(info, c)[i] = info[c[i]]
<1>1. Room(Addresses[kd]) /\ Elements[kd] \subseteq Nat /\ Known(kd, cs, l, c)
  BY RoomFor, KnownOf
<1>2. \A b \in ToSet(c) : info[b] \in Nat
  BY <1>1, HeapFacts DEF Chained
<1>3. c \in Seq(Nat) /\ Len(c) \in Nat /\ Len(N!Values(info, c)) = Len(c) /\ x \in Nat
  BY <1>1 DEF Known, ValueEnds
<1>4. /\ N!FirstFrom(info, c, x) \in 1..Len(c) + 1
      /\ \A i \in 1..N!FirstFrom(info, c, x) - 1 : info[c[i]] < x
      /\ N!FirstFrom(info, c, x) <= Len(c) => info[c[N!FirstFrom(info, c, x)]] >= x
  BY <1>2, <1>3, FirstFromIs
<1>5. \A i \in 1..Len(c) : N!Values(info, c)[i] = info[c[i]]
  BY <1>3 DEF N!Values
<1>6. PICK v, k : v = N!Values(info, c) /\ k = N!FirstFrom(info, c, x)
  OBVIOUS
<1>7. \A i \in 1..k - 1 : i \in 1..Len(c)
  BY <1>3, <1>4, <1>6
<1>8. StopsAt(v, x, k)
  BY <1>3, <1>4, <1>5, <1>6, <1>7 DEF StopsAt
<1> QED BY <1>3, <1>5, <1>6, <1>8

LEMMA OneContents ==
  ASSUME kind = O, NEW cs, One(cs), List!nodes("list") = cs["list"]
  PROVE  contents = Items(Objects, info, cs)
<1>1. \A l \in Objects : N!Values(info, cs[l]) =
        IF l = "list" THEN List!Values(info, List!nodes(l)) ELSE <<>>
  BY DEF Objects, One, List!Values, N!Values
<1> QED BY <1>1 DEF contents, Items, O

LEMMA OrderedKnown ==
  ASSUME NEW cs, OrderedInv(cs), NEW c, c = cs["list"]
  PROVE  /\ Known(O, cs, "list", c) /\ Room(Addresses[O]) /\ Chained(O, cs) /\ O \in LinkedKinds
         /\ Ordered!nodes("list") = c /\ List!nodes("list") = c /\ Ordered!Proper(link, head["list"])
         /\ head["list"] = At(c, 1) /\ tail["list"] = At(c, Len(c)) /\ size["list"] = Len(c)
         /\ "list" \in Objects
<1>1. O \in LinkedKinds /\ Chained(O, cs) /\ "list" \in Objects
  BY DEF LinkedKinds, O, OrderedInv, Objects
<1>2. Known(O, cs, "list", c) /\ Room(Addresses[O])
  BY <1>1, KnownOf, RoomFor
<1>3. head["list"] = At(c, 1) /\ tail["list"] = At(c, Len(c)) /\ size["list"] = Len(c)
  BY DEF OrderedInv, Firsts, Lasts, Lengths
<1>4. N!Chain(link, head["list"]) = c /\ N!Proper(link, head["list"])
  BY <1>1, <1>2, <1>3, HeapFacts DEF Chained
<1>5. /\ Ordered!Chain(link, head["list"]) = N!Chain(link, head["list"])
      /\ List!Chain(link, head["list"]) = N!Chain(link, head["list"])
  BY Zenon DEF Ordered!Chain, List!Chain, N!Chain, Ordered!Cardinality, List!Cardinality, N!Cardinality
<1>6. Ordered!Proper(link, head["list"]) <=> N!Proper(link, head["list"])
  BY ONLY <1>5, Zenon DEF Ordered!Proper, N!Proper, Ordered!IsInjective, N!IsInjective, Ordered!Last, N!Last,
     Ordered!null, N!null
<1> QED BY <1>1, <1>2, <1>3, <1>4, <1>5, <1>6 DEF Ordered!nodes, List!nodes

LEMMA OrderedContents ==
  ASSUME kind = O, NEW cs, OrderedInv(cs)
  PROVE  contents = Items(Objects, info, cs) /\ contents["list"] = N!Values(info, cs["list"])
<1>1. contents = Items(Objects, info, cs)
  BY OrderedKnown, OneContents DEF OrderedInv
<1> QED BY <1>1 DEF Items, Objects

LEMMA OrderedContentsNext ==
  ASSUME kind' = O, NEW cs, OrderedInv(cs)'
  PROVE  contents' = Items(Objects, info', cs)
<1>1. O \in LinkedKinds /\ Heap(Addresses[O], Elements[O], Objects, info', link', cs) /\ "list" \in Objects
  BY DEF LinkedKinds, O, OrderedInv, Objects, Chained
<1>2. N!Chain(link', At(cs["list"], 1)) = cs["list"] /\ head'["list"] = At(cs["list"], 1)
  BY <1>1, RoomFor, HeapFacts DEF OrderedInv, Firsts
<1>3. List!nodes("list")' = N!Chain(link', head'["list"])
  BY Zenon DEF List!nodes, List!Chain, N!Chain, List!Cardinality, N!Cardinality
<1>4. \A l \in Objects : N!Values(info', cs[l]) =
        IF l = "list" THEN List!Values(info, List!nodes(l))' ELSE <<>>
  BY <1>2, <1>3 DEF OrderedInv, Objects, One, List!Values, N!Values
<1> QED BY <1>4 DEF contents, Items, O

(* What a call makes of the one object. *)
OneChanged(kd, cs, ds, t, v) ==
  /\ One(cs) /\ cs \in [Objects -> Seq(Addresses[kd])] /\ ds = [cs EXCEPT !["list"] = t]
  /\ Changed(kd, cs, "list", t, v)

LEMMA OneSet ==
  ASSUME NEW kd, NEW cs, NEW ds, NEW t, NEW v, OneChanged(kd, cs, ds, t, v)
  PROVE  /\ One(ds) /\ N!Values(info', ds["list"]) = v /\ ds["list"] = t
         /\ Items(Objects, info', ds) = [Items(Objects, info, cs) EXCEPT !["list"] = v]
         /\ Chained(kd, ds)' /\ SetTo({"list"}, cs, ds, "list", t)
<1>1. One(ds) /\ ds["list"] = t /\ SetTo({"list"}, cs, ds, "list", t)
  BY DEF One, Objects, SetTo, OneChanged
<1>2. /\ Items(Objects, info', ds) = [Items(Objects, info, cs) EXCEPT !["list"] = v]
      /\ Heap(Addresses[kd], Elements[kd], Objects, info', link', ds)
  BY DEF Changed, Becomes, OneChanged
<1>3. Items(Objects, info', ds)["list"] = v
  BY <1>2 DEF Items, Objects
<1>4. N!Values(info', ds["list"]) = v
  BY <1>3 DEF Items, Objects
<1> QED BY <1>1, <1>2, <1>4 DEF Chained

LEMMA OrderedSet ==
  ASSUME kind = O, kind' = O, NEW cs, OrderedInv(cs), NEW t, NEW v,
         Changed(O, cs, "list", t, v), Sorted(v), Answered',
         head' = [head EXCEPT !["list"] = At(t, 1)], tail' = [tail EXCEPT !["list"] = At(t, Len(t))],
         size' = [size EXCEPT !["list"] = Len(t)]
  PROVE  (\E ds : OrderedInv(ds)') /\ Sequence!Becomes("list", v)
<1>1. PICK ds : ds = [cs EXCEPT !["list"] = t]
  OBVIOUS
<1>2. /\ One(ds) /\ N!Values(info', ds["list"]) = v
      /\ Items(Objects, info', ds) = [Items(Objects, info, cs) EXCEPT !["list"] = v]
      /\ Chained(O, ds)' /\ SetTo({"list"}, cs, ds, "list", t)
  <2>1. OneChanged(O, cs, ds, t, v)
    BY <1>1 DEF OrderedInv, Chained, Heap, OneChanged
  <2> QED BY ONLY <2>1, OneSet
<1>3. head = Firsts({"list"}, cs) /\ tail = Lasts({"list"}, cs) /\ size = Lengths({"list"}, cs)
  BY DEF OrderedInv
<1>4. /\ Firsts({"list"}, ds) = [Firsts({"list"}, cs) EXCEPT !["list"] = At(t, 1)]
      /\ Lasts({"list"}, ds) = [Lasts({"list"}, cs) EXCEPT !["list"] = At(t, Len(t))]
      /\ Lengths({"list"}, ds) = [Lengths({"list"}, cs) EXCEPT !["list"] = Len(t)]
  BY ONLY <1>2, FieldsSet
<1>5. head' = Firsts({"list"}, ds) /\ tail' = Lasts({"list"}, ds) /\ size' = Lengths({"list"}, ds)
  BY <1>3, <1>4, Zenon
<1>6. OrderedInv(ds)'
  <2>1. Sorted(N!Values(info', ds["list"]))
    BY <1>2, Zenon
  <2> QED BY <1>2, <1>5, <2>1, Zenon DEF OrderedInv
<1>7. contents' = [contents EXCEPT !["list"] = v]
  BY <1>2, <1>6, OrderedContents, OrderedContentsNext
<1> QED BY <1>6, <1>7, Zenon DEF Sequence!Becomes

LEMMA OrderedSame ==
  ASSUME kind = O, kind' = O, NEW cs, OrderedInv(cs), UNCHANGED <<info, link, head, tail, size>>, Answered'
  PROVE  OrderedInv(cs)' /\ contents' = contents
<1>1. OrderedInv(cs)'
  BY DEF OrderedInv, Chained
<1>2. contents' = contents
  BY <1>1, OrderedContents, OrderedContentsNext
<1> QED BY <1>1, <1>2

LEMMA OrderedHeld ==
  ASSUME kind = O, NEW cs, OrderedInv(cs), NEW c, c = cs["list"]
  PROVE  Held("list", c)
<1>1. Known(O, cs, "list", c) /\ contents["list"] = N!Values(info, c)
  BY OrderedKnown, OrderedContents
<1> QED BY <1>1 DEF Held, Known

(* insert and deleteNode keep the order. *)
LEMMA SortedAfterInsert ==
  ASSUME NEW v, v \in Seq(Nat), Sorted(v), NEW x, x \in Nat, NEW k, StopsAt(v, x, k)
  PROVE  Sorted(InsertAt(v, k, x))
BY SortedInsert DEF StopsAt

LEMMA SequenceInsert ==
  ASSUME NEW l, NEW x, NEW k, StopsAt(contents[l], x, k), reply' = <<l, "insert", "done", x>>,
         NEW v, v = InsertAt(contents[l], k, x), Sequence!Becomes(l, v)
  PROVE  Sequence!insert(l, x)
<1>1. v = Sequence!InsertAt(contents[l], k, x)
  BY Zenon DEF Sequence!InsertAt, InsertAt
<1>2. Sequence!Answers(<<l, "insert", "done", x>>)
  BY DEF Sequence!Answers
<1> QED BY <1>1, <1>2, Zenon DEF Sequence!insert, StopsAt

LEMMA OrderedInsert ==
  ASSUME kind = O, kind' = O, NEW cs, OrderedInv(cs),
         NEW x, x \in Elements[O], NEW a, a \in Addresses[O], Ordered!insert("list", x, a)
  PROVE  (\E ds : OrderedInv(ds)') /\ Sequence!insert("list", x)
<1>1. PICK c : c = cs["list"]
  OBVIOUS
<1>2. /\ Known(O, cs, "list", c) /\ Room(Addresses[O]) /\ Chained(O, cs) /\ O \in LinkedKinds
      /\ Ordered!nodes("list") = c /\ "list" \in Objects
      /\ head["list"] = At(c, 1) /\ tail["list"] = At(c, Len(c)) /\ size["list"] = Len(c)
  BY <1>1, OrderedKnown
<1>3. /\ DOMAIN link = DOMAIN info /\ Ends(c) /\ Len(c) \in Nat /\ N!Values(info, c) \in Seq(Nat)
      /\ \A i \in 1..Len(c) : link[c[i]] = At(c, i + 1)
      /\ Len(N!Values(info, c)) = Len(c)
  BY <1>2 DEF Known, ValueEnds
<1>4. PICK k : k = Ordered!FirstFrom(info, c, x) /\ StopsAt(N!Values(info, c), x, k) /\ x \in Nat
  <2>1. Ordered!FirstFrom(info, c, x) = N!FirstFrom(info, c, x)
    BY Zenon DEF Ordered!FirstFrom, N!FirstFrom, Ordered!SelectInSeq, N!SelectInSeq, Ordered!Min, N!Min
  <2> QED BY <2>1, <1>1, <1>2, Stops
<1>5. k \in 1..Len(c) + 1 /\ (k = 1 \/ k > 1)
  BY <1>3, <1>4 DEF StopsAt
<1>6. k # 1 => link[c[k - 1]] = At(c, k)
  <2>1. k # 1 => k - 1 \in 1..Len(c) /\ (k - 1) + 1 = k
    BY <1>3, <1>5
  <2> QED BY <1>3, <2>1
<1>7. /\ a \notin DOMAIN info /\ info' = N!With(info, a, x)
      /\ link' = N!With(IF k = 1 THEN link ELSE [link EXCEPT ![c[k - 1]] = a], a, At(c, k))
      /\ head' = (IF k = 1 THEN [head EXCEPT !["list"] = a] ELSE head)
      /\ tail' = (IF k > Len(c) THEN [tail EXCEPT !["list"] = a] ELSE tail)
      /\ size' = [size EXCEPT !["list"] = @ + 1]
      /\ reply' = <<"list", "insert", "done", x>>
  <2>1. \E d \in {c} : \E j \in {Ordered!FirstFrom(info, d, x)} :
          /\ a \notin DOMAIN link
          /\ info' = N!With(info, a, x)
          /\ \/ j = 1 /\ link' = N!With(link, a, head["list"]) /\ head' = [head EXCEPT !["list"] = a]
             \/ /\ j > 1 /\ link' = N!With([link EXCEPT ![d[j - 1]] = a], a, link[d[j - 1]])
                /\ UNCHANGED head
          /\ tail'  = IF j > Len(d) THEN [tail EXCEPT !["list"] = a] ELSE tail
          /\ size' = [size EXCEPT !["list"] = @ + 1]
          /\ reply' = <<"list", "insert", "done", x>>
    BY <1>2, Zenon DEF Ordered!insert, Ordered!With, N!With
  <2> QED BY <2>1, <1>2, <1>3, <1>4, <1>5, <1>6
<1>8. PICK t, v : /\ Changed(O, cs, "list", t, v) /\ InsertEnd(c, k, a, t)
                  /\ v = InsertAt(N!Values(info, c), k, x)
  <2>1. Inserting(O, cs, "list", k, a, x)
    BY <1>1, <1>5, <1>7, Zenon DEF Inserting
  <2> QED BY <1>1, <1>2, <2>1, InsertStep
<1>9. contents["list"] = N!Values(info, c) /\ Sorted(N!Values(info, c))
  BY <1>1, OrderedContents DEF OrderedInv
<1>10. (\E ds : OrderedInv(ds)') /\ Sequence!Becomes("list", v)
  <2>1. /\ head' = [head EXCEPT !["list"] = At(t, 1)] /\ size' = [size EXCEPT !["list"] = Len(t)]
        /\ tail' = [tail EXCEPT !["list"] = At(t, Len(t))]
    <3>1. head = [head EXCEPT !["list"] = head["list"]] /\ tail = [tail EXCEPT !["list"] = tail["list"]]
      BY DEF OrderedInv, Lasts, Firsts
    <3>2. At(t, 1) = (IF k = 1 THEN a ELSE head["list"]) /\ Len(t) = size["list"] + 1
          /\ At(t, Len(t)) = IF k > Len(c) THEN a ELSE tail["list"]
      BY <1>2, <1>3, <1>5, <1>8 DEF InsertEnd
    <3> QED BY <1>7, <3>1, <3>2
  <2>2. Answered'
    BY <1>7 DEF Answered
  <2>3. Sorted(v)
    BY <1>3, <1>4, <1>8, <1>9, SortedAfterInsert
  <2> QED BY <1>8, <2>1, <2>2, <2>3, OrderedSet
<1>11. Sequence!insert("list", x)
  BY <1>4, <1>7, <1>8, <1>9, <1>10, SequenceInsert
<1> QED BY <1>10, <1>11

(* deleteNode of a sorted list, as the abstract one has it. *)
LEMMA SequenceDelete ==
  ASSUME NEW l, NEW v, v = contents[l], v \in Seq(Nat), Sorted(v), NEW x, x \in Nat,
         NEW k, StopsAt(v, x, k), k <= Len(v), v[k] = x, reply' = <<l, "deleteNode", "done", x>>,
         NEW w, w = RemoveAt(v, k), Sequence!Becomes(l, w)
  PROVE  Sequence!deleteNode(l, x)
<1>1. k \in 1..Len(v) + 1 /\ k # 0
  BY DEF StopsAt
<1>2. (k <= Len(v) /\ v[k] = x) /\ Find(v, x) = k
  BY <1>1, FindSorted DEF StopsAt
<1>3. Sequence!Position(l, x) = k
  BY <1>2, SequenceFinds
<1>4. w = Sequence!RemoveAt(contents[l], k)
  BY Zenon DEF Sequence!RemoveAt, RemoveAt
<1> QED BY <1>1, <1>3, <1>4, Zenon DEF Sequence!deleteNode, Sequence!Answers

LEMMA SequenceRefuses ==
  ASSUME NEW l, NEW v, v = contents[l], v \in Seq(Nat), Sorted(v), NEW x, x \in Nat,
         NEW k, StopsAt(v, x, k), ~(k <= Len(v) /\ v[k] = x),
         reply' = <<l, "deleteNode", "refused", x>>, contents' = contents
  PROVE  Sequence!deleteNode(l, x)
<1>1. Find(v, x) = 0
  BY FindSorted DEF StopsAt
<1>2. Sequence!Position(l, x) = 0
  BY <1>1, SequenceFinds
<1> QED BY <1>2, Zenon DEF Sequence!deleteNode, Sequence!Answers, Sequence!Keeps

LEMMA OrderedDelete ==
  ASSUME kind = O, kind' = O, NEW cs, OrderedInv(cs), NEW x, x \in Elements[O],
         Ordered!deleteNode("list", x)
  PROVE  (\E ds : OrderedInv(ds)') /\ Sequence!deleteNode("list", x)
<1>1. PICK c : c = cs["list"]
  OBVIOUS
<1>2. /\ Known(O, cs, "list", c) /\ Room(Addresses[O]) /\ Chained(O, cs) /\ O \in LinkedKinds
      /\ Ordered!nodes("list") = c /\ "list" \in Objects
      /\ head["list"] = At(c, 1) /\ tail["list"] = At(c, Len(c)) /\ size["list"] = Len(c)
  BY <1>1, OrderedKnown
<1>3. PICK v : v = N!Values(info, c)
  OBVIOUS
<1>4. /\ Ends(c) /\ Len(c) \in Nat /\ v \in Seq(Nat) /\ Len(v) = Len(c)
      /\ \A i \in 1..Len(c) : link[c[i]] = At(c, i + 1)
  BY <1>2, <1>3 DEF Known, ValueEnds
<1>5. PICK k : /\ k = Ordered!FirstFrom(info, c, x) /\ StopsAt(v, x, k) /\ x \in Nat
               /\ \A i \in 1..Len(c) : v[i] = info[c[i]]
  <2>1. Ordered!FirstFrom(info, c, x) = N!FirstFrom(info, c, x)
    BY Zenon DEF Ordered!FirstFrom, N!FirstFrom, Ordered!SelectInSeq, N!SelectInSeq, Ordered!Min, N!Min
  <2>2. /\ StopsAt(N!Values(info, c), x, N!FirstFrom(info, c, x)) /\ x \in Nat
        /\ \A i \in 1..Len(c) : N!Values(info, c)[i] = info[c[i]]
    BY <1>1, <1>2, Stops
  <2> QED BY <2>1, <2>2, <1>3
<1>6. contents["list"] = v /\ Sorted(v)
  BY <1>1, <1>3, OrderedContents DEF OrderedInv
<1>7. k \in 1..Len(c) + 1 /\ (k <= Len(c) => k \in 1..Len(c) /\ v[k] = info[c[k]]) /\ (k # 1 <=> k > 1)
  BY <1>4, <1>5 DEF StopsAt
<1>8. Ordered!Holds(c, k, x) <=> k <= Len(v) /\ v[k] = x
  BY <1>4, <1>7 DEF Ordered!Holds
<1>9. CASE ~Ordered!Holds(c, k, x)
  <2>1. Ordered!Answers(<<"list", "deleteNode", "refused", x>>)
    BY <1>2, <1>5, <1>9, Zenon DEF Ordered!deleteNode
  <2>2. UNCHANGED <<info, link, head, tail, size>> /\ reply' = <<"list", "deleteNode", "refused", x>>
    BY <2>1 DEF Ordered!Answers, Ordered!fields
  <2>3. Answered'
    BY <2>2 DEF Answered
  <2>4. OrderedInv(cs)' /\ contents' = contents
    BY <2>2, <2>3, OrderedSame
  <2>5. Sequence!deleteNode("list", x)
    BY <1>4, <1>5, <1>6, <1>8, <1>9, <2>2, <2>4, SequenceRefuses
  <2> QED BY <2>4, <2>5
<1>10. CASE Ordered!Holds(c, k, x)
  <2>1. k \in 1..Len(c) /\ v[k] = x
    BY <1>4, <1>7, <1>8, <1>10
  <2>2. link[c[1]] = At(c, 2) /\ head["list"] = c[1]
    BY <1>2, <1>4, <2>1 DEF Ends
  <2>3. /\ info' = N!Without(info, {c[k]})
        /\ link' = N!Without(IF k = 1 THEN link ELSE [link EXCEPT ![c[k - 1]] = link[c[k]]], {c[k]})
        /\ head' = (IF k = 1 THEN [head EXCEPT !["list"] = link[@]] ELSE head)
        /\ tail' = [tail EXCEPT !["list"] = IF k = 1 /\ link[c[1]] = 0 THEN 0
                                       ELSE IF k > 1 /\ @ = c[k] THEN c[k - 1] ELSE @]
        /\ size' = [size EXCEPT !["list"] = @ - 1]
        /\ reply' = <<"list", "deleteNode", "done", x>>
    <3>1. \E d \in {c} : \E j \in {Ordered!FirstFrom(info, d, x)} :
            \/ ~Ordered!Holds(d, j, x) /\ Ordered!Answers(<<"list", "deleteNode", "refused", x>>)
            \/ /\ Ordered!Holds(d, j, x)
               /\ info' = N!Without(info, {d[j]})
               /\ link' = N!Without(IF j = 1 THEN link ELSE [link EXCEPT ![d[j - 1]] = link[d[j]]], {d[j]})
               /\ head' = IF j = 1 THEN [head EXCEPT !["list"] = link[@]] ELSE head
               /\ tail' = [tail EXCEPT !["list"] = IF j = 1 /\ link[d[1]] = 0 THEN 0
                                              ELSE IF j > 1 /\ @ = d[j] THEN d[j - 1] ELSE @]
               /\ size' = [size EXCEPT !["list"] = @ - 1]
               /\ reply' = <<"list", "deleteNode", "done", x>>
      BY <1>2, Zenon DEF Ordered!deleteNode, Ordered!Without, N!Without, Ordered!Restrict, N!Restrict,
         Ordered!null
    <3> QED BY <3>1, <1>5, <1>10
  <2>4. PICK t, w : /\ Changed(O, cs, "list", t, w) /\ RemoveEnd(c, k, t)
                    /\ w = RemoveAt(v, k)
    <3>1. Removing(cs, "list", k)
      BY <1>1, <2>1, <2>3, Zenon DEF Removing
    <3> QED BY <1>1, <1>2, <1>3, <3>1, RemoveStep
  <2>5. /\ At(t, 1) = (IF k = 1 THEN link[head["list"]] ELSE head["list"])
        /\ Len(t) = size["list"] - 1
        /\ At(t, Len(t)) = IF k = 1 /\ link[c[1]] = 0 THEN 0
                           ELSE IF k > 1 /\ tail["list"] = c[k] THEN c[k - 1] ELSE tail["list"]
    BY <1>2, <2>2, <2>4 DEF RemoveEnd
  <2>6. (\E ds : OrderedInv(ds)') /\ Sequence!Becomes("list", w)
    <3>1. head = [head EXCEPT !["list"] = head["list"]]
      BY DEF OrderedInv, Firsts
    <3>2. /\ head' = [head EXCEPT !["list"] = At(t, 1)] /\ size' = [size EXCEPT !["list"] = Len(t)]
          /\ tail' = [tail EXCEPT !["list"] = At(t, Len(t))]
      BY <2>3, <2>5, <3>1
    <3>3. Answered'
      BY <2>3 DEF Answered
    <3>4. Sorted(w)
      BY <1>4, <1>6, <2>1, <2>4, SortedRemove
    <3> QED BY <2>4, <3>2, <3>3, <3>4, OrderedSet
  <2>7. Sequence!deleteNode("list", x)
    <3>1. k <= Len(v)
      BY <1>4, <2>1
    <3> QED BY <1>4, <1>5, <1>6, <2>1, <2>3, <2>4, <2>6, <3>1, SequenceDelete
  <2> QED BY <2>6, <2>7
<1> QED BY <1>9, <1>10

LEMMA OrderedDestroy ==
  ASSUME kind = O, kind' = O, NEW cs, OrderedInv(cs), Ordered!destroyList("list")
  PROVE  (\E ds : OrderedInv(ds)') /\ Sequence!destroyList("list")
<1>1. /\ Chained(O, cs) /\ O \in LinkedKinds /\ Ordered!nodes("list") = cs["list"] /\ "list" \in Objects
  BY OrderedKnown
<1>2. /\ info' = N!Without(info, ToSet(cs["list"])) /\ link' = N!Without(link, ToSet(cs["list"]))
      /\ head' = [head EXCEPT !["list"] = 0] /\ tail' = [tail EXCEPT !["list"] = 0]
      /\ size' = [size EXCEPT !["list"] = 0] /\ reply' = <<"list", "destroyList", "done">>
  BY <1>1, Zenon DEF Ordered!destroyList, Ordered!NodeSet, Ordered!ToSet, ToSet, Ordered!Without,
     N!Without, Ordered!Restrict, N!Restrict, Ordered!null
<1>3. PICK t, v : t = <<>> /\ v = <<>> /\ Changed(O, cs, "list", t, v)
  BY <1>1, <1>2, ClearStep
<1>4. At(t, 1) = 0 /\ At(t, Len(t)) = 0 /\ Len(t) = 0 /\ Sorted(v)
  BY <1>3 DEF At, Sorted
<1>5. Answered'
  BY <1>2 DEF Answered
<1>6. (\E ds : OrderedInv(ds)') /\ Sequence!Becomes("list", v)
  BY <1>2, <1>3, <1>4, <1>5, OrderedSet
<1> QED BY <1>2, <1>3, <1>6, Zenon DEF Sequence!destroyList, Sequence!Answers

LEMMA OrderedReads ==
  ASSUME kind = O, kind' = O, NEW cs, OrderedInv(cs),
         Ordered!front("list") \/ Ordered!back("list") \/ Ordered!length("list") \/ Ordered!print("list")
  PROVE  /\ OrderedInv(cs)'
         /\ Sequence!front("list") \/ Sequence!back("list") \/ Sequence!length("list")
              \/ Sequence!print("list")
<1>1. PICK c : c = cs["list"]
  OBVIOUS
<1>2. /\ Held("list", c) /\ Known(O, cs, "list", c) /\ Ordered!nodes("list") = c
      /\ head["list"] = At(c, 1) /\ tail["list"] = At(c, Len(c)) /\ size["list"] = Len(c)
  BY <1>1, OrderedHeld, OrderedKnown
<1>3. /\ At(c, 1) # 0 => At(c, 1) \in DOMAIN info
      /\ At(c, Len(c)) # 0 => At(c, Len(c)) \in DOMAIN info
      /\ Len(c) \in Nat
  <2>1. /\ Ends(c) /\ Len(c) \in Nat /\ \A i \in 1..Len(c) : c[i] \in DOMAIN info
    BY <1>2 DEF Known
  <2> QED BY <2>1 DEF Ends
<1>4. /\ UNCHANGED <<info, link, head, tail, size>>
      /\ \/ reply' = IF At(c, 1) = 0 THEN <<"list", "front", "aborted">>
                     ELSE <<"list", "front", "value", info[At(c, 1)]>>
         \/ reply' = IF At(c, Len(c)) = 0 THEN <<"list", "back", "aborted">>
                     ELSE <<"list", "back", "value", info[At(c, Len(c))]>>
         \/ reply' = <<"list", "length", "value", Len(c)>>
         \/ reply' = <<"list", "print", "done">>
  BY <1>2, <1>3 DEF Ordered!front, Ordered!back, Ordered!length, Ordered!print, Ordered!End,
     Ordered!Answers, Ordered!fields, Ordered!null
<1>5. Answered'
  BY <1>4 DEF Answered
<1>6. OrderedInv(cs)' /\ contents' = contents
  BY <1>4, <1>5, OrderedSame
<1>7. ASSUME reply' = <<"list", "print", "done">> PROVE Sequence!print("list")
  BY <1>6, <1>7, Zenon DEF Sequence!print, Sequence!Answers, Sequence!Keeps
<1> QED BY <1>2, <1>4, <1>6, <1>7, FrontIs, BackIs, LengthIs

LEMMA OrderedSearch ==
  ASSUME kind = O, kind' = O, NEW cs, OrderedInv(cs), NEW x, Ordered!search("list", x)
  PROVE  OrderedInv(cs)' /\ Sequence!search("list", x)
<1>1. PICK c : c = cs["list"]
  OBVIOUS
<1>2. Held("list", c) /\ Known(O, cs, "list", c) /\ Ordered!nodes("list") = c
  BY <1>1, OrderedHeld, OrderedKnown
<1>3. Ordered!FirstWith(info, c, x) = Find(N!Values(info, c), x)
  <2>1. Ordered!FirstWith(info, c, x) = N!FirstWith(info, c, x)
    BY Zenon DEF Ordered!FirstWith, N!FirstWith, Ordered!SelectInSeq, N!SelectInSeq, Ordered!Min, N!Min
  <2> QED BY <2>1, <1>2, FirstWithIsFind DEF Known
<1>4. /\ UNCHANGED <<info, link, head, tail, size>>
      /\ reply' = <<"list", "search", IF Find(N!Values(info, c), x) # 0 THEN "found" ELSE "missing", x>>
  BY <1>2, <1>3, Zenon DEF Ordered!search, Ordered!Answers, Ordered!fields
<1>5. Answered'
  BY <1>4 DEF Answered
<1>6. OrderedInv(cs)' /\ contents' = contents
  BY <1>4, <1>5, OrderedSame
<1> QED BY <1>2, <1>4, <1>6, SearchIs

LEMMA OrderedAssign ==
  ASSUME kind = O, kind' = O, NEW cs, OrderedInv(cs), Ordered!assign("list", "list")
  PROVE  OrderedInv(cs)' /\ Sequence!assign("list", "list")
<1>1. UNCHANGED <<info, link, head, tail, size>> /\ reply' = <<"list", "assign", "done", "list">>
  BY DEF Ordered!assign, Ordered!fields
<1>2. Answered'
  BY <1>1 DEF Answered
<1>3. OrderedInv(cs)' /\ contents' = contents
  BY <1>1, <1>2, OrderedSame
<1>4. contents' = [contents EXCEPT !["list"] = contents["list"]]
  BY <1>3, OrderedContents DEF Items
<1> QED BY <1>1, <1>3, <1>4, Zenon DEF Sequence!assign, Sequence!Answers, Sequence!Becomes

LEMMA OrderedStep ==
  ASSUME kind = O, kind' = O, NEW cs, OrderedInv(cs), Ordered!Next
  PROVE  /\ \E ds : OrderedInv(ds)'
         /\ UNCHANGED <<info, link, head, tail, size, reply>> \/ Sequence!Next
<1> DEFINE StillInv == \E ds : OrderedInv(ds)'
<1>1. \A x \in Elements[O] : x \in UNION {Elements[k] : k \in SequenceKinds}
  BY DEF SequenceKinds, LinkedKinds, O
<1>2. "list" \in Objects
  BY DEF Objects
<1>3. CASE Ordered!Ended
  <2>1. UNCHANGED <<info, link, head, tail, size, reply>>
    BY <1>3 DEF Ordered!Ended, Ordered!vars, Ordered!fields
  <2>2. OrderedInv(cs)'
    BY <2>1 DEF OrderedInv, Chained, Answered
  <2> QED BY <2>1, <2>2
<1>4. ASSUME Ordered!destroyList("list") \/ Ordered!front("list") \/ Ordered!back("list")
               \/ Ordered!length("list") \/ Ordered!print("list")
      PROVE  StillInv /\ Sequence!Next
  BY <1>2, <1>4, OrderedDestroy, OrderedReads, Zenon DEF Sequence!Next
<1>5. ASSUME NEW x \in Elements[O], Ordered!deleteNode("list", x) \/ Ordered!search("list", x)
      PROVE  StillInv /\ Sequence!Next
  <2>1. CASE Ordered!deleteNode("list", x)
    BY <2>1, <1>1, <1>2, <1>5, OrderedDelete, Zenon DEF Sequence!Next
  <2>2. CASE Ordered!search("list", x)
    BY <2>2, <1>1, <1>2, <1>5, OrderedSearch, Zenon DEF Sequence!Next
  <2> QED BY <1>5, <2>1, <2>2
<1>6. ASSUME NEW x \in Elements[O], NEW a \in Addresses[O], Ordered!insert("list", x, a)
      PROVE  StillInv /\ Sequence!Next
  BY <1>1, <1>2, <1>6, OrderedInsert, Zenon DEF Sequence!Next
<1>7. ASSUME Ordered!assign("list", "list") PROVE StillInv /\ Sequence!Next
  BY <1>2, <1>7, OrderedAssign, Zenon DEF Sequence!Next
<1> HIDE DEF StillInv
<1>8. Ordered!Ended \/ (StillInv /\ Sequence!Next)
  <2>1. \A l \in {"list"} : l = "list"
    OBVIOUS
  <2> QED BY <2>1, <1>4, <1>5, <1>6, <1>7, Zenon DEF Ordered!Next, O
<1> QED BY <1>3, <1>8 DEF StillInv

-----------------------------------------------------------------------------
(* linkedQueueType: one object, its fields two pointers.                   *)
Q == "linkedQueueType"

LinkedQueueInv(cs) ==
  /\ Chained(Q, cs) /\ One(cs)
  /\ head = At(cs["list"], 1) /\ tail = At(cs["list"], Len(cs["list"])) /\ Answered

LEMMA LinkedQueueKnown ==
  ASSUME NEW cs, LinkedQueueInv(cs), NEW c, c = cs["list"]
  PROVE  /\ Known(Q, cs, "list", c) /\ Room(Addresses[Q]) /\ Chained(Q, cs) /\ Q \in LinkedKinds
         /\ LinkedQueue!nodes = c /\ Doubly!nodes = c /\ LinkedQueue!Proper(link, head)
         /\ head = At(c, 1) /\ tail = At(c, Len(c)) /\ "list" \in Objects
<1>1. Q \in LinkedKinds /\ Chained(Q, cs) /\ "list" \in Objects
  BY DEF LinkedKinds, Q, LinkedQueueInv, Objects
<1>2. Known(Q, cs, "list", c) /\ Room(Addresses[Q])
  BY <1>1, KnownOf, RoomFor
<1>3. head = At(c, 1) /\ tail = At(c, Len(c))
  BY DEF LinkedQueueInv
<1>4. N!Chain(link, head) = c /\ N!Proper(link, head)
  BY <1>1, <1>2, <1>3, HeapFacts DEF Chained
<1>5. /\ LinkedQueue!Chain(link, head) = N!Chain(link, head)
      /\ Doubly!Chain(link, head) = N!Chain(link, head)
  BY Zenon DEF LinkedQueue!Chain, Doubly!Chain, N!Chain, LinkedQueue!Cardinality, Doubly!Cardinality,
     N!Cardinality
<1>6. LinkedQueue!Proper(link, head) <=> N!Proper(link, head)
  BY ONLY <1>5, Zenon DEF LinkedQueue!Proper, N!Proper, LinkedQueue!IsInjective, N!IsInjective,
     LinkedQueue!Last, N!Last, LinkedQueue!null, N!null
<1> QED BY <1>1, <1>2, <1>3, <1>4, <1>5, <1>6 DEF LinkedQueue!nodes, Doubly!nodes

LEMMA OneChainContents ==
  ASSUME kind \in {"doublyLinkedList", "linkedQueueType"}, NEW cs, One(cs), Doubly!nodes = cs["list"]
  PROVE  contents = Items(Objects, info, cs) /\ contents["list"] = N!Values(info, cs["list"])
<1>1. \A l \in Objects : N!Values(info, cs[l]) = IF l = "list" THEN List!Values(info, Doubly!nodes) ELSE <<>>
  BY DEF Objects, One, List!Values, N!Values
<1>2. contents = Items(Objects, info, cs)
  BY <1>1 DEF contents, Items
<1> QED BY <1>2 DEF Items, Objects

LEMMA OneChainContentsNext ==
  ASSUME kind' \in {"doublyLinkedList", "linkedQueueType"}, NEW cs, One(cs),
         N!Chain(link', head') = cs["list"]
  PROVE  contents' = Items(Objects, info', cs)
<1>1. Doubly!nodes' = cs["list"]
  BY Zenon DEF Doubly!nodes, Doubly!Chain, N!Chain, Doubly!Cardinality, N!Cardinality
<1>2. \A l \in Objects : N!Values(info', cs[l]) = IF l = "list" THEN List!Values(info, Doubly!nodes)' ELSE <<>>
  BY <1>1 DEF Objects, One, List!Values, N!Values
<1> QED BY <1>2 DEF contents, Items

LEMMA LinkedQueueContents ==
  ASSUME kind = Q, NEW cs, LinkedQueueInv(cs)
  PROVE  contents = Items(Objects, info, cs) /\ contents["list"] = N!Values(info, cs["list"])
<1>1. One(cs) /\ Doubly!nodes = cs["list"] /\ kind \in {"doublyLinkedList", "linkedQueueType"}
  BY LinkedQueueKnown DEF LinkedQueueInv, Q
<1> QED BY <1>1, OneChainContents

LEMMA LinkedQueueContentsNext ==
  ASSUME kind' = Q, NEW cs, LinkedQueueInv(cs)'
  PROVE  contents' = Items(Objects, info', cs)
<1>1. Q \in LinkedKinds /\ Heap(Addresses[Q], Elements[Q], Objects, info', link', cs) /\ "list" \in Objects
  BY DEF LinkedKinds, Q, LinkedQueueInv, Objects, Chained
<1>2. N!Chain(link', At(cs["list"], 1)) = cs["list"] /\ head' = At(cs["list"], 1)
  BY <1>1, RoomFor, HeapFacts DEF LinkedQueueInv
<1>3. One(cs) /\ kind' \in {"doublyLinkedList", "linkedQueueType"}
  BY DEF LinkedQueueInv, Q, One
<1> QED BY <1>2, <1>3, OneChainContentsNext

LEMMA LinkedQueueSet ==
  ASSUME kind = Q, kind' = Q, NEW cs, LinkedQueueInv(cs), NEW t, NEW v,
         Changed(Q, cs, "list", t, v), Answered', head' = At(t, 1), tail' = At(t, Len(t))
  PROVE  (\E ds : LinkedQueueInv(ds)') /\ Sequence!Becomes("list", v)
<1>1. PICK ds : ds = [cs EXCEPT !["list"] = t]
  OBVIOUS
<1>2. /\ One(ds) /\ ds["list"] = t
      /\ Items(Objects, info', ds) = [Items(Objects, info, cs) EXCEPT !["list"] = v]
      /\ Chained(Q, ds)'
  <2>1. OneChanged(Q, cs, ds, t, v)
    BY <1>1 DEF LinkedQueueInv, Chained, Heap, OneChanged
  <2> QED BY ONLY <2>1, OneSet
<1>3. LinkedQueueInv(ds)'
  BY <1>2, Zenon DEF LinkedQueueInv
<1>4. contents' = [contents EXCEPT !["list"] = v]
  BY <1>2, <1>3, LinkedQueueContents, LinkedQueueContentsNext
<1> QED BY <1>3, <1>4, Zenon DEF Sequence!Becomes

LEMMA LinkedQueueSame ==
  ASSUME kind = Q, kind' = Q, NEW cs, LinkedQueueInv(cs), UNCHANGED <<info, link, head, tail>>, Answered'
  PROVE  LinkedQueueInv(cs)' /\ contents' = contents
<1>1. LinkedQueueInv(cs)'
  BY DEF LinkedQueueInv, Chained
<1>2. contents' = contents
  BY <1>1, LinkedQueueContents, LinkedQueueContentsNext
<1> QED BY <1>1, <1>2

LEMMA LinkedQueueHeld ==
  ASSUME kind = Q, NEW cs, LinkedQueueInv(cs), NEW c, c = cs["list"]
  PROVE  Held("list", c) /\ contents["list"] = N!Values(info, c)
<1>1. Known(Q, cs, "list", c) /\ contents["list"] = N!Values(info, c)
  BY LinkedQueueKnown, LinkedQueueContents
<1> QED BY <1>1 DEF Held, Known

LEMMA LinkedQueueAdd ==
  ASSUME kind = Q, kind' = Q, NEW cs, LinkedQueueInv(cs),
         NEW x, x \in Elements[Q], NEW a, a \in Addresses[Q], LinkedQueue!addQueue(x, a)
  PROVE  (\E ds : LinkedQueueInv(ds)') /\ Sequence!insertLast("list", x)
<1>1. PICK c : c = cs["list"]
  OBVIOUS
<1>2. /\ Known(Q, cs, "list", c) /\ Room(Addresses[Q]) /\ Chained(Q, cs) /\ Q \in LinkedKinds
      /\ "list" \in Objects /\ head = At(c, 1) /\ tail = At(c, Len(c)) /\ x \in Nat
  BY <1>1, LinkedQueueKnown, RoomFor
<1>3. /\ DOMAIN link = DOMAIN info /\ Ends(c) /\ Len(c) \in Nat
      /\ N!Values(info, c) \in Seq(Nat) /\ Len(N!Values(info, c)) = Len(c)
  BY <1>2 DEF Known, ValueEnds
<1>4. PICK k : k = Len(c) + 1 /\ k \in 1..Len(c) + 1 /\ At(c, k) = 0
  BY <1>3 DEF At
<1>5. (k = 1 <=> head = 0) /\ (k # 1 => c[k - 1] = tail)
  BY <1>2, <1>3, <1>4 DEF Ends
<1>6. /\ a \notin DOMAIN info /\ info' = N!With(info, a, x)
      /\ link' = N!With(IF k = 1 THEN link ELSE [link EXCEPT ![c[k - 1]] = a], a, At(c, k))
      /\ head' = (IF k = 1 THEN a ELSE head) /\ tail' = a
      /\ reply' = <<"list", "insertLast", "done", x>>
  <2>1. CASE k = 1
    BY <1>3, <1>4, <1>5, <2>1, Zenon
    DEF LinkedQueue!addQueue, LinkedQueue!isEmptyQueue, LinkedQueue!With, N!With, LinkedQueue!null,
        LinkedQueue!Queue
  <2>2. CASE k # 1
    BY <1>3, <1>4, <1>5, <2>2, Zenon
    DEF LinkedQueue!addQueue, LinkedQueue!isEmptyQueue, LinkedQueue!With, N!With, LinkedQueue!null,
        LinkedQueue!Queue
  <2> QED BY <2>1, <2>2
<1>7. PICK t, v : /\ Changed(Q, cs, "list", t, v) /\ InsertEnd(c, k, a, t)
                  /\ v = InsertAt(N!Values(info, c), k, x)
  <2>1. Inserting(Q, cs, "list", k, a, x)
    BY <1>1, <1>4, <1>6, Zenon DEF Inserting
  <2> QED BY <1>1, <1>2, <2>1, InsertStep
<1>8. At(t, 1) = (IF k = 1 THEN a ELSE head) /\ At(t, Len(t)) = a
  BY <1>2, <1>4, <1>7 DEF InsertEnd
<1>9. Answered'
  BY <1>6 DEF Answered
<1>10. (\E ds : LinkedQueueInv(ds)') /\ Sequence!Becomes("list", v)
  BY <1>6, <1>7, <1>8, <1>9, LinkedQueueSet
<1>11. v = Append(contents["list"], x)
  <2>1. contents["list"] = N!Values(info, c)
    BY <1>1, LinkedQueueHeld
  <2> QED BY <1>2, <1>3, <1>4, <1>7, <2>1, InsertAtEnds
<1> QED BY <1>6, <1>10, <1>11, Zenon DEF Sequence!insertLast, Sequence!Answers

LEMMA LinkedQueueDelete ==
  ASSUME kind = Q, kind' = Q, NEW cs, LinkedQueueInv(cs), LinkedQueue!deleteQueue
  PROVE  (\E ds : LinkedQueueInv(ds)') /\ (Sequence!pop("list") \/ Sequence!popEmpty("list"))
<1>1. PICK c : c = cs["list"]
  OBVIOUS
<1>2. /\ Known(Q, cs, "list", c) /\ Chained(Q, cs) /\ Q \in LinkedKinds /\ "list" \in Objects
      /\ head = At(c, 1) /\ tail = At(c, Len(c)) /\ contents["list"] = N!Values(info, c)
  BY <1>1, LinkedQueueKnown, LinkedQueueHeld
<1>3. head = 0 <=> c = <<>>
  BY <1>2 DEF Known, Ends
<1>4. CASE c = <<>>
  <2>1. UNCHANGED <<info, link, head, tail>> /\ reply' = <<"list", "pop", "refused">>
    BY <1>3, <1>4 DEF LinkedQueue!deleteQueue, LinkedQueue!isEmptyQueue, LinkedQueue!null, LinkedQueue!Queue
  <2>2. Answered'
    BY <2>1 DEF Answered
  <2>3. LinkedQueueInv(cs)' /\ contents' = contents
    BY <2>1, <2>2, LinkedQueueSame
  <2>4. contents["list"] = <<>>
    BY <1>2, <1>4 DEF Known, ValueEnds
  <2> QED BY <2>1, <2>3, <2>4, Zenon DEF Sequence!popEmpty, Sequence!Answers, Sequence!Keeps
<1>5. CASE c # <<>>
  <2>1. /\ RemoveAt(N!Values(info, c), 1) = Tail(contents["list"]) /\ contents["list"] # <<>>
        /\ 1 \in 1..Len(c) /\ head = c[1] /\ head # 0 /\ link[c[1]] = At(c, 2)
    BY <1>2, <1>5, PoppedTail
  <2>2. /\ info' = N!Without(info, {c[1]}) /\ link' = N!Without(link, {c[1]})
        /\ head' = link[c[1]] /\ tail' = (IF link[c[1]] = 0 THEN 0 ELSE tail)
        /\ reply' = <<"list", "pop", "done">>
    BY <2>1, Zenon DEF LinkedQueue!deleteQueue, LinkedQueue!isEmptyQueue, LinkedQueue!null,
       LinkedQueue!Without, N!Without, LinkedQueue!Restrict, N!Restrict, LinkedQueue!Queue
  <2>3. PICK t, w : Changed(Q, cs, "list", t, w) /\ RemoveEnd(c, 1, t) /\ w = RemoveAt(N!Values(info, c), 1)
    <3>1. Removing(cs, "list", 1)
      BY <1>1, <2>1, <2>2, Zenon DEF Removing
    <3> QED BY <1>1, <1>2, <3>1, RemoveStep
  <2>4. head' = At(t, 1) /\ tail' = At(t, Len(t))
    BY <1>2, <2>1, <2>2, <2>3 DEF RemoveEnd
  <2>5. Answered'
    BY <2>2 DEF Answered
  <2>6. (\E ds : LinkedQueueInv(ds)') /\ Sequence!Becomes("list", w)
    BY <2>3, <2>4, <2>5, LinkedQueueSet
  <2> QED BY <2>1, <2>2, <2>3, <2>6, Zenon DEF Sequence!pop, Sequence!Answers
<1> QED BY <1>4, <1>5

LEMMA LinkedQueueClear ==
  ASSUME kind = Q, kind' = Q, NEW cs, LinkedQueueInv(cs), LinkedQueue!initializeQueue
  PROVE  (\E ds : LinkedQueueInv(ds)') /\ Sequence!destroyList("list")
<1>1. /\ Chained(Q, cs) /\ Q \in LinkedKinds /\ LinkedQueue!nodes = cs["list"] /\ "list" \in Objects
  BY LinkedQueueKnown
<1>2. /\ info' = N!Without(info, ToSet(cs["list"])) /\ link' = N!Without(link, ToSet(cs["list"]))
      /\ head' = 0 /\ tail' = 0 /\ reply' = <<"list", "destroyList", "done">>
  BY <1>1, Zenon DEF LinkedQueue!initializeQueue, LinkedQueue!ToSet, ToSet, LinkedQueue!Without,
     N!Without, LinkedQueue!Restrict, N!Restrict, LinkedQueue!null, LinkedQueue!Queue
<1>3. PICK t, v : t = <<>> /\ v = <<>> /\ Changed(Q, cs, "list", t, v)
  BY <1>1, <1>2, ClearStep
<1>4. At(t, 1) = 0 /\ At(t, Len(t)) = 0
  BY <1>3 DEF At
<1>5. Answered'
  BY <1>2 DEF Answered
<1>6. (\E ds : LinkedQueueInv(ds)') /\ Sequence!Becomes("list", v)
  BY <1>2, <1>3, <1>4, <1>5, LinkedQueueSet
<1> QED BY <1>2, <1>3, <1>6, Zenon DEF Sequence!destroyList, Sequence!Answers

LEMMA LinkedQueueReads ==
  ASSUME kind = Q, kind' = Q, NEW cs, LinkedQueueInv(cs), LinkedQueue!front \/ LinkedQueue!back
  PROVE  LinkedQueueInv(cs)' /\ (Sequence!front("list") \/ Sequence!back("list"))
<1>1. PICK c : c = cs["list"]
  OBVIOUS
<1>2. Held("list", c) /\ head = At(c, 1) /\ tail = At(c, Len(c))
  BY <1>1, LinkedQueueHeld, LinkedQueueKnown
<1>3. /\ UNCHANGED <<info, link, head, tail>>
      /\ \/ reply' = IF At(c, 1) = 0 THEN <<"list", "front", "aborted">>
                     ELSE <<"list", "front", "value", info[At(c, 1)]>>
         \/ reply' = IF At(c, Len(c)) = 0 THEN <<"list", "back", "aborted">>
                     ELSE <<"list", "back", "value", info[At(c, Len(c))]>>
  BY <1>2 DEF LinkedQueue!front, LinkedQueue!back, LinkedQueue!EndOf, LinkedQueue!Answers,
     LinkedQueue!null, LinkedQueue!Queue
<1>4. Answered'
  BY <1>3 DEF Answered
<1>5. LinkedQueueInv(cs)' /\ contents' = contents
  BY <1>3, <1>4, LinkedQueueSame
<1> QED BY <1>2, <1>3, <1>5, FrontIs, BackIs

LEMMA LinkedQueueSearch ==
  ASSUME kind = Q, kind' = Q, NEW cs, LinkedQueueInv(cs), NEW x, LinkedQueue!search(x)
  PROVE  LinkedQueueInv(cs)' /\ Sequence!search("list", x)
<1>1. PICK c : c = cs["list"]
  OBVIOUS
<1>2. Held("list", c) /\ Known(Q, cs, "list", c) /\ LinkedQueue!nodes = c
  BY <1>1, LinkedQueueHeld, LinkedQueueKnown
<1>3. LinkedQueue!FirstWith(info, c, x) = Find(N!Values(info, c), x)
  <2>1. LinkedQueue!FirstWith(info, c, x) = N!FirstWith(info, c, x)
    BY Zenon DEF LinkedQueue!FirstWith, N!FirstWith, LinkedQueue!SelectInSeq, N!SelectInSeq,
       LinkedQueue!Min, N!Min
  <2> QED BY <2>1, <1>2, FirstWithIsFind DEF Known
<1>4. /\ UNCHANGED <<info, link, head, tail>>
      /\ reply' = <<"list", "search", IF Find(N!Values(info, c), x) # 0 THEN "found" ELSE "missing", x>>
  BY <1>2, <1>3, Zenon DEF LinkedQueue!search, LinkedQueue!Answers, LinkedQueue!Queue
<1>5. Answered'
  BY <1>4 DEF Answered
<1>6. LinkedQueueInv(cs)' /\ contents' = contents
  BY <1>4, <1>5, LinkedQueueSame
<1> QED BY <1>2, <1>4, <1>6, SearchIs

LEMMA LinkedQueueStep ==
  ASSUME kind = Q, kind' = Q, NEW cs, LinkedQueueInv(cs), LinkedQueue!Next
  PROVE  /\ \E ds : LinkedQueueInv(ds)'
         /\ UNCHANGED <<info, link, head, tail, reply>> \/ Sequence!Next
<1> DEFINE StillInv == \E ds : LinkedQueueInv(ds)'
<1>1. \A x \in Elements[Q] : x \in UNION {Elements[k] : k \in SequenceKinds}
  BY DEF SequenceKinds, LinkedKinds, Q
<1>2. "list" \in Objects
  BY DEF Objects
<1>3. CASE LinkedQueue!Ended
  <2>1. UNCHANGED <<info, link, head, tail, reply>>
    BY <1>3 DEF LinkedQueue!Ended, LinkedQueue!vars
  <2>2. LinkedQueueInv(cs)'
    BY <2>1 DEF LinkedQueueInv, Chained, Answered
  <2> QED BY <2>1, <2>2
<1>4. ASSUME LinkedQueue!initializeQueue \/ LinkedQueue!deleteQueue \/ LinkedQueue!front \/ LinkedQueue!back
      PROVE  StillInv /\ Sequence!Next
  BY <1>2, <1>4, LinkedQueueClear, LinkedQueueDelete, LinkedQueueReads, Zenon DEF Sequence!Next
<1>5. ASSUME NEW x \in Elements[Q], LinkedQueue!search(x)
      PROVE  StillInv /\ Sequence!Next
  BY <1>1, <1>2, <1>5, LinkedQueueSearch, Zenon DEF Sequence!Next
<1>6. ASSUME NEW x \in Elements[Q], NEW a \in Addresses[Q], LinkedQueue!addQueue(x, a)
      PROVE  StillInv /\ Sequence!Next
  BY <1>1, <1>2, <1>6, LinkedQueueAdd, Zenon DEF Sequence!Next
<1> HIDE DEF StillInv
<1>7. LinkedQueue!Ended \/ (StillInv /\ Sequence!Next)
  BY <1>4, <1>5, <1>6, Zenon DEF LinkedQueue!Next, Q
<1> QED BY <1>3, <1>7 DEF StillInv
=============================================================================
