-------------------- MODULE HyperContainerManagerProofs --------------------
(***************************************************************************)
(* Proofs about the registry of hypercontainers, for every granularity,    *)
(* address space, set of request sizes and pattern of foreign allocations: *)
(* hypercontainers lie one above the other in the order of the registry,   *)
(* the registry has room for the next one, no frame has two owners, and    *)
(* the OS has reserved exactly the registered ranges.                      *)
(*                                                                         *)
(* RangesAscend alone is not inductive: the next range is put where the    *)
(* loop of vccalloc has got to, so the invariant must also say that the    *)
(* loop never falls below the end of the last hypercontainer, and asks the *)
(* OS to choose only when the registry is empty.  The other three rest on  *)
(* it: that the bases differ is what makes a release by address exact.     *)
(***************************************************************************)
EXTENDS HyperContainerManager, TLAPS

(* The types the argument needs. *)
RegistryType ==
  /\ pointers \in Seq(Nat)
  /\ hypers \in Seq([size : Nat, frames : SUBSET Frames])
  /\ want \in Nat /\ requested \in Nat
  /\ held \subseteq Frames

LoopAboveLast ==
  pc = "reserving" =>
    /\ want > 0
    /\ pointers # <<>> => requested >= AboveLast

RangesIInv == RegistryType /\ RangesAscend /\ LoopAboveLast

-----------------------------------------------------------------------------
(* A container size is positive: no request is rounded down to nothing. *)
LEMMA SizeForPositive ==
  ASSUME NEW d \in Nat, d > 0
  PROVE  SizeFor(d) \in Nat /\ SizeFor(d) > 0
<1> DEFINE q == d \div Granularity
<1>1. Granularity \in Nat /\ Granularity > 0
  BY ManagerAssumption
<1>2. q \in Nat
  BY <1>1
<1>3. (q + 1) * Granularity \in Nat /\ (q + 1) * Granularity > 0
  <2>1. (q + 1) * Granularity = q * Granularity + Granularity
    BY <1>1, <1>2
  <2>2. q * Granularity \in Nat
    BY <1>1, <1>2
  <2> QED BY <1>1, <2>1, <2>2
<1> QED BY <1>3 DEF SizeFor

(* What the two memmove calls of HyperContainerFree leave behind. *)
LEMMA RemoveEntryProperties ==
  ASSUME NEW S, NEW s \in Seq(S), NEW i \in 1..Len(s)
  PROVE  /\ RemoveEntry(s, i) \in Seq(S)
         /\ Len(RemoveEntry(s, i)) = Len(s) - 1
         /\ \A k \in 1..Len(s) - 1 :
              RemoveEntry(s, i)[k] = s[IF k < i THEN k ELSE k + 1]
<1> DEFINE r == RemoveEntry(s, i)
           n == Len(s) - 1
<1>1. n \in Nat
  OBVIOUS
<1>2. r = [k \in 1..n |-> IF k < i THEN s[k] ELSE s[k + 1]]
  BY DEF RemoveEntry
<1>3. \A k \in 1..n : (IF k < i THEN s[k] ELSE s[k + 1]) \in S
  OBVIOUS
<1>4. r \in [1..n -> S]
  BY <1>2, <1>3
<1>5. r \in Seq(S) /\ Len(r) = n
  BY <1>1, <1>4
<1> QED BY <1>2, <1>5

-----------------------------------------------------------------------------
LEMMA RangesInit == Init => RangesIInv
<1> SUFFICES ASSUME Init PROVE RangesIInv
  OBVIOUS
<1>1. RegistryType
  BY DEF Init, RegistryType
<1>2. RangesAscend
  BY DEF Init, RangesAscend, Indices
<1>3. LoopAboveLast
  BY DEF Init, LoopAboveLast
<1> QED BY <1>1, <1>2, <1>3 DEF RangesIInv

(* What the invariant says of the entries, index by index. *)
LEMMA Entrywise ==
  ASSUME RangesIInv
  PROVE  /\ Len(pointers) \in Nat /\ Len(hypers) = Len(pointers)
         /\ \A i \in 1..Len(pointers) :
              /\ pointers[i] \in Nat
              /\ hypers[i] \in [size : Nat, frames : SUBSET Frames]
              /\ hypers[i].size \in Nat /\ hypers[i].size > 0
         /\ \A i, j \in 1..Len(pointers) : i < j => pointers[i] + hypers[i].size <= pointers[j]
         /\ pointers # <<>> => /\ Len(pointers) > 0
                               /\ AboveLast = pointers[Len(pointers)] + hypers[Len(pointers)].size
<1>1. RegistryType /\ RangesAscend
  BY DEF RangesIInv
<1>2. pointers \in Seq(Nat) /\ hypers \in Seq([size : Nat, frames : SUBSET Frames])
  BY <1>1 DEF RegistryType
<1>3. Len(pointers) \in Nat /\ Len(hypers) = Len(pointers)
  BY <1>1, <1>2 DEF RangesAscend
<1>4. \A i \in 1..Len(pointers) : pointers[i] \in Nat /\ hypers[i] \in [size : Nat, frames : SUBSET Frames]
  <2>1. ASSUME NEW T, NEW s \in Seq(T), NEW i \in 1..Len(s) PROVE s[i] \in T
    OBVIOUS
  <2>2. \A i \in 1..Len(pointers) : pointers[i] \in Nat
    BY <1>2, <2>1, Zenon
  <2>3. \A i \in 1..Len(hypers) : hypers[i] \in [size : Nat, frames : SUBSET Frames]
    BY <1>2, <2>1, Zenon
  <2> QED BY <1>3, <2>2, <2>3
<1>5. \A i \in 1..Len(pointers) : hypers[i].size > 0
  BY <1>1 DEF RangesAscend, Indices
<1>6. \A i, j \in 1..Len(pointers) : i < j => pointers[i] + hypers[i].size <= pointers[j]
  BY <1>1 DEF RangesAscend, Indices
<1>7. pointers # <<>> => Len(pointers) > 0
  BY <1>2
<1>8. \A i \in 1..Len(pointers) : hypers[i].size \in Nat
  BY <1>4
<1>9. pointers # <<>> => AboveLast = pointers[Len(pointers)] + hypers[Len(pointers)].size
  BY DEF AboveLast
<1>10. \A i \in 1..Len(pointers) :
         /\ pointers[i] \in Nat
         /\ hypers[i] \in [size : Nat, frames : SUBSET Frames]
         /\ hypers[i].size \in Nat /\ hypers[i].size > 0
  BY <1>4, <1>5, <1>8, Zenon
<1> QED BY <1>3, <1>6, <1>7, <1>9, <1>10, Zenon

(* The end of a vccalloc, wherever above the last hypercontainer its range *)
(* was granted.                                                            *)
LEMMA InsertKeepsRanges ==
  ASSUME RangesIInv, pc = "reserving", NEW a \in Nat,
         pointers # <<>> => a >= AboveLast,
         insert(a)
  PROVE  RangesIInv'
<1>1. CASE pc' = "no memory for the registry" /\ UNCHANGED registry
  <2>1. UNCHANGED <<pointers, hypers, want, requested, held>>
    BY <1>1 DEF insert, registry, request
  <2> QED BY <1>1, <2>1 DEF RangesIInv, RegistryType, RangesAscend, LoopAboveLast, Indices
<1>2. CASE /\ pointers' = Append(pointers, a)
           /\ hypers' = Append(hypers, [size |-> SizeFor(want), frames |-> {}])
           /\ pc' = "idle"
  <2> DEFINE n == Len(pointers)
             h == [size |-> SizeFor(want), frames |-> {}]
  <2>1. want \in Nat /\ want > 0 /\ requested \in Nat /\ held \subseteq Frames
        /\ pointers \in Seq(Nat) /\ hypers \in Seq([size : Nat, frames : SUBSET Frames])
    BY DEF RangesIInv, RegistryType, LoopAboveLast
  <2>2. h \in [size : Nat, frames : SUBSET Frames] /\ h.size > 0
    BY <2>1, SizeForPositive
  <2>3. RegistryType'
    <3> HIDE DEF h
    <3>1. pointers' \in Seq(Nat) /\ hypers' \in Seq([size : Nat, frames : SUBSET Frames])
      BY <1>2, <2>1, <2>2 DEF h
    <3> QED BY <2>1, <3>1 DEF insert, request, RegistryType
  <2>4. n \in Nat /\ Len(hypers) = n
    BY Entrywise
  <2>5. /\ Len(pointers') = n + 1 /\ Len(hypers') = n + 1
        /\ \A i \in 1..n : pointers'[i] = pointers[i] /\ hypers'[i] = hypers[i]
        /\ pointers'[n + 1] = a /\ hypers'[n + 1] = h
    BY <1>2, <2>1, <2>4
  <2>6. \A i \in 1..n : /\ pointers[i] \in Nat
                        /\ hypers[i].size \in Nat /\ hypers[i].size > 0
    BY Entrywise
  <2>7. \A i, j \in 1..n : i < j => pointers[i] + hypers[i].size <= pointers[j]
    BY Entrywise
  <2>8. n > 0 => a >= pointers[n] + hypers[n].size
    BY <2>1, <2>4, Entrywise
  <2> HIDE DEF n, h
  <2>9. ASSUME NEW i \in 1..n + 1, NEW j \in 1..n + 1, i < j
        PROVE  pointers'[i] + hypers'[i].size <= pointers'[j]
    <3>1. i \in 1..n /\ n > 0 /\ n \in 1..n
      BY <2>4, <2>9
    <3>2. CASE j \in 1..n
      BY <2>5, <2>7, <2>9, <3>1, <3>2
    <3>3. CASE j = n + 1
      <4>1. pointers[i] + hypers[i].size <= pointers[n] + hypers[n].size
        <5>1. CASE i = n
          BY <5>1, <2>6, <3>1
        <5>2. CASE i # n
          <6>1. i < n
            BY <5>2, <3>1, <2>4
          <6>2. pointers[i] + hypers[i].size <= pointers[n]
            BY <2>7, <3>1, <6>1
          <6> QED BY <2>6, <3>1, <6>2
        <5> QED BY <5>1, <5>2
      <4> QED BY <2>5, <2>6, <2>8, <3>1, <3>3, <4>1
    <3> QED BY <2>4, <2>9, <3>2, <3>3
  <2>10. \A i \in 1..n + 1 : hypers'[i].size > 0
    BY <2>2, <2>4, <2>5, <2>6
  <2>11. RangesAscend'
    BY <2>5, <2>9, <2>10 DEF RangesAscend, Indices
  <2> QED BY <1>2, <2>3, <2>11 DEF RangesIInv, LoopAboveLast
<1> QED BY <1>1, <1>2 DEF insert

(* Freeing a hypercontainer keeps the order of the others. *)
LEMMA FreeKeepsRanges ==
  ASSUME RangesIInv, NEW a \in Granules, vccfree(a)
  PROVE  RangesIInv'
<1> DEFINE H == [size : Nat, frames : SUBSET Frames]
           n == Len(pointers) - 1
<1>1. PICK i \in 1..Len(pointers) :
        /\ held' = held \ hypers[i].frames
        /\ pointers' = RemoveEntry(pointers, i)
        /\ hypers' = RemoveEntry(hypers, i)
  BY DEF vccfree, Indices
<1> DEFINE old(k) == IF k < i THEN k ELSE k + 1
<1>2. pointers \in Seq(Nat) /\ hypers \in Seq(H) /\ want \in Nat /\ requested \in Nat
      /\ held \subseteq Frames /\ Len(pointers) \in Nat /\ Len(hypers) = Len(pointers)
  BY Entrywise DEF RangesIInv, RegistryType
<1>3. /\ pointers' \in Seq(Nat) /\ Len(pointers') = n
      /\ \A k \in 1..n : pointers'[k] = pointers[old(k)]
  <2> HIDE DEF H
  <2> QED BY <1>1, <1>2, RemoveEntryProperties
<1>4. /\ hypers' \in Seq(H) /\ Len(hypers') = n
      /\ \A k \in 1..n : hypers'[k] = hypers[old(k)]
  <2> HIDE DEF H
  <2>1. hypers \in Seq(H) /\ i \in 1..Len(hypers) /\ Len(hypers) - 1 = n
    BY <1>1, <1>2
  <2>2. /\ RemoveEntry(hypers, i) \in Seq(H)
        /\ Len(RemoveEntry(hypers, i)) = Len(hypers) - 1
        /\ \A k \in 1..Len(hypers) - 1 :
             RemoveEntry(hypers, i)[k] = hypers[IF k < i THEN k ELSE k + 1]
    BY <2>1, RemoveEntryProperties
  <2>3. hypers' = RemoveEntry(hypers, i)
    BY <1>1
  <2> HIDE DEF n
  <2> QED BY ONLY <2>1, <2>2, <2>3
<1>5. /\ \A k \in 1..n : old(k) \in 1..Len(pointers)
      /\ \A j, k \in 1..n : j < k => old(j) < old(k)
  BY <1>2
<1>6. RangesAscend'
  <2>1. ASSUME NEW j \in 1..n, NEW k \in 1..n, j < k
        PROVE  pointers'[j] + hypers'[j].size <= pointers'[k]
    <3>1. pointers'[j] = pointers[old(j)] /\ hypers'[j] = hypers[old(j)] /\ pointers'[k] = pointers[old(k)]
      BY <1>3, <1>4
    <3>2. old(j) \in 1..Len(pointers) /\ old(k) \in 1..Len(pointers) /\ old(j) < old(k)
      BY <1>5, <2>1
    <3> HIDE DEF old
    <3> QED BY <3>1, <3>2, Entrywise
  <2>2. ASSUME NEW k \in 1..n PROVE hypers'[k].size > 0
    <3>1. hypers'[k] = hypers[old(k)] /\ old(k) \in 1..Len(pointers)
      BY <1>4, <1>5
    <3> HIDE DEF old
    <3> QED BY <3>1, Entrywise
  <2> QED BY <1>3, <1>4, <2>1, <2>2 DEF RangesAscend, Indices
<1>7. pc' = "idle" /\ want' = want /\ requested' = requested
  BY DEF vccfree, request
<1>8. RegistryType'
  BY <1>1, <1>2, <1>3, <1>4, <1>7 DEF RegistryType
<1> QED BY <1>6, <1>7, <1>8 DEF RangesIInv, LoopAboveLast

(* The frames of one hypercontainer are no matter for the order of all. *)
LEMMA FramesKeepRanges ==
  ASSUME RangesIInv, NEW a \in Granules, NEW f \in Frames,
         TakeFrame(a, f) \/ ReturnFrame(a, f)
  PROVE  RangesIInv'
<1> DEFINE H == [size : Nat, frames : SUBSET Frames]
<1>0. \A k \in 1..Len(pointers) : hypers[k].frames \subseteq Frames
  BY Entrywise
<1>1. PICK i \in 1..Len(pointers), S \in SUBSET Frames :
         hypers' = [hypers EXCEPT ![i].frames = S]
  BY <1>0 DEF TakeFrame, ReturnFrame, Indices
<1>2. held' \subseteq Frames /\ UNCHANGED <<pointers, pc, want, requested>> /\ pc = "idle"
  BY DEF RangesIInv, RegistryType, TakeFrame, ReturnFrame, request
<1>3. hypers \in Seq(H) /\ pointers \in Seq(Nat) /\ want \in Nat /\ requested \in Nat
  BY DEF RangesIInv, RegistryType
<1>4. hypers[i] \in H /\ S \subseteq Frames
  BY <1>1, Entrywise
<1>5. hypers' = [hypers EXCEPT ![i] = [hypers[i] EXCEPT !.frames = S]]
  BY <1>1
<1>6. [hypers[i] EXCEPT !.frames = S] \in H /\ [hypers[i] EXCEPT !.frames = S].size = hypers[i].size
  BY <1>4
<1>7. hypers' \in Seq(H)
  <2>1. ASSUME NEW T, NEW s \in Seq(T), NEW k \in 1..Len(s), NEW e \in T
        PROVE  [s EXCEPT ![k] = e] \in Seq(T)
    BY <2>1
  <2>2. Len(hypers) = Len(pointers)
    BY Entrywise
  <2> HIDE DEF H
  <2> QED BY <1>3, <1>5, <1>6, <2>1, <2>2
<1>8. Len(hypers') = Len(hypers) /\ \A k \in 1..Len(pointers) : hypers'[k].size = hypers[k].size
  <2>1. Len(hypers') = Len(hypers) /\ \A k \in 1..Len(hypers) : k # i => hypers'[k] = hypers[k]
    BY <1>3, <1>5
  <2>2. Len(hypers) = Len(pointers)
    BY Entrywise
  <2>3. hypers'[i].size = hypers[i].size
    BY <1>3, <1>5, <1>6, <2>2
  <2> QED BY <2>1, <2>2, <2>3
<1>9. RangesAscend'
  BY <1>2, <1>8, Entrywise DEF RangesAscend, Indices
<1> QED BY <1>2, <1>3, <1>7, <1>9 DEF RangesIInv, RegistryType, LoopAboveLast

-----------------------------------------------------------------------------
LEMMA RangesStep == RangesIInv /\ [Next]_vars => RangesIInv'
<1> SUFFICES ASSUME RangesIInv, [Next]_vars PROVE RangesIInv'
  OBVIOUS
<1>1. ASSUME NEW d \in Requests, vccalloc(d) PROVE RangesIInv'
  <2>1. d \in Nat /\ d > 0
    BY ManagerAssumption
  <2>2. pointers # <<>> => AboveLast \in Nat
    BY Entrywise
  <2>3. requested' \in Nat /\ (pointers # <<>> => requested' >= AboveLast)
    BY <1>1, <2>2 DEF vccalloc
  <2>4. want' = d /\ UNCHANGED <<pointers, hypers, held>>
    BY <1>1 DEF vccalloc, registry, os
  <2> QED BY <2>1, <2>3, <2>4
          DEF RangesIInv, RegistryType, RangesAscend, LoopAboveLast, AboveLast, Indices
<1>2. CASE ReserveAnywhere
  <2>1. PICK a \in Granules : insert(a)
    BY <1>2 DEF ReserveAnywhere
  <2>2. a \in Nat
    BY ManagerAssumption DEF Granules
  <2>3. pointers = <<>>
    <3>1. SUFFICES ASSUME pointers # <<>> PROVE FALSE
      OBVIOUS
    <3>2. AboveLast \in Nat /\ AboveLast > 0
      BY <3>1, Entrywise
    <3>3. requested >= AboveLast /\ requested = 0
      BY <1>2, <3>1 DEF ReserveAnywhere, RangesIInv, LoopAboveLast
    <3> QED BY <3>2, <3>3
  <2> QED BY <1>2, <2>1, <2>2, <2>3, InsertKeepsRanges DEF ReserveAnywhere
<1>3. CASE ReserveThere
  <2>1. pc = "reserving" /\ insert(requested)
    BY <1>3 DEF ReserveThere
  <2>2. requested \in Nat /\ (pointers # <<>> => requested >= AboveLast)
    BY <2>1 DEF RangesIInv, RegistryType, LoopAboveLast
  <2> QED BY <2>1, <2>2, InsertKeepsRanges
<1>4. CASE Retry
  <2>1. requested' \in Nat /\ requested' >= requested
    BY <1>4, ManagerAssumption DEF Retry, NextAttempt, RangesIInv, RegistryType
  <2>2. pointers # <<>> => AboveLast \in Nat
    BY Entrywise
  <2>3. UNCHANGED <<pointers, hypers, want, held, pc>> /\ pc = "reserving"
    BY <1>4 DEF Retry, registry, os
  <2>4. pointers # <<>> => requested >= AboveLast
    BY <2>3 DEF RangesIInv, LoopAboveLast
  <2>5. requested \in Nat
    BY DEF RangesIInv, RegistryType
  <2>6. pointers # <<>> => requested' >= AboveLast
    BY <2>1, <2>2, <2>4, <2>5
  <2> QED BY <2>1, <2>3, <2>6
          DEF RangesIInv, RegistryType, RangesAscend, LoopAboveLast, AboveLast, Indices
<1>5. ASSUME NEW a \in Granules, NEW f \in Frames, TakeFrame(a, f) \/ ReturnFrame(a, f)
      PROVE  RangesIInv'
  BY <1>5, FramesKeepRanges
<1>6. ASSUME NEW a \in Granules, vccfree(a) PROVE RangesIInv'
  BY <1>6, FreeKeepsRanges
<1>7. ASSUME NEW a \in Granules, CallUnregistered(a) PROVE RangesIInv'
  <2>1. UNCHANGED <<pointers, hypers, want, requested, held>> /\ pc' # "reserving"
    BY <1>7 DEF CallUnregistered, registry, request, os
  <2> QED BY <2>1 DEF RangesIInv, RegistryType, RangesAscend, LoopAboveLast, Indices
<1>8. ASSUME NEW g \in Granules, Foreign(g) PROVE RangesIInv'
  <2>1. UNCHANGED <<pointers, hypers, want, requested, held, pc>> /\ pc = "idle"
    BY <1>8 DEF Foreign, registry, request
  <2> QED BY <2>1 DEF RangesIInv, RegistryType, RangesAscend, LoopAboveLast, Indices
<1>9. CASE UNCHANGED vars
  <2>1. UNCHANGED <<pointers, hypers, want, requested, held, pc>>
    BY <1>9 DEF vars, registry, request, os
  <2> QED BY <2>1 DEF RangesIInv, RegistryType, RangesAscend, LoopAboveLast, AboveLast, Indices
<1> QED BY <1>1, <1>2, <1>3, <1>4, <1>5, <1>6, <1>7, <1>8, <1>9 DEF Next, Ended

(* Hypercontainers never overlap and the registry is always in the order   *)
(* Search needs, whichever hypercontainers were freed before and wherever  *)
(* VirtualAlloc put the others: HyperContainerManager of vcmalloc.h.       *)
THEOREM RangesAlwaysAscend == Spec => []RangesAscend
<1>1. RangesIInv => RangesAscend
  BY DEF RangesIInv
<1> QED BY <1>1, RangesInit, RangesStep, PTL DEF Spec
-----------------------------------------------------------------------------
(* The capacity is a number, and the registry is below it. *)
RoomIInv == RangesIInv /\ hypers_max \in Nat /\ RegistryHasRoom

LEMMA InsertKeepsRoom ==
  ASSUME RoomIInv, NEW a \in Nat, insert(a)
  PROVE  hypers_max' \in Nat /\ RegistryHasRoom'
<1>1. pointers \in Seq(Nat) /\ Len(pointers) \in Nat /\ hypers_max \in Nat /\ Len(pointers) < hypers_max
  BY Entrywise DEF RoomIInv, RangesIInv, RegistryType, RegistryHasRoom
<1>2. CASE UNCHANGED registry
  BY <1>1, <1>2 DEF registry, RegistryHasRoom
<1>3. CASE /\ hypers_max' = IF Full THEN hypers_max + HypersPerPage ELSE hypers_max
           /\ pointers' = Append(pointers, a)
  <2>1. Len(pointers') = Len(pointers) + 1
    BY <1>1, <1>3
  <2>2. HypersPerPage \in Nat /\ HypersPerPage > 0
    BY ManagerAssumption
  <2> QED BY <1>1, <1>3, <2>1, <2>2 DEF Full, RegistryHasRoom
<1> QED BY <1>2, <1>3 DEF insert

LEMMA FreeKeepsRoom ==
  ASSUME RoomIInv, NEW a \in Granules, vccfree(a)
  PROVE  hypers_max' \in Nat /\ RegistryHasRoom'
<1>1. pointers \in Seq(Nat) /\ Len(pointers) \in Nat /\ hypers_max \in Nat /\ Len(pointers) < hypers_max
  BY Entrywise DEF RoomIInv, RangesIInv, RegistryType, RegistryHasRoom
<1>2. PICK i \in 1..Len(pointers) : pointers' = RemoveEntry(pointers, i)
  BY DEF vccfree, Indices
<1>3. Len(pointers') = Len(pointers) - 1
  BY <1>1, <1>2, RemoveEntryProperties
<1>4. hypers_max' = hypers_max
  BY DEF vccfree
<1> QED BY <1>1, <1>3, <1>4 DEF RegistryHasRoom

LEMMA RoomStep == RoomIInv /\ [Next]_vars => RoomIInv'
<1> SUFFICES ASSUME RoomIInv, [Next]_vars PROVE RoomIInv'
  OBVIOUS
<1>1. RangesIInv'
  BY RangesStep DEF RoomIInv
<1> SUFFICES hypers_max' \in Nat /\ RegistryHasRoom'
  BY <1>1 DEF RoomIInv
<1>2. \A a \in Granules : a \in Nat
  BY DEF Granules
<1>3. requested \in Nat
  BY DEF RoomIInv, RangesIInv, RegistryType
<1>4. CASE ReserveAnywhere \/ ReserveThere
  BY <1>2, <1>3, <1>4, InsertKeepsRoom DEF ReserveAnywhere, ReserveThere
<1>5. ASSUME NEW a \in Granules, vccfree(a) PROVE hypers_max' \in Nat /\ RegistryHasRoom'
  BY <1>5, FreeKeepsRoom
<1>6. ASSUME UNCHANGED <<pointers, hypers_max>> PROVE hypers_max' \in Nat /\ RegistryHasRoom'
  BY <1>6 DEF RoomIInv, RegistryHasRoom
<1>7. ASSUME NEW d \in Requests, vccalloc(d) PROVE UNCHANGED <<pointers, hypers_max>>
  BY <1>7 DEF vccalloc, registry
<1>8. CASE Retry
  BY <1>6, <1>8 DEF Retry, registry
<1>9. ASSUME NEW a \in Granules, NEW f \in Frames, TakeFrame(a, f) \/ ReturnFrame(a, f)
      PROVE  UNCHANGED <<pointers, hypers_max>>
  BY <1>9 DEF TakeFrame, ReturnFrame
<1>10. ASSUME NEW a \in Granules, CallUnregistered(a) PROVE UNCHANGED <<pointers, hypers_max>>
  BY <1>10 DEF CallUnregistered, registry
<1>11. ASSUME NEW g \in Granules, Foreign(g) PROVE UNCHANGED <<pointers, hypers_max>>
  BY <1>11 DEF Foreign, registry
<1>12. CASE UNCHANGED vars
  BY <1>6, <1>12 DEF vars, registry
<1> QED BY <1>4, <1>5, <1>6, <1>7, <1>8, <1>9, <1>10, <1>11, <1>12 DEF Next, Ended

(* The two arrays of the registry, extended a page at a time when one      *)
(* entry short of full, never have fewer entries of room than the next     *)
(* vccalloc writes: HyperContainerManager::insert.                         *)
THEOREM RegistryAlwaysHasRoom == Spec => []RegistryHasRoom
<1>1. Init => RoomIInv
  BY RangesInit, ManagerAssumption DEF Init, RoomIInv, RegistryHasRoom
<1>2. RoomIInv => RegistryHasRoom
  BY DEF RoomIInv
<1> QED BY <1>1, <1>2, RoomStep, PTL DEF Spec

-----------------------------------------------------------------------------
(* Frames of different hypercontainers stay apart and accounted for. *)
FramesIInv == RangesIInv /\ FramesApart

(* What the two parts of FramesApart say of one frame. *)
LEMMA FrameByFrame ==
  ASSUME RangesIInv
  PROVE  FramesApart <=>
           /\ \A i, j \in Indices : \A f : f \in hypers[i].frames /\ f \in hypers[j].frames => i = j
           /\ \A f : f \in held <=> \E i \in Indices : f \in hypers[i].frames
<1>1. (\A i, j \in Indices : i # j => hypers[i].frames \cap hypers[j].frames = {})
      <=> \A i, j \in Indices : \A f : f \in hypers[i].frames /\ f \in hypers[j].frames => i = j
  OBVIOUS
<1>2. (held = UNION {hypers[i].frames : i \in Indices})
      <=> \A f : f \in held <=> \E i \in Indices : f \in hypers[i].frames
  OBVIOUS
<1> QED BY <1>1, <1>2 DEF FramesApart

LEMMA InsertKeepsFrames ==
  ASSUME FramesIInv, NEW a \in Nat, insert(a)
  PROVE  FramesApart'
<1>1. CASE UNCHANGED registry
  BY <1>1 DEF registry, insert, FramesIInv, FramesApart, Indices
<1>2. CASE /\ pointers' = Append(pointers, a)
           /\ hypers' = Append(hypers, [size |-> SizeFor(want), frames |-> {}])
  <2> DEFINE n == Len(pointers)
             h == [size |-> SizeFor(want), frames |-> {}]
  <2>1. pointers \in Seq(Nat) /\ hypers \in Seq([size : Nat, frames : SUBSET Frames])
        /\ n \in Nat /\ Len(hypers) = n
    BY Entrywise DEF FramesIInv, RangesIInv, RegistryType
  <2>2. /\ Len(pointers') = n + 1
        /\ \A i \in 1..n : hypers'[i] = hypers[i]
        /\ hypers'[n + 1] = h
    BY <1>2, <2>1
  <2>3. h.frames = {}
    OBVIOUS
  <2> HIDE DEF n, h
  <2>4. Indices' = 1..n + 1 /\ Indices = 1..n
    BY <2>2 DEF Indices, n
  <2>5. \A i \in 1..n + 1 : i \in 1..n \/ i = n + 1
    BY <2>1
  <2>6. \A i \in 1..n : i \in 1..n + 1
    BY <2>1
  <2>7. /\ \A i, j \in Indices : \A f : f \in hypers[i].frames /\ f \in hypers[j].frames => i = j
        /\ \A f : f \in held <=> \E i \in Indices : f \in hypers[i].frames
    BY FrameByFrame DEF FramesIInv
  <2>8. held' = held
    BY DEF insert
  <2>9. \A i \in Indices' : \A f : f \in hypers'[i].frames <=> i \in Indices /\ f \in hypers[i].frames
    <3> SUFFICES ASSUME NEW i \in Indices', NEW f
                 PROVE  f \in hypers'[i].frames <=> i \in Indices /\ f \in hypers[i].frames
      OBVIOUS
    <3>1. CASE i \in 1..n
      BY <2>2, <2>4, <3>1
    <3>2. CASE i = n + 1
      BY <2>1, <2>2, <2>3, <2>4, <3>2
    <3> QED BY <2>4, <2>5, <3>1, <3>2
  <2>10. \A i, j \in Indices' : \A f : f \in hypers'[i].frames /\ f \in hypers'[j].frames => i = j
    BY <2>7, <2>9, Zenon
  <2>11. \A f : f \in held' <=> \E i \in Indices' : f \in hypers'[i].frames
    BY <2>4, <2>6, <2>7, <2>8, <2>9, Zenon
  <2>12. FramesApart' <=>
           /\ \A i, j \in Indices' : \A f : f \in hypers'[i].frames /\ f \in hypers'[j].frames => i = j
           /\ \A f : f \in held' <=> \E i \in Indices' : f \in hypers'[i].frames
    BY DEF FramesApart
  <2> QED BY <2>10, <2>11, <2>12
<1> QED BY <1>1, <1>2 DEF insert
LEMMA FreeKeepsFrames ==
  ASSUME FramesIInv, NEW a \in Granules, vccfree(a)
  PROVE  FramesApart'
<1> DEFINE H == [size : Nat, frames : SUBSET Frames]
           n == Len(pointers) - 1
<1>1. PICK i \in 1..Len(pointers) :
        /\ held' = held \ hypers[i].frames
        /\ pointers' = RemoveEntry(pointers, i)
        /\ hypers' = RemoveEntry(hypers, i)
  BY DEF vccfree, Indices
<1> DEFINE old(k) == IF k < i THEN k ELSE k + 1
<1>2. pointers \in Seq(Nat) /\ hypers \in Seq(H)
      /\ Len(pointers) \in Nat /\ Len(hypers) = Len(pointers)
  BY Entrywise DEF FramesIInv, RangesIInv, RegistryType
<1>3. Len(pointers') = n
  BY <1>1, <1>2, RemoveEntryProperties
<1>4. \A k \in 1..n : hypers'[k] = hypers[old(k)]
  <2> HIDE DEF H
  <2>1. hypers \in Seq(H) /\ i \in 1..Len(hypers) /\ Len(hypers) - 1 = n
    BY <1>1, <1>2
  <2>2. \A k \in 1..Len(hypers) - 1 :
          RemoveEntry(hypers, i)[k] = hypers[IF k < i THEN k ELSE k + 1]
    BY <2>1, RemoveEntryProperties
  <2>3. hypers' = RemoveEntry(hypers, i)
    BY <1>1
  <2> HIDE DEF n
  <2> QED BY ONLY <2>1, <2>2, <2>3
<1>5. /\ \A k \in 1..n : old(k) \in Indices /\ old(k) # i
      /\ \A j, k \in 1..n : old(j) = old(k) => j = k
      /\ \A m \in Indices : m # i => \E k \in 1..n : m = old(k)
  <2>1. \A m \in Indices : m # i => (IF m < i THEN m ELSE m - 1) \in 1..n /\ m = old(IF m < i THEN m ELSE m - 1)
    BY <1>2 DEF Indices
  <2>2. \A k \in 1..n : old(k) \in Indices /\ old(k) # i
    BY <1>2 DEF Indices
  <2>3. \A j, k \in 1..n : old(j) = old(k) => j = k
    BY <1>2
  <2> HIDE DEF old
  <2>4. \A m \in Indices : m # i => \E k \in 1..n : m = old(k)
    BY <2>1
  <2> QED BY <2>2, <2>3, <2>4
<1>6. /\ \A j, k \in Indices : \A f : f \in hypers[j].frames /\ f \in hypers[k].frames => j = k
      /\ \A f : f \in held <=> \E k \in Indices : f \in hypers[k].frames
  BY FrameByFrame DEF FramesIInv
<1>7. Indices' = 1..n /\ i \in Indices
  BY <1>3 DEF Indices
<1> HIDE DEF old, n
<1>8. ASSUME NEW j \in 1..n, NEW k \in 1..n, NEW f,
             f \in hypers'[j].frames, f \in hypers'[k].frames
      PROVE  j = k
  <2>1. f \in hypers[old(j)].frames /\ f \in hypers[old(k)].frames
    BY <1>4, <1>8
  <2>2. old(j) = old(k)
    BY <1>5, <1>6, <2>1
  <2> QED BY <1>5, <2>2
<1>9. \A f : f \in held' <=> \E k \in Indices' : f \in hypers'[k].frames
  <2> SUFFICES ASSUME NEW f PROVE f \in held' <=> \E k \in Indices' : f \in hypers'[k].frames
    OBVIOUS
  <2>1. ASSUME f \in held' PROVE \E k \in Indices' : f \in hypers'[k].frames
    <3>1. f \in held /\ f \notin hypers[i].frames
      BY <1>1, <2>1
    <3>2. PICK m \in Indices : f \in hypers[m].frames /\ m # i
      BY <1>6, <3>1
    <3>3. PICK k \in 1..n : m = old(k)
      BY <1>5, <3>2
    <3> QED BY <1>4, <1>7, <3>2, <3>3
  <2>2. ASSUME NEW k \in Indices', f \in hypers'[k].frames PROVE f \in held'
    <3>1. f \in hypers[old(k)].frames /\ old(k) \in Indices /\ old(k) # i
      BY <1>4, <1>5, <1>7, <2>2
    <3>2. f \notin hypers[i].frames
      BY <1>6, <1>7, <3>1
    <3>3. f \in held
      BY <1>6, <3>1
    <3> QED BY <1>1, <3>2, <3>3
  <2> QED BY <2>1, <2>2
<1>10. FramesApart' <=>
         /\ \A j, k \in Indices' : \A f : f \in hypers'[j].frames /\ f \in hypers'[k].frames => j = k
         /\ \A f : f \in held' <=> \E k \in Indices' : f \in hypers'[k].frames
  BY DEF FramesApart
<1> QED BY <1>7, <1>8, <1>9, <1>10

(* A frame taken was nobody's, and a frame given back leaves its owner.    *)
LEMMA FrameMovesApart ==
  ASSUME FramesIInv, NEW a \in Granules, NEW f \in Frames,
         TakeFrame(a, f) \/ ReturnFrame(a, f)
  PROVE  FramesApart'
<1>1. /\ \A j, k \in Indices : \A g : g \in hypers[j].frames /\ g \in hypers[k].frames => j = k
      /\ \A g : g \in held <=> \E k \in Indices : g \in hypers[k].frames
  BY FrameByFrame DEF FramesIInv
<1>2. hypers \in Seq([size : Nat, frames : SUBSET Frames]) /\ Len(hypers) = Len(pointers)
      /\ \A k \in Indices : hypers[k] \in [size : Nat, frames : SUBSET Frames]
  BY Entrywise DEF FramesIInv, RangesIInv, RegistryType, Indices
<1>3. Indices' = Indices /\ Indices = DOMAIN hypers
  BY <1>2 DEF Indices, TakeFrame, ReturnFrame
<1>4. CASE TakeFrame(a, f)
  <2>1. PICK i \in Indices : hypers' = [hypers EXCEPT ![i].frames = @ \cup {f}]
    BY <1>4 DEF TakeFrame
  <2>2. f \notin held /\ held' = held \cup {f}
    BY <1>4 DEF TakeFrame
  <2>3. \A k \in Indices : \A g : g \in hypers'[k].frames <=> g \in hypers[k].frames \/ (k = i /\ g = f)
    BY <1>2, <1>3, <2>1
  <2>4. \A j, k \in Indices' : \A g : g \in hypers'[j].frames /\ g \in hypers'[k].frames => j = k
    BY <1>1, <1>3, <2>2, <2>3
  <2>5. \A g : g \in held' <=> \E k \in Indices' : g \in hypers'[k].frames
    BY <1>1, <1>3, <2>2, <2>3
  <2> QED BY <2>4, <2>5 DEF FramesApart
<1>5. CASE ReturnFrame(a, f)
  <2>1. PICK i \in Indices : f \in hypers[i].frames /\ hypers' = [hypers EXCEPT ![i].frames = @ \ {f}]
    BY <1>5 DEF ReturnFrame
  <2>2. held' = held \ {f}
    BY <1>5 DEF ReturnFrame
  <2>3. \A k \in Indices : \A g : g \in hypers'[k].frames <=> g \in hypers[k].frames /\ ~(k = i /\ g = f)
    BY <1>2, <1>3, <2>1
  <2>4. \A j, k \in Indices' : \A g : g \in hypers'[j].frames /\ g \in hypers'[k].frames => j = k
    BY <1>1, <1>3, <2>3
  <2>5. \A g : g \in held' <=> \E k \in Indices' : g \in hypers'[k].frames
    BY <1>1, <1>3, <2>1, <2>2, <2>3
  <2> QED BY <2>4, <2>5 DEF FramesApart
<1> QED BY <1>4, <1>5

LEMMA FramesStep == FramesIInv /\ [Next]_vars => FramesIInv'
<1> SUFFICES ASSUME FramesIInv, [Next]_vars PROVE FramesIInv'
  OBVIOUS
<1>1. RangesIInv'
  BY RangesStep DEF FramesIInv
<1> SUFFICES FramesApart'
  BY <1>1 DEF FramesIInv
<1>2. \A a \in Granules : a \in Nat
  BY DEF Granules
<1>3. requested \in Nat
  BY DEF FramesIInv, RangesIInv, RegistryType
<1>4. CASE ReserveAnywhere \/ ReserveThere
  <2>1. PICK a \in Nat : insert(a)
    BY <1>2, <1>3, <1>4 DEF ReserveAnywhere, ReserveThere
  <2> QED BY <2>1, InsertKeepsFrames
<1>5. ASSUME NEW a \in Granules, NEW f \in Frames, TakeFrame(a, f) \/ ReturnFrame(a, f)
      PROVE  FramesApart'
  BY <1>5, FrameMovesApart
<1>6. ASSUME NEW a \in Granules, vccfree(a) PROVE FramesApart'
  BY <1>6, FreeKeepsFrames
<1>7. ASSUME pointers' = pointers, hypers' = hypers, held' = held PROVE FramesApart'
  BY <1>7 DEF FramesIInv, FramesApart, Indices
<1>8. ASSUME NEW d \in Requests, vccalloc(d) PROVE FramesApart'
  <2>1. pointers' = pointers /\ hypers' = hypers /\ held' = held
    BY <1>8 DEF vccalloc, registry, os
  <2> QED BY <1>7, <2>1
<1>9. CASE Retry
  <2>1. pointers' = pointers /\ hypers' = hypers /\ held' = held
    BY <1>9 DEF Retry, registry, os
  <2> QED BY <1>7, <2>1
<1>10. ASSUME NEW a \in Granules, CallUnregistered(a) PROVE FramesApart'
  <2>1. pointers' = pointers /\ hypers' = hypers /\ held' = held
    BY <1>10 DEF CallUnregistered, registry, os
  <2> QED BY <1>7, <2>1
<1>11. ASSUME NEW g \in Granules, Foreign(g) PROVE FramesApart'
  <2>1. pointers' = pointers /\ hypers' = hypers /\ held' = held
    BY <1>11 DEF Foreign, registry
  <2> QED BY <1>7, <2>1
<1>12. CASE UNCHANGED vars
  <2>1. pointers' = pointers /\ hypers' = hypers /\ held' = held
    BY <1>12 DEF vars, registry, os
  <2> QED BY <1>7, <2>1
<1> QED BY <1>4, <1>5, <1>6, <1>8, <1>9, <1>10, <1>11, <1>12 DEF Next, Ended

(* A page frame belongs to one hypercontainer at most, and every frame the *)
(* process holds is one that the vccfree of some hypercontainer will give  *)
(* back: insert and HyperContainerFree of vcmalloc.h.                      *)
THEOREM FramesAlwaysApart == Spec => []FramesApart
<1>1. Init => FramesIInv
  BY RangesInit DEF Init, FramesIInv, FramesApart, Indices
<1>2. FramesIInv => FramesApart
  BY DEF FramesIInv
<1> QED BY <1>1, <1>2, FramesStep, PTL DEF Spec
-----------------------------------------------------------------------------
(* The range of one registered hypercontainer, and what the OS must have   *)
(* reserved unless vccalloc ended the process between the two.  The OS     *)
(* releases by base address, so no two ranges may share one.               *)
SpanOf(i) == [base |-> pointers[i], size |-> hypers[i].size]
Matching == \A r : r \in reservations <=> \E i \in Indices : r = SpanOf(i)
MatchIInv == RangesIInv /\ (pc # "no memory for the registry" => Matching)

LEMMA MatchingIsMatch ==
  Matching <=> reservations = {[base |-> pointers[i], size |-> hypers[i].size] : i \in Indices}
BY DEF Matching, SpanOf

LEMMA BasesDiffer ==
  ASSUME RangesIInv, NEW i \in Indices, NEW j \in Indices, pointers[i] = pointers[j]
  PROVE  i = j
<1>1. /\ pointers[i] \in Nat /\ pointers[j] \in Nat
      /\ hypers[i].size \in Nat /\ hypers[i].size > 0
      /\ hypers[j].size \in Nat /\ hypers[j].size > 0
  BY Entrywise DEF Indices
<1>2. ~(i < j) /\ ~(j < i)
  BY <1>1, Entrywise DEF Indices
<1> QED BY <1>2, Entrywise DEF Indices

(* The numbers up to n + 1, and a sequence with one entry more. *)
LEMMA OneMore ==
  ASSUME NEW n \in Nat
  PROVE  /\ \A i \in 1..n + 1 : i \in 1..n \/ i = n + 1
         /\ \A i \in 1..n : i \in 1..n + 1
         /\ n + 1 \in 1..n + 1
OBVIOUS

LEMMA AppendProperties ==
  ASSUME NEW T, NEW s \in Seq(T), NEW e \in T
  PROVE  /\ Len(Append(s, e)) = Len(s) + 1
         /\ \A i \in 1..Len(s) : Append(s, e)[i] = s[i]
         /\ Append(s, e)[Len(s) + 1] = e
OBVIOUS

LEMMA InsertKeepsMatch ==
  ASSUME RangesIInv, pc = "reserving", Matching, NEW a \in Nat, insert(a)
  PROVE  pc' # "no memory for the registry" => Matching'
<1> SUFFICES ASSUME pc' # "no memory for the registry" PROVE Matching'
  OBVIOUS
<1> DEFINE h == [size |-> SizeFor(want), frames |-> {}]
<1>0. PICK n \in Nat : n = Len(pointers)
  BY Entrywise
<1>1. pointers \in Seq(Nat) /\ hypers \in Seq([size : Nat, frames : SUBSET Frames])
      /\ Len(hypers) = n /\ Len(pointers) = n
  BY <1>0, Entrywise DEF RangesIInv, RegistryType
<1>2. pointers' = Append(pointers, a) /\ hypers' = Append(hypers, h)
  BY DEF insert
<1>3. h.size = SizeFor(want) /\ h \in [size : Nat, frames : SUBSET Frames]
  BY SizeForPositive DEF LoopAboveLast, RangesIInv, RegistryType
<1> HIDE DEF h
<1>4. /\ Len(pointers') = n + 1
      /\ \A i \in 1..n : pointers'[i] = pointers[i] /\ hypers'[i] = hypers[i]
      /\ pointers'[n + 1] = a /\ hypers'[n + 1] = h
  <2> DEFINE H == [size : Nat, frames : SUBSET Frames]
  <2>1. h \in H
    BY <1>3
  <2>2. hypers \in Seq(H) /\ Len(hypers) = n
    BY <1>1
  <2> HIDE DEF H
  <2>3. /\ Len(pointers') = n + 1
        /\ \A i \in 1..n : pointers'[i] = pointers[i]
        /\ pointers'[n + 1] = a
    <3>1. pointers \in Seq(Nat) /\ Len(pointers) = n
      BY <1>1
    <3>2. pointers' = Append(pointers, a)
      BY <1>2
    <3>3. /\ Len(Append(pointers, a)) = Len(pointers) + 1
          /\ \A i \in 1..Len(pointers) : Append(pointers, a)[i] = pointers[i]
          /\ Append(pointers, a)[Len(pointers) + 1] = a
      BY <3>1, AppendProperties
    <3> QED BY ONLY <3>1, <3>2, <3>3
  <2>4. /\ \A i \in 1..n : hypers'[i] = hypers[i]
        /\ hypers'[n + 1] = h
    <3>1. hypers' = Append(hypers, h)
      BY <1>2
    <3> HIDE DEF h
    <3>2. /\ \A i \in 1..Len(hypers) : Append(hypers, h)[i] = hypers[i]
          /\ Append(hypers, h)[Len(hypers) + 1] = h
      BY ONLY <2>1, <2>2, AppendProperties
    <3> QED BY ONLY <2>2, <3>1, <3>2
  <2> QED BY <2>3, <2>4
<1>5. reservations' = reservations \cup {[base |-> a, size |-> SizeFor(want)]}
  BY DEF insert
<1>6. Indices' = 1..n + 1 /\ Indices = 1..n
  BY <1>1, <1>4 DEF Indices
<1>7. /\ \A i \in 1..n + 1 : i \in 1..n \/ i = n + 1
      /\ \A i \in 1..n : i \in 1..n + 1
      /\ n + 1 \in 1..n + 1
  BY <1>0, OneMore
<1>8. \A i \in 1..n : SpanOf(i)' = SpanOf(i)
  BY <1>4 DEF SpanOf
<1>9. SpanOf(n + 1)' = [base |-> a, size |-> SizeFor(want)]
  BY <1>4, <1>3 DEF SpanOf
<1>10. ASSUME NEW r PROVE r \in reservations' <=> \E i \in Indices' : r = SpanOf(i)'
  <2>1. r \in reservations' <=> r \in reservations \/ r = SpanOf(n + 1)'
    BY <1>5, <1>9
  <2>2. r \in reservations <=> \E i \in 1..n : r = SpanOf(i)'
    BY <1>6, <1>8 DEF Matching
  <2>3. ASSUME r \in reservations' PROVE \E i \in 1..n + 1 : r = SpanOf(i)'
    <3>1. CASE r = SpanOf(n + 1)'
      BY <1>7, <3>1
    <3>2. CASE r \in reservations
      <4>1. PICK i \in 1..n : r = SpanOf(i)'
        BY <2>2, <3>2
      <4> QED BY <1>7, <4>1
    <3> QED BY <2>1, <2>3, <3>1, <3>2
  <2>4. ASSUME NEW i \in 1..n + 1, r = SpanOf(i)' PROVE r \in reservations'
    <3>1. CASE i = n + 1
      BY <2>1, <2>4, <3>1
    <3>2. CASE i \in 1..n
      BY <2>1, <2>2, <2>4, <3>2
    <3> QED BY <1>7, <3>1, <3>2
  <2> QED BY <1>6, <2>3, <2>4
<1> QED BY <1>10 DEF Matching

LEMMA FreeKeepsMatch ==
  ASSUME RangesIInv, Matching, NEW a \in Granules, vccfree(a)
  PROVE  Matching'
<1> DEFINE H == [size : Nat, frames : SUBSET Frames]
           n == Len(pointers) - 1
<1>1. PICK i \in 1..Len(pointers) :
        /\ pointers[i] = a
        /\ reservations' = ReleasedAt(a)
        /\ pointers' = RemoveEntry(pointers, i)
        /\ hypers' = RemoveEntry(hypers, i)
  BY DEF vccfree, Indices
<1> DEFINE old(k) == IF k < i THEN k ELSE k + 1
<1>2. pointers \in Seq(Nat) /\ hypers \in Seq(H)
      /\ Len(pointers) \in Nat /\ Len(hypers) = Len(pointers)
  BY Entrywise DEF RangesIInv, RegistryType
<1>3. Len(pointers') = n /\ \A k \in 1..n : pointers'[k] = pointers[old(k)]
  BY <1>1, <1>2, RemoveEntryProperties
<1>4. \A k \in 1..n : hypers'[k] = hypers[old(k)]
  <2> HIDE DEF H
  <2>1. hypers \in Seq(H) /\ i \in 1..Len(hypers) /\ Len(hypers) - 1 = n
    BY <1>1, <1>2
  <2>2. \A k \in 1..Len(hypers) - 1 :
          RemoveEntry(hypers, i)[k] = hypers[IF k < i THEN k ELSE k + 1]
    BY <2>1, RemoveEntryProperties
  <2>3. hypers' = RemoveEntry(hypers, i)
    BY <1>1
  <2> HIDE DEF n
  <2> QED BY ONLY <2>1, <2>2, <2>3
<1>5. /\ \A k \in 1..n : old(k) \in Indices /\ old(k) # i
      /\ \A m \in Indices : m # i => \E k \in 1..n : m = old(k)
  <2>1. \A m \in Indices : m # i => (IF m < i THEN m ELSE m - 1) \in 1..n /\ m = old(IF m < i THEN m ELSE m - 1)
    BY <1>2 DEF Indices
  <2>2. \A k \in 1..n : old(k) \in Indices /\ old(k) # i
    BY <1>2 DEF Indices
  <2> HIDE DEF old
  <2>3. \A m \in Indices : m # i => \E k \in 1..n : m = old(k)
    BY <2>1
  <2> QED BY <2>2, <2>3
<1>6. Indices' = 1..n /\ i \in Indices
  BY <1>3 DEF Indices
<1> HIDE DEF old, n
<1>7. \A k \in 1..n : SpanOf(k)' = SpanOf(old(k))
  BY <1>3, <1>4 DEF SpanOf
<1>8. \A m \in Indices : SpanOf(m).base = a <=> m = i
  BY <1>1, <1>6, BasesDiffer DEF SpanOf
<1>9. \A r : r \in reservations' <=> r \in reservations /\ r.base # a
  BY <1>1 DEF ReleasedAt
<1>10. ASSUME NEW r, r \in reservations' PROVE \E k \in Indices' : r = SpanOf(k)'
  <2>1. r \in reservations /\ r.base # a
    BY <1>9, <1>10
  <2>2. PICK m \in Indices : r = SpanOf(m)
    BY <2>1 DEF Matching
  <2>3. m # i
    BY <1>8, <2>1, <2>2
  <2>4. PICK k \in 1..n : m = old(k)
    BY <1>5, <2>3
  <2> QED BY <1>6, <1>7, <2>2, <2>4
<1>11. ASSUME NEW r, NEW k \in Indices', r = SpanOf(k)' PROVE r \in reservations'
  <2>1. old(k) \in Indices /\ old(k) # i /\ r = SpanOf(old(k))
    BY <1>5, <1>6, <1>7, <1>11
  <2>2. r \in reservations /\ r.base # a
    BY <1>8, <2>1 DEF Matching
  <2> QED BY <1>9, <2>2
<1> QED BY <1>10, <1>11 DEF Matching

(* The frames of one hypercontainer are no matter for its range. *)
LEMMA FramesKeepMatch ==
  ASSUME RangesIInv, Matching, NEW a \in Granules, NEW f \in Frames,
         TakeFrame(a, f) \/ ReturnFrame(a, f)
  PROVE  Matching'
<1>1. Len(hypers) = Len(pointers) /\ hypers \in Seq([size : Nat, frames : SUBSET Frames])
      /\ \A k \in Indices : hypers[k] \in [size : Nat, frames : SUBSET Frames]
  BY Entrywise DEF RangesIInv, RegistryType, Indices
<1>2. Indices = DOMAIN hypers
  BY <1>1 DEF Indices
<1>3. pointers' = pointers /\ reservations' = reservations
  BY DEF TakeFrame, ReturnFrame
<1>4. PICK i \in Indices : \E S : hypers' = [hypers EXCEPT ![i].frames = S]
  BY DEF TakeFrame, ReturnFrame
<1>5. \A k \in Indices : hypers'[k].size = hypers[k].size
  BY <1>1, <1>2, <1>4
<1>6. Indices' = Indices
  BY <1>3 DEF Indices
<1>7. \A k \in Indices : SpanOf(k)' = SpanOf(k)
  BY <1>3, <1>5 DEF SpanOf
<1> QED BY <1>3, <1>6, <1>7 DEF Matching

LEMMA MatchStep == MatchIInv /\ [Next]_vars => MatchIInv'
<1> SUFFICES ASSUME MatchIInv, [Next]_vars PROVE MatchIInv'
  OBVIOUS
<1>1. RangesIInv /\ RangesIInv'
  BY RangesStep DEF MatchIInv
<1> DEFINE Goal == pc' # "no memory for the registry" => Matching'
<1> SUFFICES Goal
  BY <1>1 DEF MatchIInv
<1>2. pc \in {"idle", "reserving"} => Matching
  BY DEF MatchIInv
<1>3. CASE ReserveAnywhere \/ ReserveThere
  <2>1. PICK a \in Nat : insert(a)
    BY <1>1, <1>3 DEF ReserveAnywhere, ReserveThere, Granules, RangesIInv, RegistryType
  <2>2. pc = "reserving" /\ Matching
    BY <1>2, <1>3 DEF ReserveAnywhere, ReserveThere
  <2> QED BY <1>1, <2>1, <2>2, InsertKeepsMatch
<1>4. ASSUME NEW a \in Granules, NEW f \in Frames, TakeFrame(a, f) \/ ReturnFrame(a, f) PROVE Goal
  <2>1. Matching
    BY <1>2, <1>4 DEF TakeFrame, ReturnFrame
  <2> QED BY <1>1, <1>4, <2>1, FramesKeepMatch
<1>5. ASSUME NEW a \in Granules, vccfree(a) PROVE Goal
  <2>1. Matching
    BY <1>2, <1>5 DEF vccfree
  <2> QED BY <1>1, <1>5, <2>1, FreeKeepsMatch
<1>6. ASSUME pc \in {"idle", "reserving"} \/ pc' = pc,
             pointers' = pointers, hypers' = hypers, reservations' = reservations
      PROVE  Goal
  <2>1. Matching' <=> Matching
    BY <1>6 DEF Matching, SpanOf, Indices
  <2> QED BY <1>2, <1>6, <2>1 DEF MatchIInv
<1> HIDE DEF Goal
<1>7. ASSUME NEW d \in Requests, vccalloc(d) PROVE Goal
  <2>1. pc = "idle" /\ pointers' = pointers /\ hypers' = hypers /\ reservations' = reservations
    BY <1>7 DEF vccalloc, registry, os
  <2> QED BY <1>6, <2>1
<1>8. CASE Retry
  <2>1. pc = "reserving" /\ pointers' = pointers /\ hypers' = hypers /\ reservations' = reservations
    BY <1>8 DEF Retry, registry, os
  <2> QED BY <1>6, <2>1
<1>9. ASSUME NEW a \in Granules, CallUnregistered(a) PROVE Goal
  <2>1. pc = "idle" /\ pointers' = pointers /\ hypers' = hypers /\ reservations' = reservations
    BY <1>9 DEF CallUnregistered, registry, os
  <2> QED BY <1>6, <2>1
<1>10. ASSUME NEW g \in Granules, Foreign(g) PROVE Goal
  <2>1. pc' = pc /\ pointers' = pointers /\ hypers' = hypers /\ reservations' = reservations
    BY <1>10 DEF Foreign, registry
  <2> QED BY <1>6, <2>1
<1>11. CASE UNCHANGED vars
  <2>1. pc' = pc /\ pointers' = pointers /\ hypers' = hypers /\ reservations' = reservations
    BY <1>11 DEF vars, registry, os
  <2> QED BY <1>6, <2>1
<1> QED BY <1>3, <1>4, <1>5, <1>7, <1>8, <1>9, <1>10, <1>11 DEF Next, Ended

(* Between calls the ranges the OS has reserved are those of the           *)
(* registered hypercontainers: vccalloc leaks none on the way through its  *)
(* retries, and vccfree releases the range of the entry it removes and no  *)
(* other (HyperContainerAlloc and HyperContainerFree of vcmalloc.h).       *)
THEOREM ReservationsAlwaysMatch == Spec => []ReservationsMatch
<1>1. Init => MatchIInv
  BY RangesInit DEF Init, MatchIInv, Matching, Indices
<1>2. MatchIInv => ReservationsMatch
  BY MatchingIsMatch DEF MatchIInv, ReservationsMatch
<1> QED BY <1>1, <1>2, MatchStep, PTL DEF Spec
=============================================================================
