------------------------------- MODULE Search -------------------------------
(***************************************************************************)
(* vcma::Search (libs_src/vcmalloc.h): the lookup of an address in an      *)
(* array of addresses.  Both registries of the allocator use it: the       *)
(* manager to find a hypercontainer by its base address, a hypercontainer  *)
(* to find a container by the value of the user's pointer.                 *)
(*                                                                         *)
(* One step of the specification is one iteration of one of the three      *)
(* while loops: the loop of MSB, the loop that jumps ahead while the       *)
(* probed address is too small, and the loop that halves the step.  Size   *)
(* arithmetic is modulo 2^Width, as size_t is modulo 2^64, so that the     *)
(* wrap-around of "max - 1" and of "msb <<= 1" is part of the model.       *)
(***************************************************************************)
EXTENDS Integers, Sequences

CONSTANTS Addresses,  \* the addresses an array may hold and a caller may look up
          Arrays,     \* the arrays a registry may hold
          Width       \* bits of size_t

Ascending(s) == \A i \in 1..Len(s) - 1 : s[i] < s[i + 1]

ASSUME SearchAssumption ==
  /\ Addresses \subseteq Nat
  /\ Width \in Nat \ {0}
  /\ \A s \in Arrays : s \in Seq(Addresses) /\ Ascending(s) /\ 2 * Len(s) < 2 ^ Width

VARIABLES
  ptrs,    \* the array: entry i of the C++ array is ptrs[i + 1]
  elem,    \* the address looked up
  pc,      \* "msb": in MSB; "jump", "probe": in a loop of binarySearch; "done"
  caller,  \* where MSB returns to: "start" or "jump"
  arg,     \* argument n of MSB
  msb,     \* msb of MSB, then of binarySearch
  index,   \* index of binarySearch
  result   \* the value binarySearch returned, as the INT64 its callers store

vars == <<ptrs, elem, pc, caller, arg, msb, index, result>>

SizeMod == 2 ^ Width
Wrap(n) == n % SizeMod
Signed(n) == IF 2 * n < SizeMod THEN n ELSE n - SizeMod

Entries == Len(ptrs)
MutNoDecrement == Wrap(Entries)    \* mutant: max is not decremented
MaxIndex == Wrap(Entries - 1)      \* "max = max - 1"

Doubled(m) == Wrap(2 * m)          \* msb <<= 1

MutRoundedUp(m) == (m + 1) \div 2  \* mutant: the step never becomes zero
MutQuartered(m) == m \div 4        \* mutant: the step shrinks too fast
Halved(m) == m \div 2              \* msb >>= 1, msb /= 2

MutEarly(m) == m <= 1              \* mutant: gives up one step early
Exhausted(m) == m = 0              \* the step after which a miss is final

-----------------------------------------------------------------------------
(* Distance(pointer, i, elem).  Outside of the array the program reads     *)
(* memory it does not own: any value, so any sign.                         *)
Distances(i) ==
  LET k == Signed(i) IN
  IF k \in 0..Entries - 1 THEN {ptrs[k + 1] - elem} ELSE {-1, 0, 1}

Return(r) ==
  /\ result' = r
  /\ pc' = "done"
  /\ UNCHANGED <<ptrs, elem, caller, arg, msb, index>>

Init ==
  /\ ptrs \in Arrays
  /\ elem \in Addresses
  /\ pc = "msb" /\ caller = "start"
  /\ arg = MaxIndex
  /\ msb = 1
  /\ index = 0 /\ result = 0

(* while (msb <= n) msb <<= 1; *)
MsbDouble ==
  /\ pc = "msb" /\ msb <= arg
  /\ msb' = Doubled(msb)
  /\ UNCHANGED <<ptrs, elem, pc, caller, arg, index, result>>

(* msb >>= 1 and return to binarySearch, where the first call also sets    *)
(* index and a later one returns -1 on zero and moves index otherwise.     *)
MsbReturn ==
  /\ pc = "msb" /\ msb > arg
  /\ LET m == Halved(msb) IN
       \/ /\ caller = "start" \/ m # 0
          /\ msb' = m
          /\ index' = IF caller = "start" THEN m ELSE Wrap(index + m)
          /\ pc' = "jump"
          /\ UNCHANGED <<ptrs, elem, caller, arg, result>>
       \/ /\ caller = "jump" /\ m = 0
          /\ Return(-1)

(* while (Distance(...) < 0): ask MSB for the next jump, or leave the loop *)
Jump ==
  /\ pc = "jump"
  /\ \E d \in Distances(index) :
       \/ /\ d < 0
          /\ pc' = "msb" /\ caller' = "jump"
          /\ arg' = Wrap(MaxIndex - index)
          /\ msb' = 1
       \/ /\ d >= 0
          /\ pc' = "probe"
          /\ UNCHANGED <<caller, arg, msb>>
  /\ UNCHANGED <<ptrs, elem, index, result>>

(* one iteration of while (true) *)
Probe ==
  /\ pc = "probe"
  /\ \E d \in Distances(index) :
       \/ /\ d = 0
          /\ Return(Signed(index))
       \/ /\ d # 0 /\ Exhausted(msb)
          /\ Return(-1)
       \/ /\ d # 0 /\ ~Exhausted(msb)
          /\ index' = Wrap(IF d < 0 THEN index + msb ELSE index - msb)
          /\ msb' = Halved(msb)
          /\ UNCHANGED <<ptrs, elem, pc, caller, arg, result>>

Done == pc = "done" /\ UNCHANGED vars

Next == MsbDouble \/ MsbReturn \/ Jump \/ Probe \/ Done

(* A call runs on the thread that made it and nothing else can stop it.    *)
Spec == Init /\ [][Next]_vars /\ WF_vars(Next)

-----------------------------------------------------------------------------
(* The lookups the allocator can rely on: a registry that is not empty and *)
(* an address that is not below its first entry.                           *)
Supported == Entries > 0 /\ elem >= ptrs[1]

(* A supported lookup returns the position of the address when the array   *)
(* holds it and -1 when it does not: what "if (Position == -1)" in both    *)
(* registries, and every "not found" error, takes for granted.             *)
SearchCorrect ==
  pc = "done" /\ Supported =>
    IF \E i \in 1..Entries : ptrs[i] = elem
    THEN result \in 0..Entries - 1 /\ ptrs[result + 1] = elem
    ELSE result = -1

(* A supported lookup never reads outside of the array, in either loop,    *)
(* for no relation between the length of the array and the powers of two   *)
(* the index moves by.                                                     *)
(* What is read for an address below the first entry lies below the array: *)
(* the index never runs off the end.                                       *)
ProbesInBounds ==
  pc \in {"jump", "probe"} /\ Entries > 0 =>
    /\ Signed(index) < Entries
    /\ Supported => Signed(index) >= 0

(* In the halving loop the address looked up, if present, is never further *)
(* away than the steps still to come can reach: why no entry is skipped.   *)
TargetInReach ==
  pc = "probe" =>
    \A i \in 1..Entries : ptrs[i] = elem =>
      (IF i - 1 >= index THEN i - 1 - index ELSE index - (i - 1)) <= 2 * msb

(* A lookup in a non-empty registry ends, whatever the address and         *)
(* whatever the bytes next to the array are.                               *)
SearchTerminates == Entries > 0 ~> pc = "done"

(* "vcfree: container not found" (line 735) and "Container not found"      *)
(* (lines 316, 324, 796, 803, 810): a lookup in an empty registry is       *)
(* answered with -1.                                                       *)
EmptyIsNotFound == Entries = 0 ~> (pc = "done" /\ result = -1)
=============================================================================
