----------------------- MODULE HyperContainerManager -----------------------
(***************************************************************************)
(* The registry of hypercontainers of vcmalloc (libs_src/vcmalloc.h):      *)
(* vccalloc, which reserves a range of virtual memory above the last       *)
(* hypercontainer and retries upwards until the OS grants one, vccfree,    *)
(* and the lookup by base address that starts every other call.  Of what   *)
(* happens inside a hypercontainer (HyperContainer.tla) the registry sees  *)
(* frames taken and given back.                                            *)
(*                                                                         *)
(* vccalloc's retry loop is one step per VirtualAlloc; every other call is *)
(* one step.  A throw ends the process.                                    *)
(***************************************************************************)
EXTENDS Integers, Sequences

CONSTANTS
  Granularity,   \* dwAllocationGranularity
  Top,           \* the end of the address space
  Requests,      \* bound: the dwSize a caller may pass to vccalloc
  Frames,        \* the page frames of the machine
  HypersPerPage, \* page_size / sizeof(HyperContainerContext)
  MaxHypers      \* bound: hypercontainers at one time

ASSUME ManagerAssumption ==
  /\ Granularity \in Nat \ {0}
  /\ Top \in Nat /\ Top % Granularity = 0
  /\ Requests \subseteq Nat \ {0}
  /\ HypersPerPage \in Nat \ {0}
  /\ MaxHypers \in Nat

VARIABLES
  pointers,      \* pointers_storage_[0 .. hypercontainers_num_ - 1]
  hypers,        \* hyper_containers_storage_: the size and frames of each
  hypers_max,    \* hypercontainers_max_
  pc,            \* "idle", "reserving" in vccalloc's loop, or how it ended
  want,          \* dwSize of the vccalloc in progress
  requested,     \* requestedAddress, 0 for NULL
  reservations,  \* OS: the ranges reserved for hypercontainers
  foreign,       \* OS: the granules other allocations of the process occupy
  held           \* OS: the frames the process holds

registry == <<pointers, hypers, hypers_max>>
request  == <<want, requested>>
os       == <<reservations, foreign, held>>
vars     == <<registry, pc, request, os>>

Granules == {a \in 1..Top - 1 : a % Granularity = 0}

(* containerSize: dwSize rounded up to the allocation granularity. *)
SizeFor(dwSize) ==
  IF dwSize % Granularity = 0 THEN dwSize
  ELSE (dwSize \div Granularity + 1) * Granularity

(* A reservation starts at a granule, so what it leaves of its last        *)
(* granule is of no use to anyone else.                                    *)
Vacant(a, size) ==
  /\ a + size <= Top
  /\ \A r \in reservations : r.base + r.size <= a \/ a + size <= r.base
  /\ \A g \in foreign : ~(a <= g /\ g < a + size)

Indices == 1..Len(pointers)

MutAnyAddress == 0   \* mutant: no address asked for
AboveLast == pointers[Len(pointers)] + hypers[Len(pointers)].size

MutFullTooLate == Len(pointers) > hypers_max   \* mutant: compares with ">"
Full == Len(pointers) + 1 >= hypers_max

MutSameAgain == requested   \* mutant: retries without moving on
NextAttempt == IF requested < Top THEN requested + Granularity ELSE requested

ReleasedAt(a) == {r \in reservations : r.base # a}

MutRemovesNext(s, i) ==   \* mutant: memmove starts one entry too far
  [k \in 1..Len(s) - 1 |-> IF k <= i THEN s[k] ELSE s[k + 1]]
RemoveEntry(s, i) == [k \in 1..Len(s) - 1 |-> IF k < i THEN s[k] ELSE s[k + 1]]

-----------------------------------------------------------------------------
vccalloc(dwSize) ==
  /\ pc = "idle" /\ Len(pointers) < MaxHypers
  /\ pc' = "reserving"
  /\ want' = dwSize
  /\ requested' = IF pointers = <<>> THEN 0 ELSE AboveLast
  /\ UNCHANGED <<registry, os>>

(* HyperContainerManager::insert, with the range reserved at a. *)
insert(a) ==
  /\ reservations' = reservations \cup {[base |-> a, size |-> SizeFor(want)]}
  /\ UNCHANGED <<foreign, held, request>>
  /\ \/ /\ Full
        /\ pc' = "no memory for the registry"
        /\ UNCHANGED registry
     \/ /\ hypers_max' = IF Full THEN hypers_max + HypersPerPage ELSE hypers_max
        /\ pointers' = Append(pointers, a)
        /\ hypers' = Append(hypers, [size |-> SizeFor(want), frames |-> {}])
        /\ pc' = "idle"

(* VirtualAlloc(NULL, ...): the OS picks the place. *)
ReserveAnywhere ==
  /\ pc = "reserving" /\ requested = 0
  /\ \E a \in Granules : Vacant(a, SizeFor(want)) /\ insert(a)

ReserveThere ==
  /\ pc = "reserving" /\ requested # 0
  /\ Vacant(requested, SizeFor(want))
  /\ insert(requested)

(* VirtualAlloc failed: the next granule up.  Past the end of the address  *)
(* space every further attempt fails like the last.                        *)
Retry ==
  /\ pc = "reserving"
  /\ IF requested = 0 THEN \A a \in Granules : ~Vacant(a, SizeFor(want))
                      ELSE ~Vacant(requested, SizeFor(want))
  /\ requested' = NextAttempt
  /\ UNCHANGED <<registry, pc, want, os>>

-----------------------------------------------------------------------------
(* vcmalloc, vcrealloc on the hypercontainer at base address a: it takes a *)
(* frame, or gives one back.                                               *)
TakeFrame(a, f) ==
  /\ pc = "idle" /\ f \notin held
  /\ \E i \in Indices :
       /\ pointers[i] = a
       /\ hypers' = [hypers EXCEPT ![i].frames = @ \cup {f}]
  /\ held' = held \cup {f}
  /\ UNCHANGED <<pointers, hypers_max, pc, request, reservations, foreign>>

ReturnFrame(a, f) ==
  /\ pc = "idle"
  /\ \E i \in Indices :
       /\ pointers[i] = a /\ f \in hypers[i].frames
       /\ hypers' = [hypers EXCEPT ![i].frames = @ \ {f}]
  /\ held' = held \ {f}
  /\ UNCHANGED <<pointers, hypers_max, pc, request, reservations, foreign>>

MutContextsNotMoved(a) ==   \* mutant: only the pointer array closes the gap
  /\ pc = "idle"
  /\ \E i \in Indices :
       /\ pointers[i] = a
       /\ held' = held \ hypers[i].frames
       /\ reservations' = ReleasedAt(a)
       /\ pointers' = RemoveEntry(pointers, i)
       /\ hypers' = SubSeq(hypers, 1, Len(hypers) - 1)
  /\ UNCHANGED <<hypers_max, pc, request, foreign>>

(* HyperContainerFree of a registered base address: the frames, the range, *)
(* and the entry in both arrays.                                           *)
vccfree(a) ==
  /\ pc = "idle"
  /\ \E i \in Indices :
       /\ pointers[i] = a
       /\ held' = held \ hypers[i].frames
       /\ reservations' = ReleasedAt(a)
       /\ pointers' = RemoveEntry(pointers, i)
       /\ hypers' = RemoveEntry(hypers, i)
  /\ UNCHANGED <<hypers_max, pc, request, foreign>>

(* Any call with an address that is not registered, such as the base of a  *)
(* hypercontainer freed before: "Container not found" if the lookup is one *)
(* Search supports, and otherwise a lookup that may not end.               *)
CallUnregistered(a) ==
  /\ pc = "idle"
  /\ \A i \in Indices : pointers[i] # a
  /\ pc' = IF pointers # <<>> /\ a >= pointers[1] THEN "not found" ELSE "lost"
  /\ UNCHANGED <<registry, request, os>>

(* Other allocations of the process come and go between the calls. *)
Foreign(g) ==
  /\ pc = "idle"
  /\ \A r \in reservations : ~(r.base <= g /\ g < r.base + r.size)
  /\ foreign' = IF g \in foreign THEN foreign \ {g} ELSE foreign \cup {g}
  /\ UNCHANGED <<registry, pc, request, reservations, held>>

Ended == pc \notin {"idle", "reserving"} /\ UNCHANGED vars

Init ==
  /\ pointers = <<>> /\ hypers = <<>> /\ hypers_max = HypersPerPage
  /\ pc = "idle" /\ want = 0 /\ requested = 0
  /\ reservations = {} /\ held = {}
  /\ foreign \in SUBSET Granules

Next ==
  \/ \E dwSize \in Requests : vccalloc(dwSize)
  \/ ReserveAnywhere \/ ReserveThere \/ Retry
  \/ \E a \in Granules, f \in Frames : TakeFrame(a, f) \/ ReturnFrame(a, f)
  \/ \E a \in Granules : vccfree(a) \/ CallUnregistered(a)
  \/ \E g \in Granules : Foreign(g)
  \/ Ended

(* Only the loop of a call already made has to go on. *)
Spec == Init /\ [][Next]_vars /\ WF_vars(ReserveAnywhere \/ ReserveThere \/ Retry)

-----------------------------------------------------------------------------
(* Hypercontainers lie one above the other in the order of the registry,   *)
(* with no overlap, whichever were freed and wherever VirtualAlloc put     *)
(* them: the order Search depends on.                                      *)
RangesAscend ==
  /\ Len(pointers) = Len(hypers)
  /\ \A i, j \in Indices : i < j => pointers[i] + hypers[i].size <= pointers[j]
  /\ \A i \in Indices : hypers[i].size > 0

(* Between calls the OS and the registry agree on what is reserved: no     *)
(* range is leaked and none is used after it was released.                 *)
ReservationsMatch ==
  pc = "idle" =>
    reservations = {[base |-> pointers[i], size |-> hypers[i].size] : i \in Indices}

(* No frame belongs to two hypercontainers, and the process holds only     *)
(* frames that some hypercontainer will give back when it is freed.        *)
FramesApart ==
  /\ \A i, j \in Indices : i # j => hypers[i].frames \cap hypers[j].frames = {}
  /\ held = UNION {hypers[i].frames : i \in Indices}

(* The arrays always have room for one entry more. *)
RegistryHasRoom == Len(pointers) < hypers_max

Entry(i) == [base |-> pointers[i], size |-> hypers[i].size, frames |-> hypers[i].frames]
Entries  == {Entry(i) : i \in Indices}

(* vccalloc returns if the address space has room above the last           *)
(* hypercontainer, however many of its attempts the OS refuses first.      *)
RoomAbove ==
  \E a \in Granules : a >= requested /\ Vacant(a, SizeFor(want))
ReservationEnds == (pc = "reserving" /\ RoomAbove) ~> pc # "reserving"
=============================================================================
