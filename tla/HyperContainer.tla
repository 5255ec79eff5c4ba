--------------------------- MODULE HyperContainer ---------------------------
(***************************************************************************)
(* One hypercontainer of vcmalloc (libs_src/vcmalloc.h): a reserved range  *)
(* of virtual memory, the containers laid out in it one after the other,   *)
(* the page frames behind them, and the calls that change them.  The OS    *)
(* services the calls use (AllocateUserPhysicalPages, MapUserPhysicalPages *)
(* and FreeUserPhysicalPages of Address Windowing Extensions) are modelled *)
(* from their use, with the failures the code tests for.                   *)
(*                                                                         *)
(* The program has one thread: a call is one step.  A call that throws     *)
(* ends the process, since nothing catches; its step leaves the state as   *)
(* it was at the throw and nothing follows.                                *)
(***************************************************************************)
EXTENDS PageGeometry, Sequences, FiniteSetsExt

CONSTANTS
  PtrVars,        \* the caller's pointer variables
  TypeSize,       \* sizeof(*v) for each of them
  Frames,         \* the page frames of the machine
  Base,           \* the address vccalloc returned
  RegionPages,    \* pages vccalloc reserved
  AllocCounts,    \* bound: element counts asked of vcmalloc
  ReallocCounts,  \* bound: element counts asked of vcrealloc
  ExtendCounts,   \* bound: contexts, or pages, asked of the Extend calls
  PfnsMax0,       \* page_size / sizeof(ULONG_PTR)
  ContextsPerPage \* page_size / sizeof(ContainerContext)

ASSUME HyperContainerAssumption ==
  /\ TypeSize \in [PtrVars -> Nat \ {0}]
  /\ Base \in Nat \ {0} /\ Base % PageSize = 0
  /\ RegionPages \in Nat
  /\ AllocCounts \subseteq Nat \ {0} /\ ReallocCounts \subseteq Nat \ {0}
  /\ ExtendCounts \subseteq Nat
  /\ PfnsMax0 \in Nat \ {0} /\ ContextsPerPage \in Nat \ {0}

(* What is reallocated has elements that divide a page. *)
ASSUME DivisibleAssumption ==
  ReallocCounts # {} => \A v \in PtrVars : PageSize % TypeSize[v] = 0

VARIABLES
  containers,      \* containercontext_storage_[0 .. containers_num_ - 1]
  containers_max,  \* containers_max_
  pfns,            \* pfns_storage_[0 .. pfns_num_ - 1]
  pfns_max,        \* pfns_max_
  pointer,         \* the value of each of the caller's pointer variables
  asked,           \* the number of elements the caller last asked for, 0 before
  frames,          \* OS: the frames the process holds
  table,           \* OS: the frame mapped at each page of the region
  memory,          \* the bytes of each frame
  status           \* "running", "freed", or how the process ended

bookkeeping == <<containers, containers_max, pfns, pfns_max>>
caller      == <<pointer, asked>>
os          == <<frames, table, memory>>
vars        == <<bookkeeping, caller, os, status>>

NoFrame == "none"
ASSUME FramesAssumption == NoFrame \notin Frames
Zero == <<>>                       \* a byte of a fresh frame
Tag(v, k) == <<v, k>>              \* what the caller stores in byte k of its array

Pages == 0..RegionPages - 1
PageAt(a) == (a - Base) \div PageSize

(* reference_ is a reference to the caller's variable: a container's       *)
(* address is whatever that variable holds.                                *)
Context(i) ==
  [address      |-> pointer[containers[i].reference],
   type_size    |-> containers[i].type_size,
   elements_num |-> containers[i].elements_num]

(* The pages owned by the containers before container i, which is the      *)
(* position of its first frame in pfns_storage_.                           *)
MutOwnPagesCounted(i) ==   \* mutant: the sum runs one container too far
  LET sum[k \in 0..i] == IF k = 0 THEN 0 ELSE sum[k - 1] + nbrOfPages(Context(k))
  IN  sum[i]
getPFNsPosition(i) ==
  LET sum[k \in 1..i] == IF k = 1 THEN 0 ELSE sum[k - 1] + nbrOfPages(Context(k - 1))
  IN  sum[i]

(* operator[]: the container whose address is the value of v, found by     *)
(* Search over addresses that ascend.                                      *)
Position(v) ==
  CHOOSE i \in 1..Len(containers) : pointer[containers[i].reference] = pointer[v]

InUse(v) == \E i \in 1..Len(containers) : containers[i].reference = v

-----------------------------------------------------------------------------
(* AssertPfnsStorage and AssertContainerContextStorage: the capacity after *)
(* making room, by doubling and by whole pages of contexts.                *)
MutNoGrowth(need) == pfns_max   \* mutant: the array is not extended
PfnsMaxFor(need) ==
  Min({m \in {pfns_max * 2 ^ j : j \in 0..need} : m >= need})

ContainersMaxFor(need) ==
  Min({m \in {containers_max + j * ContextsPerPage : j \in 0..need} : m >= need})

AssertPfnsStorage(k) == pfns_max' = PfnsMaxFor(Len(pfns) + k)
HeapReAllocFails(k)  == Len(pfns) + k > pfns_max

AssertContainerContextStorage(k) ==
  containers_max' = ContainersMaxFor(Len(containers) + k)
ContextReallocFails(k) == Len(containers) + k > containers_max

Throw(what) == status' = what

-----------------------------------------------------------------------------
(* The OS.  A request for k frames is answered with at most k free ones.   *)
Grants(k) ==
  {g \in UNION {[1..j -> Frames \ frames] : j \in 0..k} :
     IsInjective(g)}

(* MapUserPhysicalPages(a, Len(fs), fs) with the page table t and the      *)
(* frames held: the pages must be in the region, the frames the process's  *)
(* own and mapped nowhere.  Whether zero pages is an error is left open:   *)
(* the code guards against it in some places and not in others.            *)
CanMap(t, held, a, fs) ==
  /\ PageAt(a) + Len(fs) <= RegionPages
  /\ Range(fs) \subseteq held /\ Range(fs) \cap Range(t) = {}
  /\ IsInjective(fs)

MapPages(t, a, fs) ==
  [p \in Pages |->
     IF p - PageAt(a) + 1 \in DOMAIN fs THEN fs[p - PageAt(a) + 1] ELSE t[p]]

UnmapFrom(t, a, n) ==
  [p \in Pages |-> IF p \in PageAt(a)..PageAt(a) + n - 1 THEN NoFrame ELSE t[p]]

(* Freed frames disappear from the page table, and come back zeroed.       *)
DropFrames(t, gone) == [p \in Pages |-> IF t[p] \in gone THEN NoFrame ELSE t[p]]
Zeroed(m, gone) ==
  [f \in Frames |-> IF f \in gone THEN [o \in 0..PageSize - 1 |-> Zero] ELSE m[f]]

Accessible(t, a, n) ==
  \A k \in 0..n - 1 : PageAt(a + k) \in Pages /\ t[PageAt(a + k)] # NoFrame

(* memmove(dst, src, n) with the page table t; source and destination are  *)
(* each within one page.                                                   *)
Memmove(m, t, dst, src, n) ==
  IF n = 0 THEN m ELSE
  [m EXCEPT ![t[PageAt(dst)]] =
     [o \in 0..PageSize - 1 |->
        IF o - (dst % PageSize) \in 0..n - 1
        THEN m[t[PageAt(src)]][(src % PageSize) + o - (dst % PageSize)]
        ELSE @[o]]]

-----------------------------------------------------------------------------
(* The end of ContainerAlloc: frames for the pages the new container does  *)
(* not find in the last page of its predecessor.                           *)
TakePages(mapping, pages, v, n) ==
  \/ /\ HeapReAllocFails(pages)
     /\ Throw("no memory for pfns")
     /\ UNCHANGED <<pfns, pfns_max, asked, os>>
  \/ /\ AssertPfnsStorage(pages)
     /\ \E got \in Grants(pages) :
          /\ frames' = frames \cup Range(got)
          /\ \/ /\ Len(got) < pages
                /\ Throw("out of frames")
                /\ UNCHANGED <<pfns, asked, table>>
             \/ /\ Len(got) = pages /\ ~CanMap(table, frames', mapping, got)
                /\ Throw("cannot map")
                /\ UNCHANGED <<pfns, asked, table>>
             \/ /\ Len(got) = pages /\ CanMap(table, frames', mapping, got)
                /\ table' = MapPages(table, mapping, got)
                /\ pfns' = pfns \o got
                /\ asked' = [asked EXCEPT ![v] = n]
                /\ UNCHANGED status
     /\ UNCHANGED memory

(* ContainerAlloc: the new container starts at the byte after the last one *)
(* and is registered, and the caller's variable set, before its pages      *)
(* exist.                                                                  *)
ContainerAlloc(v, n) ==
  LET bytes == TypeSize[v] * n
      empty == containers = <<>>
      last  == Context(Len(containers))
      next    == IF empty THEN Base ELSE nextAddress(last)
      mapping == IF empty THEN Base ELSE nextMappingAddress(last)
      guest   == IF empty THEN 0 ELSE guestBytes(last)
  IN  \/ /\ ContextReallocFails(1)
         /\ Throw("no memory for contexts")
         /\ UNCHANGED <<bookkeeping, caller, os>>
      \/ /\ AssertContainerContextStorage(1)
         /\ containers' = Append(containers,
              [reference |-> v, type_size |-> TypeSize[v], elements_num |-> n])
         /\ pointer' = [pointer EXCEPT ![v] = next]
         /\ \/ /\ bytes <= guest
               /\ asked' = [asked EXCEPT ![v] = n]
               /\ UNCHANGED <<pfns, pfns_max, os, status>>
            \/ /\ bytes > guest
               /\ TakePages(mapping, PagesFor(bytes - guest), v, n)

-----------------------------------------------------------------------------
MutFirstMovesToo(i, v) ==   \* mutant: "++" after the comparison
  \E j \in i..Len(containers) : containers[j].reference = v
MutNextOnly(i, v) ==        \* mutant: "if" for "while"
  i < Len(containers) /\ containers[i + 1].reference = v
Behind(i, v) == \E j \in i + 1..Len(containers) : containers[j].reference = v

MutWrongDirection(a, by) == a - by   \* mutant: "-=" for "+=" and conversely
Moved(a, by) == a + by

(* The pages from the one of entry start in pfns_storage_ to the last, as  *)
(* many as a reallocation unmaps before it maps the new frames.            *)
MutOneTooFew(start) == Len(pfns) - start - 1   \* mutant: the last page stays mapped
PagesFrom(start) == Len(pfns) - start

(* The guest bytes of container c, copied by as many bytes as the next     *)
(* container moves, through the page table t.                              *)
MutGuestLeft(m, t, c, by) == m   \* mutant: not copied
CopyGuest(m, t, c, by) ==
  Memmove(m, t, nextAddress(c) + by, nextAddress(c), guestBytes(c))
GuestAccessible(t, c, by) ==
  /\ Accessible(t, nextAddress(c), guestBytes(c))
  /\ Accessible(t, nextAddress(c) + by, guestBytes(c))

(* What both directions of ContainerRealloc do last: container i has the   *)
(* elements that fit its new pages, and every container behind it moves,   *)
(* by assignment through its reference_, by whole pages.                   *)
Resettle(i, pages, by) ==
  /\ containers' = [containers EXCEPT ![i].elements_num = ElementsIn(Context(i), pages)]
  /\ pointer' = [v \in PtrVars |-> IF Behind(i, v) THEN Moved(pointer[v], by) ELSE pointer[v]]

(* Fewer pages: the guest bytes move down first, then the frames behind    *)
(* them are freed, the page frame array closes the gap and the rest of the *)
(* hypercontainer is mapped anew.                                          *)
Shrink(v, n, i, requested) ==
  LET c     == Context(i)
      at    == mappingAddress(c)
      start == getPFNsPosition(i)
      pages == nbrOfPages(c)
      steps == pages - requested
      by    == -(steps * PageSize)
      spare == Range(SubSeq(pfns, start + requested + 1, start + pages))
      kept  == SubSeq(pfns, 1, start + requested) \o SubSeq(pfns, start + pages + 1, Len(pfns))
      tail  == SubSeq(kept, start + 1, Len(kept))
      freed == DropFrames(table, spare)
      bare  == UnmapFrom(freed, at, PagesFrom(start))
      copied == GuestAccessible(table, c, by)
  IN  \/ /\ ~copied
         /\ Throw("access violation")
         /\ UNCHANGED <<bookkeeping, caller, os>>
      \/ /\ copied /\ ~(spare \subseteq frames)
         /\ Throw("cannot free")
         /\ memory' = CopyGuest(memory, table, c, by)
         /\ UNCHANGED <<bookkeeping, caller, frames, table>>
      \/ /\ copied /\ spare \subseteq frames
         /\ memory' = Zeroed(CopyGuest(memory, table, c, by), spare)
         /\ frames' = frames \ spare
         /\ \/ /\ tail = <<>> \/ ~CanMap(bare, frames', at, tail)
               /\ Throw(IF tail = <<>> THEN "zero pages mapped" ELSE "cannot map")
               /\ table' = bare
               /\ pfns' = kept \o SubSeq(pfns, Len(kept) + 1, Len(pfns))
               /\ UNCHANGED <<containers, containers_max, pfns_max, caller>>
            \/ /\ CanMap(bare, frames', at, tail)
               /\ table' = MapPages(bare, at, tail)
               /\ pfns' = kept
               /\ Resettle(i, requested, by)
               /\ asked' = [asked EXCEPT ![v] = n]
               /\ UNCHANGED <<containers_max, pfns_max, status>>

(* More pages: the page frame array opens a gap that new frames fill, the  *)
(* rest of the hypercontainer is mapped anew and only then the guest bytes *)
(* move up, from the old last page to the new one.  A throw in between     *)
(* leaves pfns_num_ at its old value, with the gap in the array.           *)
Grow(v, n, i, requested) ==
  LET c     == Context(i)
      at    == mappingAddress(c)
      start == getPFNsPosition(i)
      pages == nbrOfPages(c)
      steps == requested - pages
      gap   == start + pages
      by    == steps * PageSize
      bare  == UnmapFrom(table, at, PagesFrom(start))
  IN  \/ /\ HeapReAllocFails(steps)
         /\ Throw("no memory for pfns")
         /\ UNCHANGED <<bookkeeping, caller, os>>
      \/ /\ AssertPfnsStorage(steps)
         /\ UNCHANGED containers_max
         /\ \E got \in Grants(steps) :
              LET all  == SubSeq(pfns, 1, gap) \o got \o SubSeq(pfns, gap + 1, Len(pfns))
                  tail == SubSeq(all, start + 1, Len(all))
                  now  == MapPages(bare, at, tail)
                  opened == [k \in 1..Len(pfns) |->
                               IF k > gap + steps THEN pfns[k - steps]
                               ELSE IF k - gap \in DOMAIN got THEN got[k - gap] ELSE pfns[k]]
                  mapped == Len(got) = steps /\ CanMap(bare, frames', at, tail)
                  copied == GuestAccessible(now, c, by)
              IN  /\ frames' = frames \cup Range(got)
                  /\ \/ /\ ~mapped
                        /\ Throw(IF Len(got) < steps THEN "out of frames" ELSE "cannot map")
                        /\ table' = IF Len(got) < steps THEN table ELSE bare
                        /\ pfns' = opened
                        /\ UNCHANGED <<containers, caller, memory>>
                     \/ /\ mapped /\ ~copied
                        /\ Throw("access violation")
                        /\ table' = now
                        /\ pfns' = opened
                        /\ UNCHANGED <<containers, caller, memory>>
                     \/ /\ mapped /\ copied
                        /\ table' = now
                        /\ pfns' = all
                        /\ memory' = CopyGuest(memory, now, c, by)
                        /\ Resettle(i, requested, by)
                        /\ asked' = [asked EXCEPT ![v] = n]
                        /\ UNCHANGED status

(* A reallocation that stays within the same pages changes nothing, not    *)
(* even elements_num_.                                                     *)
ContainerRealloc(v, n) ==
  LET i         == Position(v)
      requested == RequestedPages(Context(i), n)
      pages     == nbrOfPages(Context(i))
  IN  \/ requested < pages /\ Shrink(v, n, i, requested)
      \/ requested > pages /\ Grow(v, n, i, requested)
      \/ /\ requested = pages
         /\ asked' = [asked EXCEPT ![v] = n]
         /\ UNCHANGED <<bookkeeping, pointer, os, status>>

-----------------------------------------------------------------------------
(* ExtendCcStorage and ExtendPfnsStorage: room made in advance. *)
ExtendCcStorage(k) ==
  \/ /\ AssertContainerContextStorage(k)
     /\ UNCHANGED <<containers, pfns, pfns_max, caller, os, status>>
  \/ /\ ContextReallocFails(k)
     /\ Throw("no memory for contexts")
     /\ UNCHANGED <<bookkeeping, caller, os>>

ExtendPfnsStorage(size) ==
  \/ /\ AssertPfnsStorage(size \div PageSize)
     /\ UNCHANGED <<containers, containers_max, pfns, caller, os, status>>
  \/ /\ HeapReAllocFails(size \div PageSize)
     /\ Throw("no memory for pfns")
     /\ UNCHANGED <<bookkeeping, caller, os>>

(* HyperContainerFree on a registered hypercontainer: all its frames, its  *)
(* virtual memory and its two arrays.                                      *)
MutFramesKept ==   \* mutant: the range is released, the frames are not
  /\ table' = [p \in Pages |-> NoFrame]
  /\ containers' = <<>> /\ pfns' = <<>>
  /\ containers_max' = 0 /\ pfns_max' = 0
  /\ asked' = [v \in PtrVars |-> 0]
  /\ status' = "freed"
  /\ UNCHANGED <<pointer, frames, memory>>
HyperContainerFree ==
  \/ /\ Range(pfns) \subseteq frames
     /\ frames' = frames \ Range(pfns)
     /\ table' = [p \in Pages |-> NoFrame]
     /\ memory' = Zeroed(memory, Range(pfns))
     /\ containers' = <<>> /\ pfns' = <<>>
     /\ containers_max' = 0 /\ pfns_max' = 0
     /\ asked' = [v \in PtrVars |-> 0]
     /\ status' = "freed"
     /\ UNCHANGED pointer
  \/ /\ ~(Range(pfns) \subseteq frames)
     /\ Throw("cannot free")
     /\ UNCHANGED <<bookkeeping, caller, os>>

(* The caller fills the array of v, as many elements as it asked for. *)
StoreThrough(v) ==
  LET size == asked[v] * TypeSize[v]
      at   == pointer[v]
  IN  \/ /\ Accessible(table, at, size)
         /\ memory' = [f \in Frames |-> [o \in 0..PageSize - 1 |->
              LET hits == {k \in 0..size - 1 :
                             table[PageAt(at + k)] = f /\ (at + k) % PageSize = o}
              IN  IF hits = {} THEN memory[f][o] ELSE Tag(v, Max(hits))]]
         /\ UNCHANGED <<bookkeeping, caller, frames, table, status>>
      \/ /\ ~Accessible(table, at, size)
         /\ Throw("access violation")
         /\ UNCHANGED <<bookkeeping, caller, os>>

-----------------------------------------------------------------------------
(* A hypercontainer as vccalloc and the constructor leave it. *)
Init ==
  /\ containers = <<>> /\ containers_max = ContextsPerPage
  /\ pfns = <<>> /\ pfns_max = PfnsMax0
  /\ pointer = [v \in PtrVars |-> 0]
  /\ asked = [v \in PtrVars |-> 0]
  /\ frames = {}
  /\ table = [p \in Pages |-> NoFrame]
  /\ memory = [f \in Frames |-> [o \in 0..PageSize - 1 |-> Zero]]
  /\ status = "running"

(* The calls of a caller that gives each variable one array, and           *)
(* reallocates or stores through a variable that has one.                  *)
Running == status = "running"

vcmalloc(v, n)  == Running /\ ~InUse(v) /\ ContainerAlloc(v, n)
vcrealloc(v, n) == Running /\ InUse(v) /\ ContainerRealloc(v, n)
Store(v)        == Running /\ InUse(v) /\ StoreThrough(v)
Extend(k)       == Running /\ (ExtendCcStorage(k) \/ ExtendPfnsStorage(k * PageSize))
vccfree         == Running /\ HyperContainerFree
Ended           == ~Running /\ UNCHANGED vars

Next ==
  \/ \E v \in PtrVars, n \in AllocCounts : vcmalloc(v, n)
  \/ \E v \in PtrVars, n \in ReallocCounts : vcrealloc(v, n)
  \/ \E v \in PtrVars : Store(v)
  \/ \E k \in ExtendCounts : Extend(k)
  \/ vccfree
  \/ Ended

Spec == Init /\ [][Next]_vars

-----------------------------------------------------------------------------
(* How a call can leave the process. *)
Statuses ==
  {"running", "freed", "no memory for contexts", "no memory for pfns", "out of frames",
   "cannot map", "zero pages mapped", "cannot free", "access violation"}

TypeOK ==
  /\ containers \in Seq([reference : PtrVars, type_size : Nat, elements_num : Nat])
  /\ containers_max \in Nat /\ pfns_max \in Nat
  /\ pfns \in Seq(Frames)
  /\ pointer \in [PtrVars -> Nat] /\ asked \in [PtrVars -> Nat]
  /\ frames \subseteq Frames
  /\ table \in [Pages -> Frames \cup {NoFrame}]
  /\ memory \in [Frames -> [0..PageSize - 1 -> {Zero} \cup (PtrVars \X Nat)]]
  /\ status \in Statuses

(* The layout the whole allocator is built on: the first container starts  *)
(* at the base, every other one at the byte where its predecessor ends (so *)
(* none overlap and no reallocation leaves a hole), each through a         *)
(* variable of its own.                                                    *)
LayoutInv ==
  /\ \A i \in 1..Len(containers) :
       /\ Context(i).address = IF i = 1 THEN Base ELSE nextAddress(Context(i - 1))
       /\ containers[i].type_size = TypeSize[containers[i].reference]
       /\ containers[i].elements_num > 0
  /\ \A i, j \in 1..Len(containers) :
       containers[i].reference = containers[j].reference => i = j

(* What Search needs of a hypercontainer: addresses that ascend, strictly. *)
AddressesAscend ==
  \A i, j \in 1..Len(containers) : i < j => Context(i).address < Context(j).address

(* pfns_num_ counts exactly the pages of the containers ("Number of pages  *)
(* ... currently hosting"), the page frame array names the frames the      *)
(* process holds, each once, and page p of the region is backed by entry p *)
(* of the array, whatever allocations and reallocations came before.       *)
FramesInOrder ==
  status = "running" =>
    /\ Len(pfns) = IF containers = <<>> THEN 0
                   ELSE getPFNsPosition(Len(containers)) + nbrOfPages(Context(Len(containers)))
    /\ IsInjective(pfns)
    /\ frames = Range(pfns)
    /\ table = MapPages([p \in Pages |-> NoFrame], Base, pfns)

(* Neither array is ever longer than its storage: every memmove and every  *)
(* placement of a new context was preceded by enough room.                 *)
WithinStorage ==
  Len(containers) <= containers_max /\ Len(pfns) <= pfns_max

(* Only the machine's resources end the process: frames, heap or reserved  *)
(* range running out.  The errors that would mean the bookkeeping and the  *)
(* OS disagree ("couldn't free remaining frames" ...) never occur, nor     *)
(* does a fault in a memmove or in the caller's store, and a mapping fails *)
(* only because the region is too small for the pages.                     *)
OnlyResourcesRunOut ==
  /\ status \notin {"cannot free", "access violation"}
  /\ status = "cannot map" => Cardinality(frames) > RegionPages

(* The process holds no frame it has no record of, also when the           *)
(* hypercontainer is gone.                                                 *)
FreedLeavesNothing == status = "freed" => frames = {} /\ \A p \in Pages : table[p] = NoFrame

(* A container always has at least the elements its caller last asked for. *)
CallerHasRoom ==
  status = "running" => \A i \in 1..Len(containers) :
    containers[i].elements_num >= asked[containers[i].reference]

(* The containers behind container i have moved by the pages it gained or  *)
(* lost; those before it, and it itself, are where they were.              *)
MovesBehind(i) ==
  \A j \in 1..Len(containers) :
    pointer'[containers[j].reference] =
      pointer[containers[j].reference]
        + IF j <= i THEN 0 ELSE (nbrOfPages(Context(i))' - nbrOfPages(Context(i))) * PageSize

(* A reallocation of container i moves those behind i, all by the whole    *)
(* pages i gained or lost, and neither i nor any before it; no other call  *)
(* moves any container.                                                    *)
SuffixMovesByPages ==
  [][status' = "running" =>
       /\ \A i \in 1..Len(containers), n \in ReallocCounts :
            vcrealloc(containers[i].reference, n) => MovesBehind(i)
       /\ (\A v \in PtrVars, n \in ReallocCounts : ~vcrealloc(v, n)) =>
            \A j \in 1..Len(containers) :
              pointer'[containers[j].reference] = pointer[containers[j].reference]]_vars

(* What the caller reads through its pointers: the bytes of its arrays.    *)
ByteAt(a) == memory[table[PageAt(a)]][(a - Base) % PageSize]

Contents(v) ==
  IF status # "running" \/ asked[v] = 0 THEN <<>>
  ELSE [k \in 1..asked[v] * TypeSize[v] |-> ByteAt(pointer[v] + k - 1)]

arrays == [v \in PtrVars |-> Contents(v)]

(* The hypercontainer gives its caller independent arrays that keep their  *)
(* contents when they, or their neighbours, are reallocated.               *)
Arrays == INSTANCE CallerArrays WITH
  Byte <- {Zero} \cup (PtrVars \X Nat), Tag <- Tag, array <- arrays

ArraysKept == Arrays!Spec
=============================================================================
