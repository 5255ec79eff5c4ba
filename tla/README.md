# Verification of vcmalloc and its benchmarks

The repository measures an allocator, vcmalloc (`libs_src/vcmalloc.h`), against
malloc and mimalloc, on matrices and on linked data structures
(`libs_src/data_structures`). The allocator is the core of it: it gives a caller
arrays that can be resized without moving the arrays behind them byte by byte.
It reserves a large range of virtual memory (a *hypercontainer*), lays out the
caller's arrays (*containers*) in it one directly after the other, and resizes
one by mapping other page frames behind the range (Address Windowing
Extensions), so that only the bytes sharing the last page are copied and the
caller's pointer variables are adjusted by whole pages.

## Inventory

| Part | State | Operations | What makes it correct |
|---|---|---|---|
| `Search` (vcmalloc.h:15-64, 301-309) | none | `MSB`, `binarySearch` | finds exactly the addresses present, reads no entry that does not exist, ends |
| `ContainerContext` (66-107) | pointer variable (by reference), element size, number of elements | the derived page geometry | exact page counts and guest bytes at every offset |
| `HyperContainerContext` (109-200), `ContainerAlloc` (329), `ContainerRealloc` (374), `ExtendCcStorage`, `ExtendPfnsStorage` | the array of contexts, the array of page frame numbers, their capacities | allocate, reallocate, make room | containers touch and never overlap; page p is backed by entry p of the frame array; no byte of any array is lost; storage suffices |
| `ContainerRealloc2` / `vcrealloc2` (474) | the same, with temporary frame arrays | reallocate a run of containers in two passes | as above |
| `HyperContainerManager` (203-299), `vccalloc` (760), `HyperContainerFree` / `vccfree` (732, 812) | two parallel arrays: base addresses, contexts | reserve with retry, free, look up | ascending, disjoint ranges; nothing leaked; the two arrays in step |
| Singly linked lists (`linkedList.h`, `unorderedLinkedList.h`, `orderedLinkedList.h`, `stackUnorderedLinkedList.h`) | nodes and links, `first`, `last`, `count` | insert, delete, search, copy, pop, `update` after the nodes moved | they are the sequences their comments promise; no node lost or shared |
| `doublyLinkedList.h` | the same with links back | insert, delete, search, `update` | the links agree in both directions |
| `queue.h`, `linkedQueue.h`, `linkedStack.h` | a circular array with `front`, `rear`, `count`; nodes | add, delete, push, pop, copy | first-in first-out, last-in first-out, through empty and full |
| `binaryTree.h`, `binarySearchTree.h` | nodes with two links, `root` | insert, delete, search, assign; traversals with a stack | one ordered tree, a set; the order of the recursive traversals |
| `graph.h` | adjacency lists; weight matrices | traversals, `shortestPath`, `minimalSpanning` | every vertex once, in the promised order; least weights |
| Scenarios (`vcmalloc_bench.cpp`) | heads, nodes and rows in memory of one of three allocators | build, search, free | what is built is backed by memory and reachable by the arithmetic used; all is freed |
| `to_json` and `main` | the result files | read, merge, empty, write | no measurement lost |
| CUDA benchmark, scripts | | the same measurements around `cudaMemcpy`; plotting | |
| mimalloc, Intel PCM | | | third party |

How they interact: every public call first looks its base address up in the
manager, with `Search`; `vcrealloc` then looks the array up in the
hypercontainer, with `Search` again, by the *value* of the caller's pointer.
The allocator and its caller share the pointer variables: `reference_` is a
C++ reference to the caller's variable, so a reallocation moves other arrays by
assigning to variables of the caller. The OS holds the frames, the page table
and the reserved ranges. The data structures keep their nodes wherever their owner puts them: in memory
of `new`, or (`perTypeAppend`, the inserts with an address) in a container of vcmalloc; the
scenarios of the benchmark do the latter for all of them. Nothing runs
concurrently: the program has one thread and no callbacks; runs of the benchmark follow each other and share the
result files. The difficulty is in long sequences of calls, in arithmetic
at page boundaries, in the order of moving bytes, frames and mappings, and in
three copies of one truth (contexts, frame array, page table). A failing call
throws a string that nothing catches, so the process ends. PROJECT.json lists
the hazards at their lines.

## The modules

**`Search`**: `MSB` and `binarySearch`, one step per iteration of each loop, on
machine words of `Width` bits (`Wrap`, `Signed`). Arrays and the address looked
up are chosen in `Init`. `Distances` is `Distance`; a read is a step's `Probe`
or `Jump` of index `index`.

**`PageGeometry`**: the functions of `ContainerContext` as operators on a record,
and the two formulas of `ContainerRealloc` (pages asked for, elements that fit).

**`HyperContainer`**: one hypercontainer from `vccalloc` to `vccfree`. Variables
have the names of the code without the trailing underscore; `pointer` is the
caller's variables, `frames`, `table` and `memory` are the OS's side, and
`asked` is a history variable (what the caller last asked for). One action per
call, each the whole handler: `vcmalloc`, `vcrealloc` (`Shrink`, `Grow`, or
nothing), `Extend`, `vccfree`, and `Store`, the caller writing through its
pointer. An error path of the code is a disjunct that leaves the state as it
is at the throw and sets `status`; after it nothing happens. Three are missing: the
unmappings that fail (vcmalloc.h:412-413, 450-451), which pages of the own region
do not, and a `VirtualFree` that fails. No property depends on them. Errors the code
tests for and that cannot occur are kept in the model as reachable by its guards,
and `OnlyResourcesRunOut` says they are not reached.
A lookup is `Position`, the container whose address is the value of the
variable: that is what `Search` computes when addresses ascend
(`AddressesAscend` here, `SearchCorrect` there).

**`ContainerRealloc2`**: `vcrealloc2` as one more action on the state of
`HyperContainer`. The code loops over the run twice; the module gives what each
pass leaves for container `i`, from the pages given up and taken before it (the
code's `steps`): its frames (`KeptFrames`, `GivenFrames`, `AddedFrames`), its
move (`FirstMove`, `SecondMove`) and its guest bytes (`GuestsMovedDown`,
`GuestsCopiedUp`). The order of the calls that can fail is kept: the passes
change the bookkeeping first. `Uses` says which calls the caller makes besides the
careful ones: each of its three members is a kind of call the code gets wrong
(findings below), and with none of them the properties hold.

**`CallerArrays`**: what the caller is promised: independent byte arrays; a
resize (of one, or with `vcrealloc2` of several) keeps the common prefix, a store
fills one array, nothing else changes anything. `HyperContainer` implements it (`ArraysKept`): array `v` is the bytes
read through `pointer[v]`, the page table and the frames.

**`HyperContainerManager`**: the registry, with what happens inside a
hypercontainer reduced to frames taken and given back. `vccalloc`'s retry loop
takes one step per `VirtualAlloc`. The address space has other tenants, which
come and go between calls (`Foreign`) and occupy any granules at the start.

**`Nodes`**: nodes on the heap: a field is a function whose domain is the
addresses where a node exists, `delete` takes an address out of it. `Chain` is the
loop that follows a link to its end, `Proper` says that it has one.

**`LinkedList`, `UnorderedLinkedList`, `OrderedLinkedList`, `DoublyLinkedList`,
`LinkedStack`, `LinkedQueue`, `SearchTree`, `QueueType`**: one data structure each,
one action per method, with the fields of the class as variables. Classes that
can be copied have two objects over one heap. A new node goes to any free
address, which covers `new` and an address the caller gives. The `root` of a search tree is
null at first: the header declares it and gives it no value (binarySearchTree.h:41), so
this holds for value-initialised objects, as the benchmark's are. `answer` is what the
last call was and gave back. A failed `assert` ends the program (`Ended`).

**`AbstractList`, `AbstractSet`, `Fifo`**: what the comments of the headers promise:
a sequence per object, a set, a queue of bounded length.

**`Structures`** composes them: which structure it is is chosen at the start and
any calls follow. The refinements are `IsSequence` (all lists, the stacks
and the linked queue implement `AbstractList`), `IsSet` and `IsFifo`; the
invariants about links and nodes are the conjunction of those of the parts.
`MaxCount` bounds the insertions into unordered lists: `pop` lowers no count, so without a
bound TLC would come to no end. The theorems are about every value of it.

**`TreeTraversal`, `GraphTraversal`, `WeightedGraphs`, `Dispersed`**: the loops that
walk a structure to its end. A tree or a graph is any one of a set of
constants; one step is one turn of a loop, or one recursive call. `TreeTraversal` is about the bodies of
two functions: the one class derived from `binaryTreeType` in the repository hides `root` and inherits
privately, so that no object of it runs them on a tree that is not empty. `shortestPath` may take an index from a
variable it did not set (finding 10): then the model ends, with `outside` true. `Dispersed` is
the scenario over malloc with all its blocks: what `search` touches, and the walk
that frees the nodes through the pointer at their offset 8, whatever the structure
is. **`Traversals`** composes them with the fairness they need.

**`Scenarios`** is the calls of `vcmalloc_single` and of the affine matrix scenarios,
in their order, on the state of `HyperContainer`; `script` is the calls to come,
`handed` what was returned. `vcmalloc_single` uses one variable for all its
nodes, so its containers are the ones whose contexts do not ascend.
**`ResultFile`** is `to_json` and `main`: each run reads a file, merges, empties
and writes it. **`Benchmark`** composes the two.

**`Deviations`**, with `ReallocatedList`, `ReallocatedDoublyLinkedList`,
`DuplicateInTree` and `AssignedTree`: operations whose comments the code does not
live up to. `Structures` leaves these operations out (`update`, the insert that makes
its own node before it looks, assignment of trees) and does not state of `pop` what it
breaks. `claims` is the promises still to be tried; a behaviour uses the
operations of the first one until it is broken, and goes on with the next.

**The proofs**: `NaturalsProofs` (least elements, induction, iteration and powers of two,
where the library's induction theorems cannot be used), on it `SearchProofs`,
`HyperContainerProofs` (in three parts: the layout, the page frame array and the
OS's side, the bytes and the refinement to `CallerArrays`), on that
`BenchmarkProofs` (the scenarios and the result files); `ChainsProofs` (chains of
nodes and heaps of them, and search trees, without a state), on it `ListsProofs` (what is
linked one way, each method a step of `AbstractList`) and `StructuresProofs` (the
other structures and all of them together); `HyperContainerManagerProofs`. `MCSearch`, `MCHyperContainer`,
`MCContainerRealloc2`, `MCStructures`, `MCTraversals`, `MCBenchmark`: the instances
for TLC; the manager and the deviations are checked as they are.

The operators named `Mut...` are mutated forms of the definition that follows
them. They occur in no behaviour; substituted for that definition, each makes
one property fail.

## What is checked

| Run | Question | Bounds and why they are enough |
|---|---|---|
| `search` | is every lookup in a non-empty ascending array right, in bounds and finite? | lengths 1 to 33, so that every power of two up to 32 has a length below, at and above it; every entry and every gap is looked up; 7-bit words hold all addresses with a sign |
| `search_empty` | does a lookup in an empty registry report "not found"? It does not end (finding below) | the same |
| `hypercontainer` | layout, frame order, storage, no unexpected error, room, what is left at the end, and the refinement to independent arrays | 3 arrays, element sizes 1, 2, 1 in pages of 4 bytes: containers start at all offsets, share a page three at a time, or span two pages; 4 frames and 3 reserved pages, so both frames and range run out; frame numbers and contexts have room for one at first, so that nearly every call extends both; the Extend calls with 0 and 3 |
| `realloc2` | layout, frame order, no unexpected error and contents for careful calls of `vcrealloc2` | 3 arrays of bytes in pages of 4, runs of one container (1, 6 or 9 elements) and of two (1, 5 or as it is): both grow, both shrink, one gives what the other takes, with surplus frames and with missing ones; 4 frames, 3 pages |
| `realloc2_behind`, `realloc2_pages`, `realloc2_none` | does `vcrealloc2` keep layout and contents in the other calls? It does not | the same, one member of `Uses` each |
| `manager` | order, ownership and release of hypercontainers, and the end of `vccalloc` | 5 usable granules, requests of part of one, one, and more than one, up to 3 hypercontainers (a middle one can be freed), 2 frames, any other tenants |
| `structures` | are the eight structures the sequences, set and queue they promise, with sound links and no node lost? | two lists, or two stacks derived from a list, over three addresses and two linked stacks over four, so that a copy has room beside its original; `MaxCount` is 3, the number of addresses, so that it stops nothing but a fourth push on a derived stack; sorted lists of three elements have a first, a last and one between; a tree of five nodes is the smallest in which the predecessor of a deleted node is not its child and has a subtree; circular arrays of up to four places wrap around and fill |
| `traversals` | do the walks visit what they promise, in order, and end? | all trees of up to six nodes; about 1600 graphs, of up to five vertices, the fewest in which breadth first differs from last in, first out, with cycles, self-loops and unreached vertices; all directed weighted graphs of three and undirected ones of four vertices with four weights, one of them "no edge", so vertices out of reach too (what `ShortestWeights` says is said while no array was left, and `Terminates` counts leaving one as an end); two structures of two nodes in seven blocks |
| `benchmark` | is what the scenarios build backed and in place, and do the files keep every measurement? | pages of 4 bytes with nodes of 3, which cross page boundaries as nodes of 24 bytes do; two structures of three nodes, three matrices of two rows; exactly the pages the code computes; four runs, three measurements, two files: two runs can repeat a measurement with another between them |
| `deviations` | is any of seven promises kept? None is | three addresses, two elements, a graph of two vertices without an edge, two runs of the benchmark: what the shortest failure of each needs |

Frames are interchangeable, so the runs of a hypercontainer use symmetry over them.

Fairness. `Search` assumes that a running loop goes on (`WF_vars(Next)`): it is
straight code in one thread. The manager assumes the same of the loop of a
`vccalloc` in progress, and nothing of calls not yet made. `Traversals` assumes
it of the turns of a walk that has begun (`Goes`), not of its caller's beginning another;
`Benchmark` of the steps of `to_json` in a run that has measured (`Steps`), not of runs being
started; no run of this specification is ended from outside, which only
`Deviations` looks at. `HyperContainer` and `Structures` need none. `ReservationEnds` is stated only while
there is room above the last hypercontainer; without it the loop of the code
does not end.

Deadlock is checked everywhere; a process that ended stutters (`Ended`, `Over`).

### Findings

1. `binarySearch` with no entries (`search_empty`) computes `max - 1` = the largest
   word; in `MSB` no power of two exceeds it, `msb` is shifted to 0, and `0 <= n`
   holds for ever. So `vcmalloc`, `vcrealloc`, `vccfree` or an Extend call before
   the first `vccalloc`, or after the last hypercontainer was freed, hangs instead
   of throwing "container not found" (vcmalloc.h:735, 316).
2. `vcrealloc2` of a run in which a container behind a growing one stays or shrinks
   (`realloc2_behind`): the second pass lowers its pointer (vcmalloc.h:638, 655)
   where the containers behind the run are raised (696). It then lies inside its
   predecessor. The shortest case is two containers and the counts (5, -1).
3. `vcrealloc2` that grows a container by two or more pages (`realloc2_pages`):
   the bytes of the next array in its last page are copied to the first of the
   new frames (670), but the next array then starts in the last of them.
   The benchmark's call (vcmalloc_bench.cpp:705) grows rows by any number of pages,
   whenever a row is not a whole number of pages.
4. `vcrealloc2` that leaves a container without pages behind another that shrinks
   (`realloc2_none`): the guest bytes are moved, within the old mapping, to a
   frame that the first container has already given up (552), and are lost.

The run `deviations` shows the other seven, one after the other; its property is
that some one of the seven promises is kept, so that a violation refutes them all.

5. `pop` of the stack derived from the list leaves `count`, and for the last node
   `last`, as they were (stackUnorderedLinkedList.h:58): `length` answers one too many.
6. `update` of the list relinks `count` nodes and then ends the list in the element
   behind them (unorderedLinkedList.h:45).
7. `update` of the doubly linked list sets `last` to the element behind the last
   node (doublyLinkedList.h:214).
8. `insert` of the search tree makes its node before it looks for the element, and
   drops it when the element is there (binarySearchTree.h:73).
9. The `root` of the search tree hides the one of its base class, whose copying works
   on a pointer that is always null: an assigned tree shares the nodes of the other
   (binarySearchTree.h:41).
10. When every vertex that `shortestPath` has not dealt with is out of reach, its loop gives
   `v` no value in that turn, and `weightFound[v]` is written and `weights[v]` read at
   whatever index the memory holds (graph.h:307, 316, 319). So no weight is
   determined for a graph with a vertex out of reach of the source: where `v` names some vertex
   the result is right (`ShortestWeights`), elsewhere nothing is known.
11. The result file is emptied before it is written, and one that does not parse is taken
   for an empty one: a benchmark that ends in between takes all earlier results
   with it (vcmalloc_bench.cpp:56, 36).

## What is proved

For every value of the constants that satisfies the named assumptions:

- `LayoutAlways`, `AddressesAlwaysAscend`, `CallerAlwaysHasRoom`
  (`HyperContainerProofs`): the layout of a hypercontainer, the order its lookup
  relies on, and that each container has the room its caller asked for.
  The assumptions are `PageSizeAssumption`, `HyperContainerAssumption` (the
  numbers of elements asked for are positive) and `DivisibleAssumption`: the sizes of
  elements that are reallocated divide the page size, since the code's division at lines 418
  and 462 leaves a hole otherwise. Without reallocations any size will do.
  `LayoutInv` alone is not inductive: `vcrealloc` finds its container by
  address, and only if distinct containers have distinct addresses is it the
  caller's. The invariant `LayoutIInv` therefore adds `EndsBefore` (every
  container ends before *every* later one starts, not only its neighbour) and
  the types. The argument: an append starts at the end of the last container;
  a reallocation of container k by d pages moves its end by exactly d pages
  (`ElementsExact`, the division is exact) and `Resettle` moves exactly the
  containers behind it, because each has a variable of its own, by the same d
  pages. That the moved addresses stay positive follows from `EndsBefore` too.
  The module begins with the facts on rounding and division.
- `RangesAlwaysAscend`, `RegistryAlwaysHasRoom`, `FramesAlwaysApart`,
  `ReservationsAlwaysMatch` (`HyperContainerManagerProofs`), from
  `ManagerAssumption`: hypercontainers ascend and never overlap, through frees
  from the middle and any refusals of `VirtualAlloc`; the arrays of the registry
  have room for the next entry; a frame has one owner, who will give it back; and
  between calls the OS has reserved the registered ranges and no others. For
  the first, the invariant adds that the address the retry loop is about to try
  is at or above the end of the last hypercontainer. The others build on it:
  ranges that ascend and are not empty have different bases, so a release by
  base address removes one range and it is that of the entry removed. The
  reservations match *during* `vccalloc` too; only the process that ends for want
  of memory for the registry leaves a range nobody has an entry for.
- `QueueTypeIsFifo`, `OnlyStoredAlways` (`StructuresProofs`): the
  circular array implements a bounded first-in first-out queue, for every size and
  element type. The refinement maps the array to the sequence of the `count`
  entries from `queueFront` on, modulo the size; the invariant is that front,
  rear and count agree and that those entries were stored. Each method maps to
  the abstract one of that name, or is the failed assertion of both.

- `FramesAlwaysInOrder`, `OnlyResourcesEverRunOut`, `AlwaysWithinStorage`,
  `NothingLeftWhenFreed`, `TypesAlwaysRight`, `SuffixAlwaysMovesByPages`
  (`HyperContainerProofs`), from the same assumptions and `FramesAssumption` (the mark of an
  unmapped page is no frame). The invariant `FramesIInv` is `LayoutIInv`, the
  types, and, while calls succeed, `Consistent`: the process holds
  exactly the frames of the array, each once, the page table is the array laid
  out from the base (`Backed`), and the array is as long as the containers have
  pages (`TotalPages`, the page boundary behind the last container). The layout is
  what connects the last of these to `getPFNsPosition`: the pages counted before a container
  are its first page's number, since containers touch (`PositionOfFrames`).
  The argument for a reallocation: closing (`Without`) or opening (`With`) a gap in
  the array at the container's last page keeps the array free of repetitions, and unmapping the
  pages from the container's first one and mapping the rest of the array there
  gives the page table of the new array (`Remap`); so the mapping succeeds
  exactly when the region has room, which is `OnlyResourcesRunOut`. What the
  guest bytes are read from and written to is backed, before or after the
  mapping as the direction requires (`GuestsBacked`), so no memmove faults. The
  one throw of a reallocation to fewer pages is the mapping of no page at all.
  `SuffixAlwaysMovesByPages` rests on `PagesCounted`: a container owns the pages from the
  boundary at or after its first byte to the one at or after its end. Its end moves by whole
  pages, so it gains or loses just as many, and these are what `Resettle` adds to the
  pointers of the containers behind it.
  Where a call throws, `Consistent` is not claimed: a throw may leave a gap in the array.
- `HyperContainerKeepsArrays` (`HyperContainerProofs`): `HyperContainer` implements
  `CallerArrays`. The invariant adds `AskedInUse`: something was asked through
  exactly the variables that have a container. The proof follows one byte:
  its address gives a page and an offset, the page an entry of the array, the entry
  a frame. A reallocation shifts the entries behind its container by d
  (`Spliced`) and copies the bytes from the container's end to its page's end
  into the page d further (`GuestsFollow`); the containers behind it move by d pages
  and keep their offsets, so that each of their bytes is found at its new address,
  in its old frame or, if it was a guest byte, in the one it was copied to
  (`BytesFollow`). For a store, two addresses with the same frame and offset are the
  same address (`SameByte`), because no frame backs two pages.
- `SearchAlwaysCorrect`, `ProbesAlwaysInBounds`, `TargetAlwaysInReach`
  (`SearchProofs`), from `SearchAssumption`, for every word width and every ascending
  array that is not empty. In every loop `msb` is a power of two, or zero at the end.
  In `MSB` it is at most twice the number it is for (`InMsb`), which lies in the array; in
  the loop that jumps, the entry one step back is too small (`InJump`), so that the
  loop that halves starts with the address between two entries (`Entered`). There a
  supported address keeps two steps of room on the side it can still go to
  (`Between`), and if the array has it, it is less than two steps away (`InReach`): halving
  keeps both, since an even step goes by its half exactly and the last step of
  one leaves none. For an address below the first entry the index leaves the array
  below, and by less than the array is long (`Astray`). No word wraps, because an
  array is shorter than half of what a word counts.
- `HandedAlwaysApart`, `NewDataAlwaysAdded` (`BenchmarkProofs`), for all numbers and sizes
  of a benchmark. The former needs the assumptions of `HyperContainerProofs`,
  `ScenarioAssumption` (the variables of one family have one element size, as they
  have one type) and `RangeAssumption`: the reserved range holds `container_size`,
  which is what `vcmalloc_single` reserves (vcmalloc_bench.cpp:309), and the matrices,
  for which the code reserves a fixed number of gigabytes (lines 638, 794, 1507). So that
  the range suffices is a result for `vcmalloc_single`, where it says that `container_size`
  counts enough, and an assumption for the matrices. The layout invariant `LayoutIInv` is of no
  use here, since all nodes share a variable and `OwnVariables` is false. `HandedIInv` instead
  states of the containers only that the last one ends where the calls handed out
  end (`Linked`): an append reads no other context. The bytes of a script are a
  running sum (`Sums`) that ends at the script's total (`ScriptsFit`), and a prefix
  is never above it. The latter needs `BenchmarkAssumption` only. `ResultIInv` follows a
  run from file to file: while one is being written, its old measurements are in
  the merged object, so emptying it on disk loses none of them (`GoodAt`). That is
  no protection against a run that ends there (finding 11).

- `RowsAlwaysInPlace` (`BenchmarkProofs`), from those assumptions and `RowsAssumption` (a row
  has a pointer of its own). `Called` says that what was handed out is what the script
  asks for; every script ends in its rows and has none before (`ScriptRows`), so between
  two rows lie rows only, and what is handed out has no holes.
- `StructuresAreSequences`, `StructuresTyped`, `StructuresWellLinked`,
  `StructuresOwnNodes` (`StructuresProofs`, on `ListsProofs` and `ChainsProofs`), from
  `StructuresAssumption` (finitely many addresses, none of them null; elements and
  `MaxCount` are numbers) and `QueueTypeAssumption`. A structure's state is a heap, and the methods walk it;
  the invariant has the walks' results instead, as a sequence of nodes for each object
  (`cs` of `ListInv`, `OrderedInv`, `DoublyInv` and so on). `Heap` says that
  these are chains: each node's link is the next one of its sequence, no node is twice in one or
  in two of them, and all nodes there are are in them. In `Linked` that a sequence is the
  chain from a pointer is a statement about its entries, without recursion; that the
  recursive `Chain` then returns it (`ChainIs`) is an induction over the number of
  steps, by sets of numbers, which the provers can do where the library's
  theorems are out of their reach. What a method does to the links
  is then an insertion into the sequence or a removal (`HeapInsert`, `HeapRemove`,
  `HeapCopy`, `HeapClear`), and the contents follow. The fields of each
  class are functions of the sequence (first, last, length, and for the doubly linked
  list the reversed links), except in the stack derived from a list, whose
  `pop` keeps two of them no longer: its `last` is only where a node may be, and its
  `count` is a number (`StackFields`), which is what `StructuresTyped` says of them. No
  bound on a length is used: `MaxCount` is any number.
  Ascending order (`Sorted`) is part of the invariants of the two ordered
  lists: their `deleteNode` stops at the first element that is not smaller, and only with the
  order has it then found the element if there is one. (`search` goes through the whole list.)
- `StructuresTreeIsSet` (`StructuresProofs`, with the lemmas on trees at the end of
  `ChainsProofs`). The invariant has, for each node, the sequence of nodes from the root
  to it (`TreeOf`, `w`): the search for its element goes through exactly these, and the
  sequence of a child is that of its parent and one node more. Any search follows the
  sequence of each node it meets (`WayAlong`), so it ends at the node with the element
  or shows that there is none (`SearchFinds`). That searches end at all is a
  descent: sequences grow, and none is longer than there are nodes. An insertion adds one sequence;
  unlinking a node with at most one child takes the node out of the sequences that go through it
  (`TreeUnlink`). Where a node has two, it takes the element of the
  rightmost node m of its left subtree: no element lies between the two
  (`Predecessor`), so with the new element all searches turn the same way as before
  (`TreeRekey`); m has no right child and is unlinked. The in-order walk, which
  `WellLinked` and `NodesOwned` use, gives the nodes below each node in ascending order
  (`InorderIs`), and all of them from the root.

Only model-checked: `vcrealloc2` and the traversals, which are stated with recursive
operators. Liveness
(`SearchTerminates`, `ReservationEnds`, `Terminates`, `Reported`) is outside what
the proof system handles.

## What is left out

- Addresses and counts are unbounded in `PageGeometry`, `HyperContainer` and
  `HyperContainerManager`; the `(int)` conversion of a page count (line 353)
  bites above 2^31 pages. Capacities are counted in entries.
- Pointer variables that themselves lie in a container (vcmalloc_bench.cpp:323):
  the models keep the caller's variables outside. In `HyperContainer` each variable
  has one array; `Scenarios` has the case of one variable for many.
- Element sizes that do not divide the page size where arrays are reallocated, and
  requests for no elements.
- Whether `MapUserPhysicalPages` accepts zero pages: left open, both outcomes
  are explored.
- Results of `malloc`, `HeapAlloc` and `VirtualAlloc` that the code uses without a
  test, in the constructor and in `ContainerRealloc2`.
- Destructors: no model has an end of an object. The ones of `graph.h` and of the search
  tree free the wrong number of rows and no node, respectively.
- The matrix scenarios over malloc and mimalloc (one array per row, nothing kept
  beyond them), the products themselves, clocks and counters, the CUDA benchmark;
  `vcmalloc_2d_matrix` is two hypercontainers with the calls of `ContainerRealloc2`.
- How a graph is read from its file; `minimalSpanning` on graphs that are not connected,
  where two variables are used that were not set.
- The privilege calls of the manager's constructor.
- mimalloc and Intel PCM, which are third-party code the benchmarks compare
  with or measure through. They are ninety percent of the lines of the
  repository; its own code is about 5,500 of 63,000, so that no model of it covers a large
  share of all lines.

## Plan

Left to prove: that careful calls of `vcrealloc2` keep `LayoutInv` and the frames in
order; and of the traversals, whose operators would have to be restated without
recursion, that each visits every node.
