----------------------------- MODULE Dispersed -----------------------------
(***************************************************************************)
(* malloc_dispersed and mi_malloc_dispersed of vcmalloc_bench.cpp: heads   *)
(* and nodes from the allocator one by one, a search through every         *)
(* structure, and a walk that frees the nodes of any structure through the *)
(* pointer at their offset 8.  All node types have their element at        *)
(* offset 0: offset 8 is `link' or `next' of a list, `rLink' of a tree.    *)
(***************************************************************************)
EXTENDS Nodes

CONSTANTS
  heads, nodes,   \* how many structures, and nodes in each
  Kinds           \* what the heads are: see perTypeAppend

VARIABLES
  kind,              \* the HeadType of this run of the benchmark
  allocated,         \* the allocator's blocks in use
  headsP,            \* the block of the array and those of the heads
  info, at8, at16,   \* the fields of the nodes
  first, last,       \* the fields of the heads
  i, j,              \* the loop variables
  to_delete,         \* the node to free next
  pc                 \* the phase: "build", "search", "free", "done" or "fault"

structure == <<info, at8, at16, first, last>>
Heads == 0..heads - 1

Init ==
  /\ kind \in Kinds
  /\ allocated = {} /\ headsP = <<>>
  /\ info = <<>> /\ at8 = <<>> /\ at16 = <<>>
  /\ first = [h \in Heads |-> null] /\ last = [h \in Heads |-> null]
  /\ i = 0 /\ j = 0 /\ to_delete = null
  /\ pc = "build"

-----------------------------------------------------------------------------
chain(h) == Chain(at8, first[h])
Tree(h) == INSTANCE SearchTree WITH
  root <- first[h], rLink <- at8, lLink <- at16, answer <- <<>>

(* perTypeAppend: insertLast and addQueue; push; insert of the sorted      *)
(* lists; insert of the tree.                                              *)
InsertLast(h, x, a) ==
  /\ first' = [first EXCEPT ![h] = IF @ = null THEN a ELSE @]
  /\ last' = [last EXCEPT ![h] = a]
  /\ at8' = With(IF last[h] = null THEN at8 ELSE [at8 EXCEPT ![last[h]] = a], a, null)
  /\ at16' = With(at16, a, null)
Push(h, x, a) ==
  /\ first' = [first EXCEPT ![h] = a]
  /\ last' = last
  /\ at8' = With(at8, a, first[h]) /\ at16' = With(at16, a, null)
InsertSorted(h, x, a) ==
  \E c \in {chain(h)} : \E k \in {FirstFrom(info, c, x)} :
    /\ first' = [first EXCEPT ![h] = IF k = 1 THEN a ELSE @]
    /\ last' = [last EXCEPT ![h] = IF k > Len(c) THEN a ELSE @]
    /\ at8' = With(IF k = 1 THEN at8 ELSE [at8 EXCEPT ![c[k - 1]] = a],
                   a, IF k > Len(c) THEN null ELSE c[k])
    /\ at16' = With(at16, a, null)
InsertTree(h, x, a) ==
  \E path \in {Tree(h)!Path(x)} : \E left \in {path # <<>> /\ info[Last(path)] > x} :
    /\ first' = [first EXCEPT ![h] = IF path = <<>> THEN a ELSE @]
    /\ last' = last
    /\ at8' = With(IF path = <<>> \/ left THEN at8 ELSE [at8 EXCEPT ![Last(path)] = a], a, null)
    /\ at16' = With(IF left THEN [at16 EXCEPT ![Last(path)] = a] ELSE at16, a, null)

perTypeAppend(h, x, a) ==
  /\ info' = With(info, a, x)
  /\ \/ kind = "last"   /\ InsertLast(h, x, a)
     \/ kind = "first"  /\ Push(h, x, a)
     \/ kind = "sorted" /\ InsertSorted(h, x, a)
     \/ kind = "tree"   /\ InsertTree(h, x, a)

malloc(a) == a \in Address \ allocated /\ allocated' = allocated \cup {a}

(* The array of the heads, then each head followed by its nodes. *)
NewArray(a) ==
  /\ pc = "build" /\ headsP = <<>>
  /\ malloc(a) /\ headsP' = <<a>>
  /\ UNCHANGED <<kind, structure, i, j, to_delete, pc>>
NewHead(a) ==
  /\ pc = "build" /\ headsP # <<>> /\ i < heads /\ Len(headsP) = i + 1
  /\ malloc(a) /\ headsP' = Append(headsP, a)
  /\ UNCHANGED <<kind, structure, i, j, to_delete, pc>>
Element == i * nodes + j
NewNode(a) ==
  /\ pc = "build" /\ Len(headsP) = i + 2 /\ j < nodes
  /\ malloc(a) /\ perTypeAppend(i, Element, a)
  /\ j' = j + 1
  /\ UNCHANGED <<kind, headsP, i, to_delete, pc>>
NextHead ==
  /\ pc = "build" /\ Len(headsP) = i + 2 /\ j = nodes
  /\ i' = i + 1 /\ j' = 0
  /\ UNCHANGED <<kind, allocated, headsP, structure, to_delete, pc>>

(* The search for an element that no structure has, in all of them.        *)
Visited(h) ==
  ToSet(IF kind = "tree" THEN Tree(h)!Path(heads * nodes + 1) ELSE chain(h))
Search ==
  /\ pc = "build" /\ i = heads
  /\ pc' = "search" /\ i' = 0
  /\ UNCHANGED <<kind, allocated, headsP, structure, j, to_delete>>
StartFree ==
  /\ pc = "search"
  /\ pc' = "free" /\ to_delete' = first[0]
  /\ UNCHANGED <<kind, allocated, headsP, structure, i, j>>

(* One turn of the loop: the pointer is read before the node is freed.     *)
FreeNode ==
  /\ pc = "free" /\ to_delete # null
  /\ IF to_delete \notin allocated THEN pc' = "fault" /\ UNCHANGED <<allocated, to_delete>>
     ELSE /\ allocated' = allocated \ {to_delete}
          /\ to_delete' = at8[to_delete]
          /\ UNCHANGED pc
  /\ UNCHANGED <<kind, headsP, structure, i, j>>
MutFreesFirst ==   \* mutant: the heads are freed by the first one
  /\ pc = "free" /\ to_delete = null /\ i < heads
  /\ allocated' = allocated \ {headsP[2]}
  /\ i' = i + 1 /\ to_delete' = IF i + 1 < heads THEN first[i + 1] ELSE null
  /\ UNCHANGED <<kind, headsP, structure, j, pc>>
FreeHead ==
  /\ pc = "free" /\ to_delete = null /\ i < heads
  /\ allocated' = allocated \ {headsP[i + 2]}
  /\ i' = i + 1 /\ to_delete' = IF i + 1 < heads THEN first[i + 1] ELSE null
  /\ UNCHANGED <<kind, headsP, structure, j, pc>>
FreeArray ==
  /\ pc = "free" /\ to_delete = null /\ i = heads
  /\ allocated' = allocated \ {headsP[1]}
  /\ pc' = "done"
  /\ UNCHANGED <<kind, headsP, structure, i, j, to_delete>>

Step ==
  \/ \E a \in Address : NewArray(a) \/ NewHead(a) \/ NewNode(a)
  \/ NextHead \/ Search \/ StartFree \/ FreeNode \/ FreeHead \/ FreeArray

-----------------------------------------------------------------------------
(* No node is freed twice and none is read after it was freed. *)
NoFault == pc # "fault"

(* "Linear First Access": the search touches every node of the structure.  *)
(* Of a tree it sees one path only, so this needs the order in which the   *)
(* elements were appended.                                                 *)
TouchesAll ==
  pc = "search" => /\ UNION {Visited(h) : h \in Heads} = DOMAIN info
                   /\ Cardinality(DOMAIN info) = heads * nodes

(* The walk along offset 8 gives back every block, of a tree too.          *)
AllFreed == pc = "done" => allocated = {}
=============================================================================
