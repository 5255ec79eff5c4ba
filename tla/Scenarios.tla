----------------------------- MODULE Scenarios -----------------------------
(***************************************************************************)
(* The scenarios of vcmalloc_bench.cpp that build their data in one        *)
(* hypercontainer: the calls each makes, in its order.  vcmalloc_single    *)
(* gives vcmalloc one pointer variable for all its nodes, so that every    *)
(* node's context has the address of the last one; the affine scenarios    *)
(* reach the rows of their matrices from the first one by arithmetic.      *)
(***************************************************************************)
EXTENDS HyperContainer

CONSTANTS
  heads, nodes,          \* structures, or rows, and nodes, or elements, of each
  headsP, nodeP,         \* vcmalloc_single: the variables of the array, and of the nodes,
  headP,                 \* the variables headsP[i]
  arrayP, rowP           \* the same of the matrices: the arrays of rows, and the rows

ASSUME ScenarioAssumption ==
  /\ heads \in Nat \ {0} /\ nodes \in Nat
  /\ headsP \in PtrVars /\ nodeP \in PtrVars
  /\ headP \in [1..heads -> PtrVars]
  /\ arrayP \in [1..3 -> PtrVars] /\ rowP \in [1..3 * heads -> PtrVars]
  /\ \A i \in 1..heads : TypeSize[headP[i]] = TypeSize[headP[1]]
  /\ \A i \in 1..3 : TypeSize[arrayP[i]] = TypeSize[arrayP[1]]
  /\ \A i \in 1..3 * heads : TypeSize[rowP[i]] = TypeSize[rowP[1]]

ASSUME RowsAssumption ==   \* a row has its pointer to itself
  /\ IsInjective(rowP)
  /\ Range(rowP) \cap ({headsP, nodeP} \cup Range(headP) \cup Range(arrayP)) = {}

VARIABLES
  script,                \* the calls of vcmalloc: variable and count
  advance,               \* calls that make room in advance, still to be made
  handed                 \* what vcmalloc returned: address and bytes of each call

scenarioVars == <<vars, script, advance, handed>>

(* vcmalloc_single: the range it reserves, and its calls.                  *)
container_size ==
  2 * TypeSize[headsP] * heads + (TypeSize[headP[1]] + TypeSize[nodeP] * nodes) * heads
vcmalloc_single ==
  LET ofHead(i) == <<<<headP[i], 1>>>> \o [j \in 1..nodes |-> <<nodeP, 1>>]
      calls[i \in 0..heads] == IF i = 0 THEN <<<<headsP, heads>>>> ELSE calls[i - 1] \o ofHead(i)
  IN  calls[heads]

(* vcmalloc_2d_matrix_affine_array, and the allocations of the matrix      *)
(* multiplications, three square matrices: the arrays of row pointers      *)
(* come first.                                                             *)
vcmalloc_2d_matrix_affine_array ==
  <<<<arrayP[1], heads>>>> \o [i \in 1..heads |-> <<rowP[i], nodes \div 2>>]

MutPerMatrix(N) ==   \* mutant: each array right before its rows
  LET one(m) == <<<<arrayP[m], N>>>> \o [i \in 1..N |-> <<rowP[(m - 1) * N + i], N>>]
  IN  one(1) \o one(2) \o one(3)
vcmalloc_matmult(N) ==
  [m \in 1..3 |-> <<arrayP[m], N>>] \o [i \in 1..3 * N |-> <<rowP[i], N>>]

Scripts == {vcmalloc_single, vcmalloc_2d_matrix_affine_array, vcmalloc_matmult(heads)}

(* Each scenario has reserved a range: vcmalloc_single the bytes of         *)
(* container_size, the others a fixed number of gigabytes, which has to    *)
(* hold their matrices.                                                    *)
ASSUME RangeAssumption ==
  LET matrix(rows, elements) ==
        TypeSize[arrayP[1]] * rows + rows * (TypeSize[rowP[1]] * elements)
  IN  /\ container_size <= RegionPages * PageSize
      /\ matrix(heads, nodes \div 2) <= RegionPages * PageSize
      /\ 3 * matrix(heads, heads) <= RegionPages * PageSize

(* What each asks ExtendCcStorage and ExtendPfnsStorage for beforehand;    *)
(* vcmalloc_single forgets the contexts of the heads and of their array.   *)
Advance ==
  CASE script = vcmalloc_single ->
         <<<<"contexts", nodes * heads>>, <<"bytes", container_size>>>>
    [] script = vcmalloc_2d_matrix_affine_array ->
         <<<<"contexts", heads + 1>>, <<"bytes", RegionPages * PageSize>>>>
    [] OTHER -> <<>>
Frees == script = vcmalloc_single   \* vccfree at the end; the others leave that to the OS

-----------------------------------------------------------------------------
ScenarioInit == Init /\ script \in Scripts /\ advance = Advance /\ handed = <<>>

MakeRoom ==
  /\ Running /\ advance # <<>>
  /\ advance' = Tail(advance)
  /\ \/ advance[1][1] = "contexts" /\ ExtendCcStorage(advance[1][2])
     \/ advance[1][1] = "bytes" /\ ExtendPfnsStorage(advance[1][2])
  /\ UNCHANGED <<script, handed>>

Call ==
  /\ Running /\ advance = <<>> /\ Len(handed) < Len(script)
  /\ UNCHANGED <<script, advance>>
  /\ \E call \in {script[Len(handed) + 1]} :
       /\ ContainerAlloc(call[1], call[2])
       /\ handed' = IF status' # "running" THEN handed
                    ELSE Append(handed, <<pointer'[call[1]], TypeSize[call[1]] * call[2]>>)

Free ==
  /\ Running /\ Len(handed) = Len(script) /\ Frees
  /\ HyperContainerFree
  /\ UNCHANGED <<script, advance, handed>>

Over ==
  /\ ~Running \/ (Len(handed) = Len(script) /\ ~Frees)
  /\ UNCHANGED scenarioVars

ScenarioNext == MakeRoom \/ Call \/ Free \/ Over

-----------------------------------------------------------------------------
(* What was handed out lies in the order of the calls, without holes and   *)
(* without overlap: the address of the next container is taken from the    *)
(* last context while its variable still holds the last address, also when *)
(* the call is about to overwrite that same variable.                      *)
HandedApart ==
  \A k \in 1..Len(handed) :
    handed[k][1] = IF k = 1 THEN Base ELSE handed[k - 1][1] + handed[k - 1][2]

(* Every byte handed out has a page frame behind it, of its own.           *)
HandedBacked ==
  status = "running" =>
    /\ \A k \in 1..Len(handed) : Accessible(table, handed[k][1], handed[k][2])
    /\ \A p, q \in Pages : table[p] = table[q] => p = q \/ table[p] = NoFrame

(* The range that vcmalloc_single reserves has a page for all it allocates. *)
RangeSuffices == status # "cannot map"

(* The rows of the matrices, of equal length, lie at equal distances from  *)
(* each other: firstElem[i * N + k] is P_1[i][k], firstElem[k * N + j +    *)
(* N * N] is P_2[k][j], and so on.                                         *)
RowsAffine ==
  \A k, l \in 1..Len(handed), i, j \in DOMAIN rowP :
    script[k][1] = rowP[i] /\ script[l][1] = rowP[j]
      => handed[l][1] = handed[k][1] + (j - i) * handed[k][2]
=============================================================================
