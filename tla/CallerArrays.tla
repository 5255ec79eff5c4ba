---------------------------- MODULE CallerArrays ----------------------------
(***************************************************************************)
(* What a hypercontainer promises its caller, in the caller's own terms:   *)
(* a pointer variable names an array of the length it last asked for, and  *)
(* no call on one array changes a byte of another.  Where the arrays lie,  *)
(* and which pages they share, does not show.                              *)
(***************************************************************************)
EXTENDS Sequences, Naturals

CONSTANTS PtrVars,   \* the caller's pointer variables
          Byte,      \* the values of a byte
          Tag(_, _)  \* what the caller stores in a byte of an array

VARIABLE array       \* the bytes each variable names, <<>> while it names none

OthersUnchanged(V) == \A u \in PtrVars \ V : array'[u] = array[u]

Init == array = [v \in PtrVars |-> <<>>]

(* vcmalloc: v names a new array with any contents. *)
Create(v) ==
  /\ array[v] = <<>>
  /\ array' \in [PtrVars -> Seq(Byte)] /\ array'[v] # <<>>
  /\ OthersUnchanged({v})

(* vcrealloc of one array, vcrealloc2 of several: of each, the longest      *)
(* prefix the two lengths have in common is kept.                          *)
Resize(V) ==
  /\ array' \in [PtrVars -> Seq(Byte)]
  /\ \A v \in V : /\ array[v] # <<>> /\ array'[v] # <<>>
                  /\ \A k \in DOMAIN array[v] \cap DOMAIN array'[v] : array'[v][k] = array[v][k]
  /\ OthersUnchanged(V)

(* The caller fills its array through its pointer.                         *)
Store(v) ==
  /\ array[v] # <<>>
  /\ array' = [array EXCEPT ![v] = [k \in DOMAIN array[v] |-> Tag(v, k - 1)]]

(* vccfree, and the end of the process when a call throws. *)
Discard == array' = [v \in PtrVars |-> <<>>]

Next ==
  \/ Discard
  \/ \E v \in PtrVars : Create(v) \/ Store(v)
  \/ \E V \in SUBSET PtrVars : Resize(V)

Spec == Init /\ [][Next]_array
=============================================================================
