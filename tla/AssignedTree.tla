---------------------------- MODULE AssignedTree ----------------------------
(***************************************************************************)
(* A second bSearchTreeType that the tree of SearchTree is assigned to.    *)
(* operator= of binaryTree.h copies the nodes below its own `root', which  *)
(* in a search tree is always null; the member `root' that hides it is     *)
(* then assigned as a pointer.                                             *)
(***************************************************************************)
EXTENDS SearchTree

VARIABLE other   \* the second tree's `root'

assign == other' = root /\ UNCHANGED vars

NextAssigned == assign \/ (Next /\ UNCHANGED other)

(* The second tree stays in memory, whatever is done to the first after    *)
(* the assignment.                                                         *)
CopyStands == other \in DOMAIN info \cup {null}
=============================================================================
