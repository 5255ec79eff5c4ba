------------------------- MODULE MCContainerRealloc2 -------------------------
(***************************************************************************)
(* Three arrays of one-byte elements in pages of four bytes, and runs of   *)
(* one and two containers that grow, shrink or stay.                       *)
(***************************************************************************)
EXTENDS ContainerRealloc2, TLC

CONSTANTS v1, v2, v3, f1, f2, f3, f4

OneByteEach == [v \in PtrVars |-> 1]

OneOrTwo == {<<a>> : a \in {1, 6, 9}} \cup {<<a, b>> : a, b \in {-1, 1, 5}}

FrameSymmetry == Permutations(Frames)
=============================================================================
