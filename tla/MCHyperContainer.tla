-------------------------- MODULE MCHyperContainer --------------------------
(***************************************************************************)
(* A hypercontainer of four-byte pages with arrays of one-byte and         *)
(* two-byte elements, so that containers share pages, start at every       *)
(* offset, and lie within one page as well as across several.              *)
(***************************************************************************)
EXTENDS HyperContainer, TLC

CONSTANTS v1, v2, v3, f1, f2, f3, f4

SizesOneTwo == [v \in PtrVars |-> IF v = v2 THEN 2 ELSE 1]

FrameSymmetry == Permutations(Frames)
=============================================================================
