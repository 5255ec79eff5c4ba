------------------------------ MODULE MCSearch ------------------------------
(***************************************************************************)
(* Search only compares addresses, so one array of each length with a gap  *)
(* before, between and after its entries stands for every ascending array  *)
(* of that length: the addresses looked up fall on every entry and in      *)
(* every gap.  Lengths 0..MaxEntries cross five powers of two.             *)
(***************************************************************************)
EXTENDS Search

MaxEntries == 33   \* bound: the longest array

MCAddresses == 0..2 * MaxEntries

MCArrays == {[i \in 1..n |-> 2 * i - 1] : n \in 0..MaxEntries}
=============================================================================
