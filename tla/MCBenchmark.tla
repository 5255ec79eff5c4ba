---------------------------- MODULE MCBenchmark ----------------------------
(***************************************************************************)
(* Pages of four bytes.  The nodes of vcmalloc_single have three, so that  *)
(* they cross the boundaries of pages, as nodes of 24 bytes do.  Two       *)
(* structures of three nodes; matrices of two rows.  Four runs of the      *)
(* benchmark, three measurements, two files.                               *)
(***************************************************************************)
EXTENDS Benchmark

CONSTANTS f1, f2, f3, f4, f5, f6, f7

MCHeads  == <<"h1", "h2">>
MCArrays == <<"P_1", "P_2", "P_3">>
MCRows   == <<"r1", "r2", "r3", "r4", "r5", "r6">>
MCVars   == {"nodeP", "headsP"} \cup Range(MCHeads) \cup Range(MCArrays) \cup Range(MCRows)
MCSizes  == [v \in MCVars |->
  CASE v = "nodeP" -> 3 [] v \in Range(MCArrays) \cup Range(MCRows) -> 1 [] OTHER -> 2]
MCPages  == RoundUp(container_size) \div PageSize
=============================================================================
