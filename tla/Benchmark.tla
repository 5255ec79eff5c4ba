----------------------------- MODULE Benchmark -----------------------------
(***************************************************************************)
(* vcmalloc_bench: what its scenarios build in a hypercontainer            *)
(* (Scenarios), or what its runs, one after the other, leave in the result *)
(* files (ResultFile).  A scenario's measurements are all that passes from *)
(* the one to the other.                                                   *)
(***************************************************************************)
EXTENDS Scenarios

CONSTANTS Keys, Files, Default, MaxRuns   \* of ResultFile

ASSUME BenchmarkAssumption == Default \in Files /\ MaxRuns \in Nat

VARIABLES
  part,                                   \* "scenario" or "results"
  disk, pc, key, todo, rslt, run, last    \* of ResultFile

results       == <<disk, pc, key, todo, rslt, run, last>>
benchmarkVars == <<part, scenarioVars, results>>

Results == INSTANCE ResultFile

(* The variables of the part that is not looked at. *)
Idle == <<>>
NoResults ==
  /\ disk = Idle /\ pc = Idle /\ key = Idle /\ todo = Idle /\ rslt = Idle
  /\ run = Idle /\ last = Idle
NoScenario == Init /\ script = Idle /\ advance = Idle /\ handed = Idle

BenchmarkInit ==
  \/ part = "scenario" /\ ScenarioInit /\ NoResults
  \/ part = "results" /\ NoScenario /\ Results!Init

BenchmarkNext ==
  /\ UNCHANGED part
  /\ \/ part = "scenario" /\ ScenarioNext /\ UNCHANGED results
     \/ part = "results" /\ (Results!Starts \/ Results!Over) /\ UNCHANGED scenarioVars
     \/ part = "results" /\ Results!Steps /\ UNCHANGED scenarioVars

BenchmarkSpec ==
  /\ BenchmarkInit /\ [][BenchmarkNext]_benchmarkVars
  /\ WF_benchmarkVars(part = "results" /\ Results!Steps /\ UNCHANGED <<part, scenarioVars>>)

-----------------------------------------------------------------------------
(* What vcmalloc hands out in a scenario lies side by side, has a page     *)
(* frame of its own behind every byte, and fits in the reserved range,     *)
(* although vcmalloc_single gives it one variable for all the nodes.       *)
HandedOut == part = "scenario" => HandedApart /\ HandedBacked /\ RangeSuffices

(* The index arithmetic of the affine scenarios reaches every row.         *)
RowsInPlace == part = "scenario" => RowsAffine

(* "Add new data": between two runs every file has, for each key, the      *)
(* measurements of the last run that wrote them there.                     *)
NewDataAdded == part = "results" => Results!NewDataAdded

(* Every run's measurements get into results.json.                         *)
Reported ==
  \A n \in 1..MaxRuns :
    (part = "results" /\ run = n)
      ~> (part = "results" /\ \E k \in Keys : last[Default][k] >= n)
=============================================================================
