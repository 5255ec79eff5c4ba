----------------------------- MODULE ResultFile -----------------------------
(***************************************************************************)
(* to_json and main of vcmalloc_bench.cpp: every run of the benchmark adds *)
(* its measurements to results.json, and to a second file if the command   *)
(* line names one, by reading the file, merging and writing it anew.  The  *)
(* scripts run the benchmark again and again, one process after the other. *)
(***************************************************************************)
EXTENDS Integers, Sequences, FiniteSets

CONSTANTS
  Keys,       \* scenario, allocator, datatype, size, operation and n_test of a run
  Files,      \* "results.json" and the files of the command lines
  Default,    \* "results.json"
  MaxRuns     \* bound: runs of the benchmark

Nothing == <<>>

VARIABLES
  disk,      \* what each file parses to, Nothing if it does not parse
  pc,        \* of the benchmark now running: "idle", "read", "merge", "write", "close"
  key,       \* what it measured
  todo,      \* the files it has still to write
  rslt,      \* the contents as read and merged: the runs by key
  run,       \* its number, which stands for its measurements
  last       \* for each file and key, the last run whose to_json returned, or 0

vars == <<disk, pc, key, todo, rslt, run, last>>

Init ==
  /\ disk = [f \in Files |-> Nothing]
  /\ pc = "idle" /\ key \in Keys /\ todo = <<>> /\ rslt = Nothing /\ run = 0
  /\ last = [f \in Files |-> [k \in Keys |-> 0]]

-----------------------------------------------------------------------------
(* main: the scenario has run, with or without a fourth argument.          *)
MutNamedOnly(k, f) ==   \* mutant: a named file takes the place of results.json
  /\ pc = "idle" /\ run < MaxRuns
  /\ run' = run + 1 /\ key' = k
  /\ todo' = <<f>>
  /\ pc' = "read"
  /\ UNCHANGED <<disk, rslt, last>>
main(k, f) ==
  /\ pc = "idle" /\ run < MaxRuns
  /\ run' = run + 1 /\ key' = k
  /\ todo' = IF f = Default THEN <<Default>> ELSE <<Default, f>>
  /\ pc' = "read"
  /\ UNCHANGED <<disk, rslt, last>>

(* A file that is not there, or does not parse, is taken for an empty one: *)
(* `ok' is not looked at.                                                  *)
Read ==
  /\ pc = "read"
  /\ rslt' = disk[todo[1]] /\ pc' = "merge"
  /\ UNCHANGED <<disk, key, todo, run, last>>

MutOwnOnly ==   \* mutant: starts from an empty value
  /\ pc = "merge"
  /\ rslt' = [k \in {key} |-> run] /\ pc' = "write"
  /\ UNCHANGED <<disk, key, todo, run, last>>
Merge ==
  /\ pc = "merge"
  /\ rslt' = [k \in DOMAIN rslt \cup {key} |-> IF k = key THEN run ELSE rslt[k]]
  /\ pc' = "write"
  /\ UNCHANGED <<disk, key, todo, run, last>>

(* Opening for output empties the file. *)
Truncate ==
  /\ pc = "write"
  /\ disk' = [disk EXCEPT ![todo[1]] = Nothing] /\ pc' = "close"
  /\ UNCHANGED <<key, todo, rslt, run, last>>

Write ==
  /\ pc = "close"
  /\ disk' = [disk EXCEPT ![todo[1]] = rslt]
  /\ last' = [last EXCEPT ![todo[1]][key] = run]
  /\ todo' = Tail(todo)
  /\ pc' = IF Tail(todo) = <<>> THEN "idle" ELSE "read"
  /\ UNCHANGED <<key, rslt, run>>

Over == pc = "idle" /\ run = MaxRuns /\ UNCHANGED vars

Steps == Read \/ Merge \/ Truncate \/ Write

Starts == \E k \in Keys, f \in Files : main(k, f)

Next == Starts \/ Steps \/ Over

(* The process is ended from outside, at any moment. *)
Killed ==
  /\ pc # "idle" /\ pc' = "idle" /\ todo' = <<>>
  /\ UNCHANGED <<disk, key, rslt, run, last>>

-----------------------------------------------------------------------------
(* "Add new data": while no benchmark is running, every file has, for each *)
(* key, the measurements of the last run that wrote them there, whatever   *)
(* other runs and files came in between.                                   *)
NewDataAdded ==
  pc = "idle" => \A f \in Files, k \in Keys :
    IF last[f][k] = 0 THEN k \notin DOMAIN disk[f]
    ELSE IF k \in DOMAIN disk[f] THEN disk[f][k] = last[f][k] ELSE FALSE

(* ... and, whatever cuts a run short, no measurement that was in a file   *)
(* is lost from it.                                                        *)
EarlierKept ==
  pc = "idle" => \A f \in Files, k \in Keys : last[f][k] # 0 => k \in DOMAIN disk[f]
=============================================================================
