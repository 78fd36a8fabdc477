------------------------------ MODULE MCWorker ------------------------------
(* Instances of Worker for TLC. *)
EXTENDS WorkerProps, TLC

CONSTANTS j1, j2

\* A project with both documents, and one without a MEMOIRE.
MCDocTypes ==
  [j \in Jobs |-> IF j = j1 THEN {"DCE", "MEMOIRE"} ELSE {"DCE"}]

RunSymmetry == Permutations(Runs)
=============================================================================
