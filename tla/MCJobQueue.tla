----------------------------- MODULE MCJobQueue -----------------------------
(* Instances of JobQueue for TLC. *)
EXTENDS JobQueueProps, TLC

\* Consumers that may all fail are interchangeable.
ConsumerSymmetry == Permutations(Consumers)
=============================================================================
