---------------------------- MODULE WorkerProps ----------------------------
(***************************************************************************)
(* What makes the worker correct: the link between the rows of             *)
(* reponses_historiques and the points of Qdrant, and the status of a job  *)
(* that several runs work on.                                              *)
(***************************************************************************)
EXTENDS Worker

Steps == {"idle", "status", "read", "extract", "ingest", "save", "rollback",
          "failJob"} \cup Ended

AllPairs == Runs \X (1..MaxPairs)

\* Type invariant.
TypeOK ==
  /\ step \in [Runs -> Steps]
  /\ job \in [Runs -> Jobs \cup {Nothing}]
  /\ pairs \in [Runs -> 0..MaxPairs]
  /\ ingested \in [Runs -> 0..MaxPairs]
  /\ gone \subseteq Runs
  /\ status \in [Jobs -> Statuses]
  /\ points \subseteq AllPairs
  /\ rows \subseteq AllPairs
  /\ lost \subseteq Jobs

\* Every row has its point ("Lien exact avec la DB Vectorielle", the comment
\* on qdrant_point_id in the migration): whatever run fails, is cancelled or
\* dies, the rollback of its points never leaves a row that names a point
\* which is gone.
RowsHavePoints == rows \subseteq points

\* A job is marked COMPLETED only when some run has stored every pair it
\* extracted, in Qdrant and in the database, and no other run or retry takes
\* them away.
CompletedIsStored ==
  \A j \in Jobs :
    status[j] = "COMPLETED" =>
      \E w \in Runs :
        /\ job[w] = j
        /\ step[w] \in {"succeeded", "failed"}
        /\ ingested[w] = pairs[w]
        /\ Pairs(w, pairs[w]) \subseteq rows \cap points

\* A job at rest shows an outcome: however its runs overlap, the status written
\* last is COMPLETED or FAILED, not PROCESSING, unless an update reported an
\* error or a run died.
RestingJobHasOutcome ==
  \A j \in Jobs :
    LET runs == {w \in Runs : job[w] = j}
    IN  /\ runs # {} /\ j \notin lost
        /\ \A w \in runs : step[w] \in {"succeeded", "failed"}
        => status[j] \in {"COMPLETED", "FAILED"}

-----------------------------------------------------------------------------
(* What the documentation says. *)

\* "On vector ingestion failure, all Qdrant points for the current job are
\* rolled back" (wiki/Ingestion-Pipeline.md:59): a run that failed leaves none.
FailedRunsLeaveNoPoints ==
  \A w \in Runs : step[w] = "failed" => \A p \in points : p[1] # w
=============================================================================
