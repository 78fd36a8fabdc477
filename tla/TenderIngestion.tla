--------------------------- MODULE TenderIngestion ---------------------------
(***************************************************************************)
(* What the ingestion pipeline promises about a tender, as whoever reads   *)
(* the column status of processing_jobs sees it: a tender has one job,     *)
(* which is PENDING first, is taken up by the worker, and shows an outcome *)
(* that only work on it can change.  Pipeline, the composition of the      *)
(* archive service, the queue and the worker, implements this module.      *)
(***************************************************************************)
CONSTANT Tenders

VARIABLE seen  \* seen[t]: status of the job of t, or "absent"

IngestionInit == seen = [t \in Tenders |-> "absent"]

Show(t, s) == seen' = [seen EXCEPT ![t] = s]

\* The tender, its document and its job appear together, once.
Accept(t) == seen[t] = "absent" /\ Show(t, "PENDING")

\* The worker takes the job up, for the first time or again.
TakeUp(t) == seen[t] # "absent" /\ Show(t, "PROCESSING")

\* An outcome follows work; runs that overlap may replace it.
Settle(t) ==
  /\ seen[t] \in {"PROCESSING", "COMPLETED", "FAILED"}
  /\ \E s \in {"COMPLETED", "FAILED"} : Show(t, s)

IngestionNext == \E t \in Tenders : Accept(t) \/ TakeUp(t) \/ Settle(t)

IngestionSpec == IngestionInit /\ [][IngestionNext]_seen
=============================================================================
