---------------------------- MODULE PipelineProps ----------------------------
(***************************************************************************)
(* What makes the parts of the ingestion pipeline correct together: what a *)
(* client that uploads an archive, and an operator who looks at the status *)
(* of a job and at the dead-letter queue, may rely on.                     *)
(***************************************************************************)
EXTENDS Pipeline

JobsOf(t) == {a \in jobs : Archive!Tender(a) = t}
TendersOf(r) == {Archive!Tender(a) : a \in {b \in Attempts : b[1] = r}}

\* The status of a tender, as a query that joins projects and jobs finds it.
seenBar ==
  [t \in Tenders |-> IF JobsOf(t) = {} THEN "absent" ELSE status[CHOOSE a \in JobsOf(t) : TRUE]]

Ingestion == INSTANCE TenderIngestion WITH seen <- seenBar

\* The pipeline implements TenderIngestion: whatever uploads of a tender race,
\* and whatever deliveries of its job overlap, repeat or come early, its
\* status appears once as PENDING, never returns to that, and shows an outcome
\* only after work.
ImplementsIngestion == Ingestion!IngestionSpec

\* An upload that meets no fault and is answered 202 has left every tender of
\* its manifest in the database, although another upload of the same tender
\* that races with it may fail at any point: it never gives way to a
\* transaction that is rolled back later.
HealthyUploadsIngest ==
  \A r \in Requests :
    r \in Healthy /\ step[r] = "accepted" => \A t \in TendersOf(r) : JobsOf(t) # {}

\* An operator who finds a job in the dead-letter queue, and no run at work on
\* it, reads an outcome in its status, not PENDING or PROCESSING, unless a run
\* died or an update of the status reported an error.
BuriedJobsShowOutcome ==
  \A a \in dead :
    (\A w \in RunsOf(a) : stage[w] \in {"idle", "succeeded", "failed"}) /\ a \notin lost
      => status[a] \in {"COMPLETED", "FAILED"}

-----------------------------------------------------------------------------
\* Requests and runs go on as in Archive and Worker, and the broker delivers
\* a job that it owes and nobody works on.
Waits(r) == step[r] = "create" /\ Archive!Locked(r) /\ Archive!Live(r)
Idle(a) == \A w \in RunsOf(a) : ~ Worker!Running(w)
Fairness ==
  /\ \A r \in Requests : WF_vars(~ Waits(r) /\ Ingest(r))
  /\ \A a \in Attempts : WF_vars(a \in owed /\ Idle(a) /\ Deliver(a))
  /\ \A w \in Runs : WF_vars(Work(w))
FairSpec == Spec /\ Fairness

Settled(t) == \E a \in JobsOf(t) : status[a] \in {"COMPLETED", "FAILED"}

\* What the code gives up on for attempt a: the process died between commit
\* and publication, the commit or the publication reported an error, an update
\* of the status reported an error, or a run died when the queue no longer owed
\* the job, or in the last of the deliveries the bound allows.
GivenUp(a) ==
  \/ step[a[1]] = "crashed" /\ a \notin queue
  \/ <<"commit", a>> \in errors \/ <<"publish", a>> \in errors
  \/ a \in lost
  \/ /\ \E w \in RunsOf(a) : stage[w] = "crashed"
     /\ a \notin owed \/ \A w \in RunsOf(a) : stage[w] # "idle"

\* From the answer to the outcome: every tender of a healthy upload shows an
\* outcome in the end, and the job that another upload left PENDING is the
\* only exception: nothing publishes that one again, not even an upload of the
\* same tender.
TendersGetAnOutcome ==
  \A r \in Requests :
    r \in Healthy /\ step[r] = "accepted" ~>
      \A t \in TendersOf(r) : Settled(t) \/ \E a \in JobsOf(t) : GivenUp(a)

-----------------------------------------------------------------------------
(* What the documentation says. *)

\* "Set job status to `COMPLETED`" (wiki/Ingestion-Pipeline.md:52): without any
\* fault, the tenders of an accepted upload are completed.
AcceptedTendersComplete ==
  \A r \in Requests :
    step[r] = "accepted" ~> \A t \in TendersOf(r) : \E a \in JobsOf(t) : status[a] = "COMPLETED"
=============================================================================
