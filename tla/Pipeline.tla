------------------------------- MODULE Pipeline -------------------------------
(***************************************************************************)
(* The ingestion pipeline from end to end: requests that run               *)
(* ProcessZipArchive (Archive), the job queue by the contract that         *)
(* JobQueue implements (JobDelivery), and runs of HandleJob (Worker).      *)
(*                                                                         *)
(* The parts share the database and the object store.  The attempt of      *)
(* Archive, which stands for a project, its document and its job, is the   *)
(* job of the two other modules.  The i-th delivery of job a calls the     *)
(* handler in the run <<a, i>>.                                            *)
(***************************************************************************)
EXTENDS Integers, Sequences

CONSTANTS
  Requests, Tenders, Malformed, Manifest,  \* as in Archive
  Healthy,        \* requests that meet no fault
  ArchiveFaults,  \* what the other requests may meet
  WorkerFaults,   \* what runs may meet
  MaxDeliveries,  \* bound on the deliveries of a job
  MaxPairs,       \* as in Worker
  SavedTypes,     \* types of the documents ProcessZipArchive saves: {"DCE"}, since
                  \* it uploads no file of the column fichier_memoire
  Nothing         \* job of a run that has not started

VARIABLES
  step, row, txn, uploaded, gone, projects, documents, jobs,
  objects, queue, errors,                        \* as in Archive
  owed, done, dead,                              \* as in JobDelivery
  stage, job, pairs, ingested, stopped, status,
  points, rows, lost                             \* as in Worker

archiveVars == <<step, row, txn, uploaded, gone, projects, documents, jobs,
                 objects, queue, errors>>
deliveryVars == <<owed, done, dead>>
workerVars == <<stage, job, pairs, ingested, stopped, status, points, rows, lost>>
vars == <<archiveVars, deliveryVars, workerVars>>

Archive == INSTANCE Archive WITH Faults <- ArchiveFaults
HealthyArchive == INSTANCE Archive WITH Faults <- {}

Attempts == Archive!Attempts
Runs == Attempts \X (1..MaxDeliveries)
RunsOf(a) == {w \in Runs : w[1] = a}

Queue == INSTANCE JobDelivery WITH Jobs <- Attempts

Worker == INSTANCE Worker WITH
            Jobs <- Attempts, DocTypes <- [a \in Attempts |-> SavedTypes],
            Faults <- WorkerFaults, step <- stage, gone <- stopped

\* What the parts assume, and the bounds of this module.
ASSUME PipelineAssumption ==
  /\ Malformed \notin Tenders
  /\ Manifest \in [Requests -> Seq(Tenders \cup {Malformed})]
  /\ Healthy \subseteq Requests
  /\ ArchiveFaults \subseteq Archive!AllFaults
  /\ WorkerFaults \subseteq Worker!AllFaults
  /\ MaxDeliveries \in Nat \ {0}
  /\ MaxPairs \in Nat
  /\ SavedTypes \subseteq {"DCE", "MEMOIRE"}
  /\ Nothing \notin Attempts

Init == Archive!Init /\ Queue!DeliveryInit /\ Worker!Init

-----------------------------------------------------------------------------
\* What a step of a request does to the rest: the row of processing_jobs that
\* appears with a commit is PENDING, and a publication hands the job over.
HandOver ==
  /\ status' = [a \in Attempts |-> IF a \in jobs' \ jobs THEN "PENDING" ELSE status[a]]
  /\ IF queue' = queue THEN UNCHANGED deliveryVars
                       ELSE \E a \in queue' \ queue : Queue!Submit(a)
  /\ UNCHANGED <<stage, job, pairs, ingested, stopped, points, rows, lost>>

Ingest(r) ==
  /\ IF r \in Healthy THEN HealthyArchive!ProcessStep(r) ELSE Archive!ProcessStep(r)
  /\ HandOver

Disturb(r) ==
  /\ r \notin Healthy
  /\ Archive!Cancel(r) \/ Archive!Crash(r)
  /\ HandOver

\* The queue calls the handler: deliveries may overlap, and one that was made
\* before the job came to its end may be handled after it.
Deliver(a) ==
  /\ a \in owed \cup done \cup dead
  /\ \E i \in 1..MaxDeliveries :
       /\ \A k \in 1..(i - 1) : stage[<<a, k>>] # "idle"
       /\ Worker!Start(<<a, i>>, a)
  /\ UNCHANGED <<archiveVars, deliveryVars>>

\* FetchAndParse copies the object that the path of the document names.
Readable(a) == a \in documents \cap objects

\* A step of a run: it reads what is committed and stored, and when it returns
\* nil the queue is told.
Work(w) ==
  /\ Worker!HandleJob(w)
  /\ Worker!ReadDocuments(w) => Readable(job[w])
  /\ IF stage'[w] = "succeeded" THEN Queue!Succeed(job[w]) ELSE UNCHANGED deliveryVars
  /\ UNCHANGED archiveVars

Interrupt(w) ==
  /\ Worker!Cancel(w) \/ Worker!Crash(w)
  /\ UNCHANGED <<archiveVars, deliveryVars>>

\* The queue gives a job up only after failed runs (DeadLettersJustified of
\* JobQueueProps); their number is left open.
GiveUp(a) ==
  /\ \E w \in RunsOf(a) : stage[w] = "failed"
  /\ Queue!Bury(a)
  /\ UNCHANGED <<archiveVars, workerVars>>

Discharge(a) ==
  /\ Queue!Discharge(a)
  /\ UNCHANGED <<archiveVars, workerVars>>

Next ==
  \/ \E r \in Requests : Ingest(r) \/ Disturb(r)
  \/ \E a \in Attempts : Deliver(a) \/ GiveUp(a) \/ Discharge(a)
  \/ \E w \in Runs : Work(w) \/ Interrupt(w)

Spec == Init /\ [][Next]_vars
=============================================================================
