---------------------------- MODULE PipelineProofs ----------------------------
(***************************************************************************)
(* Proofs about Pipeline, for any number of uploads, tenders, deliveries   *)
(* and faults.  The invariants of Archive and Worker hold of the whole, as *)
(* every step of the pipeline is a step of theirs or leaves them alone;    *)
(* the inductive invariant adds what ties the parts together, and the      *)
(* pipeline is shown to implement TenderIngestion.                         *)
(***************************************************************************)
EXTENDS PipelineProps, TLAPS

ArchiveP == INSTANCE ArchiveProofs WITH Faults <- ArchiveFaults
WorkerP == INSTANCE WorkerProofs WITH
             Jobs <- Attempts, DocTypes <- [a \in Attempts |-> SavedTypes],
             Faults <- WorkerFaults, step <- stage, gone <- stopped

\* Steps of a run that has written a status.
TakenUp == {"read", "extract", "ingest", "save", "rollback", "failJob", "succeeded"}

\* The queue owes, or has ended, only jobs that were published, and has buried
\* none without a failed run.
QueueInv ==
  /\ owed \cup done \cup dead \subseteq queue
  /\ \A a \in dead : \E w \in Runs : w[1] = a /\ stage[w] = "failed"

\* A run works on the job it was delivered for; one that has taken it up has
\* moved its status from PENDING.
DeliveryInv(w) ==
  /\ job[w] # Nothing => job[w] = w[1] /\ w[1] \in owed \cup done \cup dead
  /\ stage[w] \in TakenUp => status[w[1]] # "PENDING"

\* Nobody has touched the status of a job that was not published.
Untouched(a) == a \notin queue => status[a] = "PENDING"

\* The rows a healthy upload has left behind have their tenders in the database.
Covered(r) ==
  \A i \in Nat \ {0} :
    i < row[r] /\ i <= Len(Manifest[r]) /\ Manifest[r][i] # Malformed =>
      \E a \in jobs : Archive!Tender(a) = Manifest[r][i]
HealthyInv(r) ==
  /\ r \notin gone
  /\ step[r] \notin {"cleanup", "crashed"}
  /\ step[r] = "accepted" => row[r] > Len(Manifest[r])
  /\ Covered(r)

\* The inductive invariant.
PipelineInv ==
  /\ ArchiveP!ArchiveInv
  /\ WorkerP!WorkerInv
  /\ QueueInv
  /\ \A w \in Runs : DeliveryInv(w)
  /\ \A a \in Attempts : Untouched(a)
  /\ \A r \in Healthy : HealthyInv(r)

-----------------------------------------------------------------------------
(* The parts. *)

\* What the parts assume of their constants holds.
LEMMA PartsAssumptions == ArchiveP!ArchiveAssumption /\ WorkerP!WorkerAssumption
BY PipelineAssumption
DEF ArchiveP!ArchiveAssumption, ArchiveP!AllFaults, Archive!AllFaults,
    WorkerP!WorkerAssumption, WorkerP!AllFaults, Worker!AllFaults

LEMMA SameAttempts ==
  /\ Attempts = ArchiveP!Attempts
  /\ \A a : Archive!Tender(a) = ArchiveP!Tender(a)
BY DEF Attempts, Archive!Attempts, ArchiveP!Attempts, Archive!Tender, ArchiveP!Tender

\* A step of a request, with or without faults, is one of Archive.
LEMMA ArchiveStep ==
  ASSUME NEW r \in Requests, Archive!ProcessStep(r)
  PROVE  ArchiveP!ProcessStep(r)
<1> USE DEF Archive!Goto, ArchiveP!Goto, Archive!NextRow, ArchiveP!NextRow,
            Archive!Abort, ArchiveP!Abort, Archive!Insert, ArchiveP!Insert,
            Archive!Live, ArchiveP!Live, Archive!Fails, ArchiveP!Fails,
            Archive!Err, ArchiveP!Err, Archive!AtRow, ArchiveP!AtRow,
            Archive!Exists, ArchiveP!Exists, Archive!Locked, ArchiveP!Locked,
            Archive!Tender, ArchiveP!Tender, Archive!Attempt, ArchiveP!Attempt,
            Archive!tables, ArchiveP!tables, Archive!MakeVisible, ArchiveP!MakeVisible,
            Archive!With, ArchiveP!With
<1>1. Archive!Start(r) => ArchiveP!Start(r) BY DEF Archive!Start, ArchiveP!Start
<1>2. Archive!Refuse(r) => ArchiveP!Refuse(r) BY DEF Archive!Refuse, ArchiveP!Refuse
<1>3. Archive!SkipMalformed(r) => ArchiveP!SkipMalformed(r)
  BY DEF Archive!SkipMalformed, ArchiveP!SkipMalformed
<1>4. Archive!CheckProjectExists(r) => ArchiveP!CheckProjectExists(r)
  BY DEF Archive!CheckProjectExists, ArchiveP!CheckProjectExists
<1>5. Archive!CreateProject(r) => ArchiveP!CreateProject(r)
  BY DEF Archive!CreateProject, ArchiveP!CreateProject
<1>6. Archive!CreateProjectFails(r) => ArchiveP!CreateProjectFails(r)
  BY DEF Archive!CreateProjectFails, ArchiveP!CreateProjectFails
<1>7. Archive!Upload(r) => ArchiveP!Upload(r) BY DEF Archive!Upload, ArchiveP!Upload
<1>8. Archive!UploadFails(r) => ArchiveP!UploadFails(r)
  BY DEF Archive!UploadFails, ArchiveP!UploadFails
<1>9. Archive!SaveDocument(r) => ArchiveP!SaveDocument(r)
  BY DEF Archive!SaveDocument, ArchiveP!SaveDocument
<1>10. Archive!CreateJob(r) => ArchiveP!CreateJob(r)
  BY DEF Archive!CreateJob, ArchiveP!CreateJob
<1>11. Archive!StatementFails(r) => ArchiveP!StatementFails(r)
  BY DEF Archive!StatementFails, ArchiveP!StatementFails
<1>12. Archive!Commit(r) => ArchiveP!Commit(r) BY DEF Archive!Commit, ArchiveP!Commit
<1>13. Archive!CommitFails(r) => ArchiveP!CommitFails(r)
  BY DEF Archive!CommitFails, ArchiveP!CommitFails
<1>14. Archive!Cleanup(r) => ArchiveP!Cleanup(r) BY DEF Archive!Cleanup, ArchiveP!Cleanup
<1>15. Archive!Publish(r) => ArchiveP!Publish(r) BY DEF Archive!Publish, ArchiveP!Publish
<1>16. Archive!Finish(r) => ArchiveP!Finish(r) BY DEF Archive!Finish, ArchiveP!Finish
<1> QED
  BY ONLY <1>1, <1>2, <1>3, <1>4, <1>5, <1>6, <1>7, <1>8, <1>9, <1>10, <1>11, <1>12, <1>13,
     <1>14, <1>15, <1>16, Archive!ProcessStep(r)
  DEF Archive!ProcessStep, ArchiveP!ProcessStep

LEMMA DisturbStep ==
  ASSUME NEW r \in Requests, Archive!Cancel(r) \/ Archive!Crash(r)
  PROVE  ArchiveP!Cancel(r) \/ ArchiveP!Crash(r)
BY DEF Archive!Cancel, ArchiveP!Cancel, Archive!Crash, ArchiveP!Crash, Archive!Running,
       ArchiveP!Running, Archive!Goto, ArchiveP!Goto, Archive!tables, ArchiveP!tables

\* A step of a request that meets no fault is a step of Archive; it never goes
\* back to clean up, and it leaves a row behind only when the row is malformed
\* or its tender has a project.
LEMMA HealthyStep ==
  ASSUME NEW r \in Requests, HealthyArchive!ProcessStep(r), ArchiveP!ArchiveInv,
         r \notin gone, step[r] # "cleanup"
  PROVE  /\ ArchiveP!ProcessStep(r)
         /\ r \notin gone'
         /\ \/ row' = row /\ step'[r] \notin {"cleanup", "crashed", "accepted"}
            \/ row' = row /\ row[r] > Len(Manifest[r]) /\ step'[r] = "accepted"
            \/ /\ row' = [row EXCEPT ![r] = @ + 1] /\ step'[r] = "row"
               /\ \/ Archive!Tender(<<r, row[r]>>) = Malformed
                  \/ \E a \in projects : Archive!Tender(a) = Archive!Tender(<<r, row[r]>>)
<1> USE DEF HealthyArchive!Goto, ArchiveP!Goto, HealthyArchive!NextRow, ArchiveP!NextRow,
            HealthyArchive!Abort, ArchiveP!Abort, HealthyArchive!Insert, ArchiveP!Insert,
            HealthyArchive!Live, ArchiveP!Live, HealthyArchive!Fails, ArchiveP!Fails,
            HealthyArchive!Err, ArchiveP!Err, HealthyArchive!AtRow, ArchiveP!AtRow,
            HealthyArchive!Exists, ArchiveP!Exists, HealthyArchive!Locked, ArchiveP!Locked,
            HealthyArchive!Tender, ArchiveP!Tender, HealthyArchive!Attempt, ArchiveP!Attempt,
            HealthyArchive!tables, ArchiveP!tables, HealthyArchive!MakeVisible,
            ArchiveP!MakeVisible, HealthyArchive!With, ArchiveP!With, Archive!Tender
<1>1. step \in [Requests -> ArchiveP!Steps] /\ ArchiveP!RequestInv(r)
  BY DEF ArchiveP!ArchiveInv, ArchiveP!TypeOK
<1>2. CASE HealthyArchive!Start(r) \/ HealthyArchive!Refuse(r) \/ HealthyArchive!Finish(r)
  <2>1. ArchiveP!Start(r) \/ ArchiveP!Refuse(r) \/ ArchiveP!Finish(r)
    BY <1>2 DEF HealthyArchive!Start, ArchiveP!Start, HealthyArchive!Refuse, ArchiveP!Refuse,
                HealthyArchive!Finish, ArchiveP!Finish
  <2>2. /\ row' = row /\ gone' = gone
        /\ \/ step' = [step EXCEPT ![r] = "row"] \/ step' = [step EXCEPT ![r] = "refused"]
           \/ step' = [step EXCEPT ![r] = "accepted"] /\ row[r] > Len(Manifest[r])
    BY <2>1 DEF ArchiveP!Start, ArchiveP!Refuse, ArchiveP!Finish
  <2> QED BY <1>1, <2>1, <2>2 DEF ArchiveP!ProcessStep
<1>3. CASE HealthyArchive!SkipMalformed(r) \/ HealthyArchive!CheckProjectExists(r)
  <2>1. ArchiveP!SkipMalformed(r) \/ ArchiveP!CheckProjectExists(r)
    BY <1>3 DEF HealthyArchive!SkipMalformed, ArchiveP!SkipMalformed,
                HealthyArchive!CheckProjectExists, ArchiveP!CheckProjectExists
  <2>2. /\ gone' = gone
        /\ \/ row' = row /\ step' = [step EXCEPT ![r] = "create"]
           \/ /\ row' = [row EXCEPT ![r] = @ + 1] /\ step' = [step EXCEPT ![r] = "row"]
              /\ \/ Archive!Tender(<<r, row[r]>>) = Malformed
                 \/ \E a \in projects : Archive!Tender(a) = Archive!Tender(<<r, row[r]>>)
    BY <1>3 DEF HealthyArchive!SkipMalformed, HealthyArchive!CheckProjectExists
  <2> QED BY <1>1, <2>1, <2>2 DEF ArchiveP!ProcessStep
<1>4. CASE \/ HealthyArchive!CreateProject(r) \/ HealthyArchive!Upload(r)
           \/ HealthyArchive!SaveDocument(r) \/ HealthyArchive!CreateJob(r)
           \/ HealthyArchive!Commit(r)
  <2>1. \/ ArchiveP!CreateProject(r) \/ ArchiveP!Upload(r) \/ ArchiveP!SaveDocument(r)
        \/ ArchiveP!CreateJob(r) \/ ArchiveP!Commit(r)
    BY <1>4 DEF HealthyArchive!CreateProject, ArchiveP!CreateProject, HealthyArchive!Upload,
                ArchiveP!Upload, HealthyArchive!SaveDocument, ArchiveP!SaveDocument,
                HealthyArchive!CreateJob, ArchiveP!CreateJob, HealthyArchive!Commit,
                ArchiveP!Commit
  <2>2. /\ row' = row /\ gone' = gone
        /\ \/ step' = [step EXCEPT ![r] = "upload"] \/ step' = [step EXCEPT ![r] = "save"]
           \/ step' = [step EXCEPT ![r] = "job"] \/ step' = [step EXCEPT ![r] = "commit"]
           \/ step' = [step EXCEPT ![r] = "publish"]
    BY <1>4 DEF HealthyArchive!CreateProject, HealthyArchive!Upload,
                HealthyArchive!SaveDocument, HealthyArchive!CreateJob, HealthyArchive!Commit
  <2> QED BY <1>1, <2>1, <2>2 DEF ArchiveP!ProcessStep
<1>5. CASE HealthyArchive!CreateProjectFails(r)
  <2>1. ArchiveP!CreateProjectFails(r)
    BY <1>5 DEF HealthyArchive!CreateProjectFails, ArchiveP!CreateProjectFails
  <2>2. ~ uploaded[r] BY <1>1, <1>5 DEF HealthyArchive!CreateProjectFails, ArchiveP!RequestInv
  <2>3. /\ gone' = gone
        /\ row' = [row EXCEPT ![r] = @ + 1] /\ step' = [step EXCEPT ![r] = "row"]
        /\ \E a \in projects : Archive!Tender(a) = Archive!Tender(<<r, row[r]>>)
    BY <1>5, <2>2 DEF HealthyArchive!CreateProjectFails
  <2> QED BY <1>1, <2>1, <2>3 DEF ArchiveP!ProcessStep
<1>6. CASE HealthyArchive!Publish(r)
  <2>1. ArchiveP!Publish(r) BY <1>6 DEF HealthyArchive!Publish, ArchiveP!Publish
  <2>2. /\ gone' = gone /\ step[r] = "publish"
        /\ row' = [row EXCEPT ![r] = @ + 1] /\ step' = [step EXCEPT ![r] = "row"]
    BY <1>6 DEF HealthyArchive!Publish
  <2>3. <<r, row[r]>> \in projects BY <1>1, <2>2 DEF ArchiveP!RequestInv
  <2> QED BY <1>1, <2>1, <2>2, <2>3 DEF ArchiveP!ProcessStep
<1>7. /\ ~ HealthyArchive!UploadFails(r) /\ ~ HealthyArchive!StatementFails(r)
      /\ ~ HealthyArchive!CommitFails(r) /\ ~ HealthyArchive!Cleanup(r)
  BY DEF HealthyArchive!UploadFails, HealthyArchive!StatementFails,
         HealthyArchive!CommitFails, HealthyArchive!Cleanup
<1> QED
  BY ONLY <1>2, <1>3, <1>4, <1>5, <1>6, <1>7, HealthyArchive!ProcessStep(r)
  DEF HealthyArchive!ProcessStep

\* A step of a run is one of Worker.
LEMMA WorkerStart ==
  ASSUME NEW w \in Runs, NEW a \in Attempts, Worker!Start(w, a)
  PROVE  WorkerP!Start(w, a)
BY DEF Worker!Start, WorkerP!Start, Worker!Goto, WorkerP!Goto

LEMMA WorkerStep ==
  ASSUME NEW w \in Runs, Worker!HandleJob(w) \/ Worker!Cancel(w) \/ Worker!Crash(w)
  PROVE  WorkerP!HandleJob(w) \/ WorkerP!Cancel(w) \/ WorkerP!Crash(w)
<1> USE DEF Worker!Goto, WorkerP!Goto, Worker!Live, WorkerP!Live, Worker!Fails, WorkerP!Fails,
            Worker!SetStatus, WorkerP!SetStatus, Worker!StatusLost, WorkerP!StatusLost,
            Worker!local, WorkerP!local, Worker!AtPair, WorkerP!AtPair, Worker!AllSaved,
            WorkerP!AllSaved, Worker!Last, WorkerP!Last, Worker!Pairs, WorkerP!Pairs,
            Worker!DeleteByIDs, WorkerP!DeleteByIDs
<1>1. Worker!MarkProcessing(w) => WorkerP!MarkProcessing(w)
  BY DEF Worker!MarkProcessing, WorkerP!MarkProcessing
<1>2. Worker!MarkProcessingFails(w) => WorkerP!MarkProcessingFails(w)
  BY DEF Worker!MarkProcessingFails, WorkerP!MarkProcessingFails
<1>3. Worker!ReadDocuments(w) => WorkerP!ReadDocuments(w)
  BY DEF Worker!ReadDocuments, WorkerP!ReadDocuments
<1>4. Worker!ReadDocumentsFails(w) => WorkerP!ReadDocumentsFails(w)
  BY DEF Worker!ReadDocumentsFails, WorkerP!ReadDocumentsFails
<1>5. Worker!Extract(w) => WorkerP!Extract(w) BY DEF Worker!Extract, WorkerP!Extract
<1>6. Worker!ExtractFails(w) => WorkerP!ExtractFails(w)
  BY DEF Worker!ExtractFails, WorkerP!ExtractFails
<1>7. Worker!Ingest(w) => WorkerP!Ingest(w) BY DEF Worker!Ingest, WorkerP!Ingest
<1>8. Worker!IngestFails(w) => WorkerP!IngestFails(w)
  BY DEF Worker!IngestFails, WorkerP!IngestFails
<1>9. Worker!Save(w) => WorkerP!Save(w) BY DEF Worker!Save, WorkerP!Save
<1>10. Worker!SaveFails(w) => WorkerP!SaveFails(w) BY DEF Worker!SaveFails, WorkerP!SaveFails
<1>11. Worker!Rollback(w) => WorkerP!Rollback(w) BY DEF Worker!Rollback, WorkerP!Rollback
<1>12. Worker!FailJob(w) => WorkerP!FailJob(w) BY DEF Worker!FailJob, WorkerP!FailJob
<1>13. Worker!Complete(w) => WorkerP!Complete(w) BY DEF Worker!Complete, WorkerP!Complete
<1>14. Worker!CompleteFails(w) => WorkerP!CompleteFails(w)
  BY DEF Worker!CompleteFails, WorkerP!CompleteFails
<1>15. Worker!Cancel(w) \/ Worker!Crash(w) => WorkerP!Cancel(w) \/ WorkerP!Crash(w)
  BY DEF Worker!Cancel, WorkerP!Cancel, Worker!Crash, WorkerP!Crash, Worker!Running,
         WorkerP!Running, Worker!Ended, WorkerP!Ended
<1> QED
  BY ONLY <1>1, <1>2, <1>3, <1>4, <1>5, <1>6, <1>7, <1>8, <1>9, <1>10, <1>11, <1>12, <1>13,
     <1>14, <1>15, Worker!HandleJob(w) \/ Worker!Cancel(w) \/ Worker!Crash(w)
  DEF Worker!HandleJob, WorkerP!HandleJob

\* The same state seen through both instances.
LEMMA PartsInitial == Init => ArchiveP!ArchiveInv /\ WorkerP!WorkerInv
<1> SUFFICES ASSUME Init PROVE ArchiveP!ArchiveInv /\ WorkerP!WorkerInv OBVIOUS
<1>1. ArchiveP!Init BY DEF Init, Archive!Init, ArchiveP!Init
<1>2. WorkerP!Init BY DEF Init, Worker!Init, WorkerP!Init
<1> QED BY <1>1, <1>2, PartsAssumptions, ArchiveP!ArchiveInitial, WorkerP!WorkerInitial

\* A step that leaves a part alone keeps the invariant of that part.
LEMMA ArchiveUntouched ==
  ASSUME ArchiveP!ArchiveInv, UNCHANGED archiveVars PROVE ArchiveP!ArchiveInv'
<1>1. UNCHANGED ArchiveP!vars BY DEF archiveVars, ArchiveP!vars, ArchiveP!tables
<1> QED BY <1>1, PartsAssumptions, ArchiveP!ArchivePreserved

LEMMA WorkerUntouched ==
  ASSUME WorkerP!WorkerInv, UNCHANGED workerVars PROVE WorkerP!WorkerInv'
<1>1. UNCHANGED WorkerP!vars BY DEF workerVars, WorkerP!vars, WorkerP!local
<1> QED BY <1>1, PartsAssumptions, WorkerP!WorkerPreserved

\* What the invariants of the parts say, of the variables as the pipeline
\* names them.
LEMMA ArchiveFacts ==
  ASSUME ArchiveP!ArchiveInv
  PROVE  /\ jobs \subseteq Attempts /\ projects = jobs /\ queue \subseteq jobs
         /\ \A a, b \in jobs : Archive!Tender(a) = Archive!Tender(b) => a = b
         /\ step \in [Requests -> ArchiveP!Steps] /\ row \in [Requests -> Nat \ {0}]
<1>1. ArchiveP!TypeOK /\ ArchiveP!OneClaim /\ \A a \in Attempts : ArchiveP!AttemptInv(a)
  BY SameAttempts DEF ArchiveP!ArchiveInv
<1>2. jobs \subseteq Attempts /\ projects \subseteq Attempts /\ queue \subseteq Attempts
  BY <1>1, SameAttempts DEF ArchiveP!TypeOK
<1>3. projects = jobs /\ queue \subseteq jobs BY <1>1, <1>2 DEF ArchiveP!AttemptInv
<1>4. \A a, b \in jobs : Archive!Tender(a) = Archive!Tender(b) => a = b
  BY <1>1, <1>3, SameAttempts DEF ArchiveP!OneClaim
<1> QED BY <1>1, <1>2, <1>3, <1>4 DEF ArchiveP!TypeOK

Statuses == {"PENDING", "PROCESSING", "COMPLETED", "FAILED"}

LEMMA WorkerFacts ==
  ASSUME WorkerP!WorkerInv
  PROVE  /\ status \in [Attempts -> Statuses]
         /\ stage \in [Runs -> WorkerP!Steps] /\ job \in [Runs -> Attempts \cup {Nothing}]
         /\ \A w \in Runs : stage[w] = "idle" <=> job[w] = Nothing
BY DEF WorkerP!WorkerInv, WorkerP!TypeOK, WorkerP!RunInv, WorkerP!Statuses, Statuses

\* Rows and their tenders.
LEMMA AttemptKnown ==
  ASSUME NEW a \in Attempts
  PROVE  /\ a = <<a[1], a[2]>> /\ a[1] \in Requests /\ a[2] \in Nat \ {0}
         /\ a[2] <= Len(Manifest[a[1]])
         /\ Archive!Tender(a) = Manifest[a[1]][a[2]]
         /\ Archive!Tender(a) \in Tenders
<1>1. /\ a = <<a[1], a[2]>> /\ a[1] \in Requests /\ a[2] \in Nat \ {0}
      /\ a[2] <= Len(Manifest[a[1]])
  BY SameAttempts, PartsAssumptions, ArchiveP!AttemptsKnown
<1>2. Archive!Tender(a) = Manifest[a[1]][a[2]] /\ Archive!Tender(a) # Malformed
  BY DEF Attempts, Archive!Attempts, Archive!Tender
<1>3. Manifest[a[1]] \in Seq(Tenders \cup {Malformed}) BY <1>1, PipelineAssumption
<1>4. Manifest[a[1]][a[2]] \in Tenders \cup {Malformed} BY <1>1, <1>3
<1> QED BY <1>1, <1>2, <1>4

-----------------------------------------------------------------------------
(* Steps of a request. *)

\* A healthy upload that goes past a row has its tender in the database.
LEMMA HealthyUpload ==
  ASSUME PipelineInv, NEW r \in Healthy, Ingest(r)
  PROVE  ArchiveP!ProcessStep(r) /\ (jobs \subseteq jobs' => HealthyInv(r)')
<1>1. r \in Requests /\ HealthyArchive!ProcessStep(r) BY PipelineAssumption DEF Ingest
<1>2. HealthyInv(r) /\ ArchiveP!ArchiveInv BY DEF PipelineInv
<1>3. /\ ArchiveP!ProcessStep(r)
      /\ r \notin gone'
      /\ \/ row' = row /\ step'[r] \notin {"cleanup", "crashed", "accepted"}
         \/ row' = row /\ row[r] > Len(Manifest[r]) /\ step'[r] = "accepted"
         \/ /\ row' = [row EXCEPT ![r] = @ + 1] /\ step'[r] = "row"
            /\ \/ Archive!Tender(<<r, row[r]>>) = Malformed
               \/ \E a \in projects : Archive!Tender(a) = Archive!Tender(<<r, row[r]>>)
  BY <1>1, <1>2, HealthyStep DEF HealthyInv
<1>4. Archive!Tender(<<r, row[r]>>) = Manifest[r][row[r]] BY DEF Archive!Tender
<1>5. ASSUME jobs \subseteq jobs' PROVE Covered(r)'
  <2> SUFFICES ASSUME NEW i \in Nat \ {0}, i < row'[r], i <= Len(Manifest[r]),
                      Manifest[r][i] # Malformed
               PROVE  \E a \in jobs' : Archive!Tender(a) = Manifest[r][i]
    BY DEF Covered, Archive!Tender
  <2>1. row \in [Requests -> Nat \ {0}] /\ projects = jobs BY <1>2, ArchiveFacts
  <2>2. CASE i < row[r]
    <3>1. PICK a \in jobs : Archive!Tender(a) = Manifest[r][i]
      BY <1>2, <2>2 DEF HealthyInv, Covered
    <3> QED BY <1>5, <3>1
  <2>3. CASE ~ i < row[r]
    <3>1. i = row[r] /\ row' # row BY <1>1, <1>3, <2>1, <2>3
    <3>2. PICK a \in projects : Archive!Tender(a) = Manifest[r][i] BY <1>3, <1>4, <3>1
    <3> QED BY <1>5, <2>1, <3>2
  <2> QED BY <2>2, <2>3
<1> QED BY <1>3, <1>5 DEF HealthyInv

\* A step of a request touches neither a run nor the status of a job that
\* existed, and hands over only what it publishes.
LEMMA RequestStep ==
  ASSUME PipelineInv, NEW r \in Requests, Ingest(r) \/ Disturb(r)
  PROVE  /\ PipelineInv' /\ status' = status
         /\ jobs' = jobs \/ \E a : jobs' = jobs \cup {a}
<1>1. /\ ArchiveP!ProcessStep(r) \/ ArchiveP!Cancel(r) \/ ArchiveP!Crash(r)
      /\ r \in Healthy => Ingest(r)
      /\ HandOver
  <2>1. CASE Ingest(r) /\ r \in Healthy BY <2>1, HealthyUpload DEF Ingest
  <2>2. CASE Ingest(r) /\ r \notin Healthy BY <2>2, ArchiveStep DEF Ingest
  <2>3. CASE Disturb(r) BY <2>3, DisturbStep DEF Disturb
  <2> QED BY <2>1, <2>2, <2>3
<1>2. ArchiveP!ArchiveInv /\ WorkerP!WorkerInv /\ QueueInv BY DEF PipelineInv
<1>3. ArchiveP!ArchiveInv'
  BY <1>1, <1>2, PartsAssumptions, ArchiveP!ArchivePreserved DEF ArchiveP!Next
<1>4. /\ \A q \in Requests \ {r} : /\ step'[q] = step[q] /\ row'[q] = row[q]
                                   /\ q \in gone' => q \in gone
      /\ jobs' = jobs \/ jobs' = jobs \cup {ArchiveP!Attempt(r)}
      /\ queue' = queue \/ queue' = queue \cup {ArchiveP!Attempt(r)}
  BY <1>1, <1>2, PartsAssumptions, ArchiveP!StepIsLocal DEF ArchiveP!ArchiveInv
<1>5. status' = status
  <2>1. status \in [Attempts -> Statuses] BY <1>2, WorkerFacts
  <2>2. status' = [a \in Attempts |-> IF a \in jobs' \ jobs THEN "PENDING" ELSE status[a]]
    BY <1>1 DEF HandOver
  <2>3. \A a \in Attempts : a \in jobs' \ jobs => status[a] = "PENDING"
    BY <1>2, ArchiveFacts DEF PipelineInv, Untouched
  <2> QED BY <2>1, <2>2, <2>3
<1>6. UNCHANGED workerVars BY <1>1, <1>5 DEF HandOver, workerVars
<1>7. WorkerP!WorkerInv' BY <1>2, <1>6, WorkerUntouched
<1>8. /\ owed \cup done \cup dead \subseteq owed' \cup done' \cup dead'
      /\ owed' \cup done' \cup dead' \subseteq queue' /\ dead' = dead
  <2>1. CASE queue' = queue
    BY <1>1, <1>2, <2>1 DEF HandOver, deliveryVars, QueueInv
  <2>2. CASE queue' # queue
    <3>1. PICK a \in queue' \ queue : Queue!Submit(a) BY <1>1, <2>2 DEF HandOver
    <3> QED BY <1>2, <1>4, <3>1 DEF Queue!Submit, QueueInv
  <2> QED BY <2>1, <2>2
<1>9. QueueInv' BY <1>2, <1>6, <1>8 DEF QueueInv, workerVars
<1>10. ASSUME NEW w \in Runs PROVE DeliveryInv(w)'
  BY <1>6, <1>8 DEF PipelineInv, DeliveryInv, workerVars
<1>11. ASSUME NEW a \in Attempts PROVE Untouched(a)'
  BY <1>4, <1>5 DEF PipelineInv, Untouched
<1>12. ASSUME NEW q \in Healthy PROVE HealthyInv(q)'
  <2>1. CASE q = r BY <1>1, <1>4, <2>1, HealthyUpload
  <2>2. CASE q # r
    <3>1. q \in Requests /\ HealthyInv(q) BY PipelineAssumption DEF PipelineInv
    <3>2. step'[q] = step[q] /\ row'[q] = row[q] /\ q \notin gone'
      BY <1>4, <2>2, <3>1 DEF HealthyInv
    <3>3. Covered(q)' BY <1>4, <3>1, <3>2 DEF HealthyInv, Covered, Archive!Tender
    <3> QED BY <3>1, <3>2, <3>3 DEF HealthyInv
  <2> QED BY <2>1, <2>2
<1> QED
  BY <1>3, <1>4, <1>5, <1>7, <1>9, <1>10, <1>11, <1>12 DEF PipelineInv

-----------------------------------------------------------------------------
(* Steps of the queue and of runs. *)

\* They leave what the uploads have done in order.
LEMMA UploadsKept ==
  ASSUME PipelineInv, UNCHANGED archiveVars
  PROVE  ArchiveP!ArchiveInv' /\ \A r \in Healthy : HealthyInv(r)'
<1>1. ArchiveP!ArchiveInv' BY ArchiveUntouched DEF PipelineInv
<1>2. \A r \in Healthy : HealthyInv(r)'
  BY DEF PipelineInv, archiveVars, HealthyInv, Covered, Archive!Tender
<1> QED BY <1>1, <1>2

\* The queue moves a job without a run.
LEMMA QueueStep ==
  ASSUME PipelineInv, NEW a \in Attempts, GiveUp(a) \/ Discharge(a)
  PROVE  PipelineInv'
<1>1. UNCHANGED archiveVars /\ UNCHANGED workerVars BY DEF GiveUp, Discharge
<1>2. QueueInv BY DEF PipelineInv
<1>3. owed' \cup done' \cup dead' = owed \cup done \cup dead
  BY DEF GiveUp, Discharge, Queue!Bury, Queue!Discharge
<1>4. QueueInv'
  <2>1. CASE GiveUp(a)
    <3>1. PICK w \in RunsOf(a) : stage[w] = "failed" BY <2>1 DEF GiveUp
    <3>2. w \in Runs /\ w[1] = a BY <3>1 DEF RunsOf
    <3>3. dead' = dead \cup {a} BY <2>1 DEF GiveUp, Queue!Bury
    <3>4. \A b \in dead' : \E v \in Runs : v[1] = b /\ stage'[v] = "failed"
      BY <1>1, <1>2, <3>1, <3>2, <3>3 DEF QueueInv, workerVars
    <3> QED BY <1>1, <1>2, <1>3, <3>4 DEF QueueInv, archiveVars
  <2>2. CASE Discharge(a)
    <3>1. dead' = dead BY <2>2 DEF Discharge, Queue!Discharge
    <3> QED BY <1>1, <1>2, <1>3, <3>1 DEF QueueInv, archiveVars, workerVars
  <2> QED BY <2>1, <2>2
<1>5. \A w \in Runs : DeliveryInv(w)' BY <1>1, <1>3 DEF PipelineInv, DeliveryInv, workerVars
<1>6. \A b \in Attempts : Untouched(b)'
  BY <1>1 DEF PipelineInv, Untouched, archiveVars, workerVars
<1>7. WorkerP!WorkerInv' BY <1>1, WorkerUntouched DEF PipelineInv
<1> QED BY <1>1, <1>4, <1>5, <1>6, <1>7, UploadsKept DEF PipelineInv

\* A delivery starts a run of a published job.
LEMMA DeliverStep ==
  ASSUME PipelineInv, NEW a \in Attempts, Deliver(a)
  PROVE  PipelineInv' /\ status' = status
<1>1. /\ a \in owed \cup done \cup dead
      /\ UNCHANGED archiveVars /\ UNCHANGED deliveryVars
  BY DEF Deliver
<1>2. PICK i \in 1..MaxDeliveries : Worker!Start(<<a, i>>, a) BY DEF Deliver
<1>3. PICK w \in Runs : w = <<a, i>> BY DEF Runs
<1>4. WorkerP!WorkerInv /\ QueueInv BY DEF PipelineInv
<1>5. WorkerP!Start(w, a) BY <1>2, <1>3, WorkerStart
<1>6. WorkerP!WorkerInv'
  BY <1>4, <1>5, PartsAssumptions, WorkerP!WorkerPreserved DEF WorkerP!Next
<1>7. /\ stage[w] = "idle" /\ stage' = [stage EXCEPT ![w] = "status"]
      /\ job' = [job EXCEPT ![w] = a] /\ status' = status
  BY <1>5 DEF WorkerP!Start, WorkerP!Goto
<1>8. stage \in [Runs -> WorkerP!Steps] /\ job \in [Runs -> Attempts \cup {Nothing}]
  BY <1>4, WorkerFacts
<1>9. QueueInv'
  <2>1. \A v \in Runs : stage[v] = "failed" => stage'[v] = "failed" BY <1>7, <1>8
  <2> QED BY <1>1, <1>4, <2>1 DEF QueueInv, archiveVars, deliveryVars
<1>10. ASSUME NEW v \in Runs PROVE DeliveryInv(v)'
  <2>1. DeliveryInv(v) BY DEF PipelineInv
  <2>2. CASE v = w BY <1>1, <1>3, <1>7, <1>8, <2>2 DEF DeliveryInv, deliveryVars, TakenUp
  <2>3. CASE v # w
    <3>1. stage'[v] = stage[v] /\ job'[v] = job[v] BY <1>7, <1>8, <2>3
    <3> QED BY <1>1, <1>7, <2>1, <3>1 DEF DeliveryInv, deliveryVars
  <2> QED BY <2>2, <2>3
<1>11. \A b \in Attempts : Untouched(b)' BY <1>1, <1>7 DEF PipelineInv, Untouched, archiveVars
<1> QED BY <1>1, <1>6, <1>7, <1>9, <1>10, <1>11, UploadsKept DEF PipelineInv

\* What a step of a run does to the status of its job: it takes the job up, or
\* shows an outcome for a job that is no longer PENDING.
Reports(a) ==
  \/ status' = status
  \/ status' = [status EXCEPT ![a] = "PROCESSING"]
  \/ /\ status[a] # "PENDING"
     /\ \/ status' = [status EXCEPT ![a] = "COMPLETED"]
        \/ status' = [status EXCEPT ![a] = "FAILED"]

LEMMA RunStep ==
  ASSUME PipelineInv, NEW w \in Runs, Work(w) \/ Interrupt(w)
  PROVE  PipelineInv' /\ w[1] \in jobs /\ UNCHANGED jobs /\ Reports(w[1])
<1>1. WorkerP!HandleJob(w) \/ WorkerP!Cancel(w) \/ WorkerP!Crash(w)
  BY WorkerStep DEF Work, Interrupt
<1>2. WorkerP!WorkerInv /\ QueueInv /\ DeliveryInv(w) /\ ArchiveP!ArchiveInv
  BY DEF PipelineInv
<1>3. WorkerP!WorkerInv'
  BY <1>1, <1>2, PartsAssumptions, WorkerP!WorkerPreserved DEF WorkerP!Next
<1>4. /\ job' = job
      /\ stage[w] \notin WorkerP!Ended \cup {"idle"} /\ stage'[w] # "idle"
      /\ \A v \in Runs \ {w} : stage'[v] = stage[v]
      /\ \/ status' = status
         \/ status' = [status EXCEPT ![job[w]] = "PROCESSING"]
         \/ /\ stage[w] \notin {"idle", "status"} \cup WorkerP!Ended
            /\ \/ status' = [status EXCEPT ![job[w]] = "COMPLETED"]
               \/ status' = [status EXCEPT ![job[w]] = "FAILED"]
      /\ stage[w] = "status" =>
           \/ stage'[w] \in {"status", "failed", "crashed"}
           \/ status' = [status EXCEPT ![job[w]] = "PROCESSING"]
  BY <1>1, <1>2, PartsAssumptions, WorkerP!RunStep DEF WorkerP!WorkerInv
<1>5. UNCHANGED archiveVars BY DEF Work, Interrupt
<1>6. /\ status \in [Attempts -> Statuses]
      /\ stage \in [Runs -> WorkerP!Steps] /\ job[w] # Nothing
  BY <1>2, <1>4, WorkerFacts
<1>7. job[w] = w[1] /\ w[1] \in owed \cup done \cup dead BY <1>2, <1>6 DEF DeliveryInv
<1>8. w[1] \in queue /\ w[1] \in jobs /\ w[1] \in Attempts
  BY <1>2, <1>7, ArchiveFacts DEF QueueInv
<1>9. stage[w] = "status" \/ stage[w] \in TakenUp
  BY <1>4, <1>6 DEF WorkerP!Steps, WorkerP!Ended, TakenUp
<1>10. Reports(w[1]) BY <1>2, <1>4, <1>7, <1>9 DEF Reports, DeliveryInv
<1>11. \A a \in Attempts : status[a] # "PENDING" => status'[a] # "PENDING"
  BY <1>6, <1>10 DEF Reports
<1>12. \A a \in Attempts \ {w[1]} : status'[a] = status[a] BY <1>6, <1>10 DEF Reports
<1>13. /\ owed \cup done \cup dead = owed' \cup done' \cup dead'
       /\ dead' = dead
  BY <1>7 DEF Work, Interrupt, Queue!Succeed, deliveryVars
<1>14. QueueInv'
  <2>1. \A v \in Runs : stage[v] = "failed" => stage'[v] = "failed"
    BY <1>4 DEF WorkerP!Ended
  <2> QED BY <1>2, <1>5, <1>13, <2>1 DEF QueueInv, archiveVars
<1>15. ASSUME NEW v \in Runs PROVE DeliveryInv(v)'
  <2>1. DeliveryInv(v) BY DEF PipelineInv
  <2>2. v[1] \in Attempts BY DEF Runs
  <2>3. CASE v = w
    <3>1. stage'[w] \in TakenUp => status'[w[1]] # "PENDING"
      <4>1. CASE stage[w] = "status" BY <1>4, <1>6, <1>7, <1>8, <4>1 DEF TakenUp
      <4>2. CASE stage[w] \in TakenUp BY <1>2, <1>8, <1>11, <4>2 DEF DeliveryInv
      <4> QED BY <1>9, <4>1, <4>2
    <3> QED BY <1>4, <1>7, <1>13, <2>3, <3>1 DEF DeliveryInv
  <2>4. CASE v # w BY <1>4, <1>11, <1>13, <2>1, <2>2, <2>4 DEF DeliveryInv
  <2> QED BY <2>3, <2>4
<1>16. ASSUME NEW a \in Attempts PROVE Untouched(a)'
  BY <1>5, <1>8, <1>12 DEF PipelineInv, Untouched, archiveVars
<1>17. UNCHANGED jobs BY <1>5 DEF archiveVars
<1> QED BY <1>3, <1>5, <1>8, <1>10, <1>14, <1>15, <1>16, <1>17, UploadsKept DEF PipelineInv

-----------------------------------------------------------------------------
\* Initially nothing is stored, handed over or running.
LEMMA PipelineInitial == Init => PipelineInv
<1> SUFFICES ASSUME Init PROVE PipelineInv OBVIOUS
<1>1. ArchiveP!ArchiveInv /\ WorkerP!WorkerInv BY PartsInitial
<1>2. QueueInv BY DEF Init, Queue!DeliveryInit, QueueInv
<1>3. \A w \in Runs : DeliveryInv(w) BY DEF Init, Worker!Init, DeliveryInv, TakenUp
<1>4. \A a \in Attempts : Untouched(a) BY DEF Init, Worker!Init, Untouched
<1>5. ASSUME NEW r \in Healthy PROVE HealthyInv(r)
  <2>1. r \in Requests BY PipelineAssumption
  <2>2. step[r] = "idle" /\ row[r] = 1 /\ gone = {} BY <2>1 DEF Init, Archive!Init
  <2>3. Covered(r) BY <2>2 DEF Covered
  <2> QED BY <2>2, <2>3 DEF HealthyInv
<1> QED BY <1>1, <1>2, <1>3, <1>4, <1>5 DEF PipelineInv

\* Every step preserves the invariant.
LEMMA PipelinePreserved == PipelineInv /\ [Next]_vars => PipelineInv'
<1> SUFFICES ASSUME PipelineInv, [Next]_vars PROVE PipelineInv' OBVIOUS
<1>1. CASE UNCHANGED vars
  <2>1. UNCHANGED archiveVars /\ UNCHANGED deliveryVars /\ UNCHANGED workerVars BY <1>1 DEF vars
  <2>2. WorkerP!WorkerInv' BY <2>1, WorkerUntouched DEF PipelineInv
  <2>3. QueueInv' BY <2>1 DEF PipelineInv, QueueInv, archiveVars, deliveryVars, workerVars
  <2>4. \A w \in Runs : DeliveryInv(w)'
    BY <2>1 DEF PipelineInv, DeliveryInv, deliveryVars, workerVars
  <2>5. \A a \in Attempts : Untouched(a)'
    BY <2>1 DEF PipelineInv, Untouched, archiveVars, workerVars
  <2> QED BY <2>1, <2>2, <2>3, <2>4, <2>5, UploadsKept DEF PipelineInv
<1>2. CASE \E r \in Requests : Ingest(r) \/ Disturb(r) BY <1>2, RequestStep
<1>3. CASE \E a \in Attempts : Deliver(a) \/ GiveUp(a) \/ Discharge(a)
  BY <1>3, DeliverStep, QueueStep
<1>4. CASE \E w \in Runs : Work(w) \/ Interrupt(w) BY <1>4, RunStep
<1> QED BY <1>1, <1>2, <1>3, <1>4 DEF Next

\* PipelineInv holds in every reachable state of every instance.
THEOREM PipelineInvariant == Spec => []PipelineInv
BY PipelineInitial, PipelinePreserved, PTL DEF Spec

\* An upload that meets no fault and is accepted has left every tender of its
\* manifest in the database, whatever other uploads do.
THEOREM HealthyUploadsAreIngested == Spec => []HealthyUploadsIngest
<1>1. PipelineInv => HealthyUploadsIngest
  <2> SUFFICES ASSUME PipelineInv, NEW r \in Requests, r \in Healthy, step[r] = "accepted",
                      NEW t \in TendersOf(r)
               PROVE  JobsOf(t) # {}
    BY DEF HealthyUploadsIngest
  <2>1. HealthyInv(r) /\ row \in [Requests -> Nat \ {0}]
    BY ArchiveFacts DEF PipelineInv
  <2>2. PICK b \in Attempts : b[1] = r /\ t = Archive!Tender(b) BY DEF TendersOf
  <2>3. /\ b[2] \in Nat \ {0} /\ b[2] <= Len(Manifest[r])
        /\ t = Manifest[r][b[2]] /\ t \in Tenders
    BY <2>2, AttemptKnown
  <2>4. t # Malformed BY <2>3, PipelineAssumption
  <2>5. Len(Manifest[r]) \in Nat BY PipelineAssumption
  <2>6. b[2] < row[r] BY <2>1, <2>3, <2>5 DEF HealthyInv
  <2>7. PICK a \in jobs : Archive!Tender(a) = t
    BY <2>1, <2>3, <2>4, <2>6 DEF HealthyInv, Covered
  <2> QED BY <2>7 DEF JobsOf
<1> QED BY <1>1, PipelineInvariant, PTL

\* A job in the dead-letter queue that no run is at work on shows an outcome.
THEOREM BuriedJobsHaveOutcomes == Spec => []BuriedJobsShowOutcome
<1>1. PipelineInv => BuriedJobsShowOutcome
  <2> SUFFICES ASSUME PipelineInv, NEW a \in dead, a \notin lost,
                      \A w \in RunsOf(a) : stage[w] \in {"idle", "succeeded", "failed"}
               PROVE  status[a] \in {"COMPLETED", "FAILED"}
    BY DEF BuriedJobsShowOutcome
  <2>1. QueueInv /\ WorkerP!WorkerInv /\ ArchiveP!ArchiveInv BY DEF PipelineInv
  <2>2. a \in Attempts BY <2>1, ArchiveFacts DEF QueueInv
  <2>3. PICK w \in Runs : w[1] = a /\ stage[w] = "failed" BY <2>1 DEF QueueInv
  <2>4. \A v \in Runs : job[v] # Nothing => job[v] = v[1] BY DEF PipelineInv, DeliveryInv
  <2>5. \A v \in Runs : stage[v] = "idle" <=> job[v] = Nothing BY <2>1, WorkerFacts
  <2>6. job[w] = a BY <2>3, <2>4, <2>5
  <2>7. a # Nothing BY <2>2, PipelineAssumption
  <2>8. \A v \in Runs : job[v] = a => stage[v] \in {"succeeded", "failed"}
    BY <2>4, <2>5, <2>7 DEF RunsOf
  <2>9. WorkerP!RestingJobHasOutcome BY <2>1, PartsAssumptions, WorkerP!RestImpliesOutcome
  <2> QED BY <2>2, <2>3, <2>6, <2>8, <2>9 DEF WorkerP!RestingJobHasOutcome
<1> QED BY <1>1, PipelineInvariant, PTL

-----------------------------------------------------------------------------
(* The pipeline implements TenderIngestion. *)

\* seenBar, of any jobs and statuses.
Seen(jobset, statuses) ==
  [t \in Tenders |->
     IF {a \in jobset : Archive!Tender(a) = t} = {} THEN "absent"
     ELSE statuses[CHOOSE a \in {b \in jobset : Archive!Tender(b) = t} : TRUE]]

\* A function with one value replaced.
Update(f, x, v) == [f EXCEPT ![x] = v]

\* A tender with one job shows the status of that job.
LEMMA SeenIsStatus ==
  ASSUME NEW J \in SUBSET Attempts, NEW st, NEW a \in J,
         \A b \in J : Archive!Tender(b) = Archive!Tender(a) => b = a
  PROVE  Archive!Tender(a) \in Tenders /\ Seen(J, st)[Archive!Tender(a)] = st[a]
<1>1. {b \in J : Archive!Tender(b) = Archive!Tender(a)} = {a} OBVIOUS
<1>2. Archive!Tender(a) \in Tenders BY AttemptKnown
<1> QED BY <1>1, <1>2 DEF Seen

\* A change of the status of one job is seen at its tender alone.
LEMMA SeenChanges ==
  ASSUME NEW J \in SUBSET Attempts, NEW st \in [Attempts -> Statuses], NEW a \in J,
         NEW s \in Statuses,
         \A b, c \in J : Archive!Tender(b) = Archive!Tender(c) => b = c
  PROVE  Seen(J, Update(st, a, s)) = Update(Seen(J, st), Archive!Tender(a), s)
<1> DEFINE new == [st EXCEPT ![a] = s]
           t0 == Archive!Tender(a)
<1>1. t0 \in Tenders /\ \A x : Seen(J, x)[t0] = x[a] BY SeenIsStatus
<1>2. new[a] = s /\ \A b \in J : b # a => new[b] = st[b] OBVIOUS
<1>3. ASSUME NEW t \in Tenders, t # t0 PROVE Seen(J, new)[t] = Seen(J, st)[t]
  <2>1. CASE {b \in J : Archive!Tender(b) = t} = {} BY <2>1 DEF Seen
  <2>2. CASE {b \in J : Archive!Tender(b) = t} # {}
    <3>1. PICK b \in J : Archive!Tender(b) = t BY <2>2
    <3>2. Seen(J, new)[t] = new[b] /\ Seen(J, st)[t] = st[b] BY <3>1, SeenIsStatus
    <3> QED BY <1>2, <1>3, <3>1, <3>2
  <2> QED BY <2>1, <2>2
<1>4. Seen(J, new) = [t \in Tenders |-> Seen(J, new)[t]]
      /\ Seen(J, st) = [t \in Tenders |-> Seen(J, st)[t]]
  BY DEF Seen
<1>5. Seen(J, new)[t0] = s BY <1>1, <1>2
<1> HIDE DEF new, t0
<1>6. Seen(J, new) = [Seen(J, st) EXCEPT ![t0] = s] BY <1>1, <1>3, <1>4, <1>5
<1> QED BY <1>6 DEF new, t0, Update

\* A new job is seen at its tender alone.
LEMMA SeenGrows ==
  ASSUME NEW J \in SUBSET Attempts, NEW st, NEW a \in Attempts, a \notin J,
         \A b, c \in J \cup {a} : Archive!Tender(b) = Archive!Tender(c) => b = c
  PROVE  /\ Seen(J, st)[Archive!Tender(a)] = "absent"
         /\ Seen(J \cup {a}, st) = Update(Seen(J, st), Archive!Tender(a), st[a])
<1> DEFINE K == J \cup {a}
           t0 == Archive!Tender(a)
<1>1. K \in SUBSET Attempts /\ t0 \in Tenders /\ Seen(K, st)[t0] = st[a]
  BY SeenIsStatus
<1>2. {b \in J : Archive!Tender(b) = t0} = {} OBVIOUS
<1>3. Seen(J, st)[t0] = "absent" BY <1>1, <1>2 DEF Seen
<1>4. ASSUME NEW t \in Tenders, t # t0 PROVE Seen(K, st)[t] = Seen(J, st)[t]
  <2>1. {b \in K : Archive!Tender(b) = t} = {b \in J : Archive!Tender(b) = t} BY <1>4
  <2> QED BY <2>1 DEF Seen
<1>5. Seen(K, st) = [t \in Tenders |-> Seen(K, st)[t]]
      /\ Seen(J, st) = [t \in Tenders |-> Seen(J, st)[t]]
  BY DEF Seen
<1> HIDE DEF K
<1>6. Seen(K, st) = [Seen(J, st) EXCEPT ![t0] = st[a]] BY <1>1, <1>4, <1>5
<1> QED BY <1>3, <1>6 DEF K, Update

\* No two jobs are of one tender.
UniqueJobs ==
  /\ jobs \in SUBSET Attempts
  /\ \A a, b \in jobs : Archive!Tender(a) = Archive!Tender(b) => a = b

\* Each step of the pipeline is a step of TenderIngestion, or is not seen.
LEMMA StepsAreIngestion ==
  PipelineInv /\ UniqueJobs /\ UniqueJobs' /\ [Next]_vars => [Ingestion!IngestionNext]_seenBar
<1> SUFFICES ASSUME PipelineInv, UniqueJobs, UniqueJobs', [Next]_vars
             PROVE  [Ingestion!IngestionNext]_seenBar
  OBVIOUS
<1> USE DEF Ingestion!IngestionNext, Ingestion!Show
<1>1. seenBar = Seen(jobs, status) /\ seenBar' = Seen(jobs', status')
  BY DEF seenBar, Seen, JobsOf, Archive!Tender
<1>2. status \in [Attempts -> Statuses] BY WorkerFacts DEF PipelineInv
<1>3. CASE jobs' = jobs /\ status' = status BY <1>1, <1>3
<1>4. ASSUME NEW r \in Requests, Ingest(r) \/ Disturb(r), jobs' # jobs
      PROVE  Ingestion!IngestionNext
  <2>1. status' = status BY <1>4, RequestStep
  <2>2. PICK a : jobs' = jobs \cup {a} BY <1>4, RequestStep
  <2>3. a \in Attempts /\ a \notin jobs BY <1>4, <2>2 DEF UniqueJobs
  <2>4. Archive!Tender(a) \in Tenders BY <2>3, AttemptKnown
  <2>5. status[a] = "PENDING"
    BY <2>3, ArchiveFacts DEF PipelineInv, Untouched
  <2>6. /\ Seen(jobs, status)[Archive!Tender(a)] = "absent"
        /\ Seen(jobs \cup {a}, status) =
             Update(Seen(jobs, status), Archive!Tender(a), status[a])
    <3>1. \A b, c \in jobs \cup {a} : Archive!Tender(b) = Archive!Tender(c) => b = c
      BY <2>2 DEF UniqueJobs, Archive!Tender
    <3>2. jobs \in SUBSET Attempts BY DEF UniqueJobs
    <3> QED BY ONLY <2>3, <3>1, <3>2, SeenGrows
  <2>7. Ingestion!Accept(Archive!Tender(a))
    BY <1>1, <2>1, <2>2, <2>5, <2>6 DEF Ingestion!Accept, Update
  <2> QED BY <2>4, <2>7
<1>5. ASSUME NEW w \in Runs, Work(w) \/ Interrupt(w), status' # status
      PROVE  Ingestion!IngestionNext
  <2> PICK a : a = w[1] OBVIOUS
  <2>1. a \in jobs /\ jobs' = jobs /\ Reports(a) BY <1>5, RunStep
  <2>2. Archive!Tender(a) \in Tenders /\ Seen(jobs, status)[Archive!Tender(a)] = status[a]
    BY <2>1, SeenIsStatus DEF UniqueJobs
  <2>3. status[a] \in Statuses /\ status[a] # "absent"
    BY <1>2, <2>1 DEF UniqueJobs, Statuses
  <2>4. ASSUME NEW s \in Statuses, status' = [status EXCEPT ![a] = s]
        PROVE  seenBar' = [seenBar EXCEPT ![Archive!Tender(a)] = s]
    <3>1. Seen(jobs, Update(status, a, s)) =
            Update(Seen(jobs, status), Archive!Tender(a), s)
      BY ONLY <1>2, <2>1, <2>4, UniqueJobs, SeenChanges DEF UniqueJobs
    <3> QED BY <1>1, <2>1, <2>4, <3>1 DEF Update
  <2>5. CASE status' = [status EXCEPT ![a] = "PROCESSING"]
    <3>1. Ingestion!TakeUp(Archive!Tender(a))
      BY <1>1, <2>2, <2>3, <2>4, <2>5 DEF Ingestion!TakeUp, Statuses
    <3> QED BY <2>2, <3>1
  <2>6. CASE /\ status[a] # "PENDING"
             /\ \/ status' = [status EXCEPT ![a] = "COMPLETED"]
                \/ status' = [status EXCEPT ![a] = "FAILED"]
    <3>1. status[a] \in {"PROCESSING", "COMPLETED", "FAILED"} BY <2>3, <2>6 DEF Statuses
    <3>2. Ingestion!Settle(Archive!Tender(a))
      BY <1>1, <2>2, <2>4, <2>6, <3>1 DEF Ingestion!Settle, Statuses
    <3> QED BY <2>2, <3>2
  <2> QED BY <1>5, <2>1, <2>5, <2>6 DEF Reports
<1>6. ASSUME NEW a \in Attempts, Deliver(a) \/ GiveUp(a) \/ Discharge(a)
      PROVE  jobs' = jobs /\ status' = status
  <2>1. UNCHANGED archiveVars BY <1>6 DEF Deliver, GiveUp, Discharge
  <2>2. CASE Deliver(a) BY <2>1, <2>2, DeliverStep DEF archiveVars
  <2>3. CASE GiveUp(a) \/ Discharge(a)
    BY <2>1, <2>3 DEF GiveUp, Discharge, archiveVars, workerVars
  <2> QED BY <1>6, <2>2, <2>3
<1>7. CASE UNCHANGED vars BY <1>3, <1>7 DEF vars, archiveVars, workerVars
<1>8. CASE \E r \in Requests : Ingest(r) \/ Disturb(r) BY <1>3, <1>4, <1>8, RequestStep
<1>9. CASE \E w \in Runs : Work(w) \/ Interrupt(w) BY <1>3, <1>5, <1>9, RunStep
<1> QED BY <1>3, <1>6, <1>7, <1>8, <1>9 DEF Next

\* Whatever uploads and deliveries race, the status of a tender appears once as
\* PENDING, never returns to that, and shows an outcome only after work.
THEOREM PipelineImplementsIngestion == Spec => ImplementsIngestion
<1>1. Init => Ingestion!IngestionInit
  BY DEF Init, Archive!Init, Ingestion!IngestionInit, seenBar, JobsOf
<1>2. PipelineInv => UniqueJobs BY ArchiveFacts DEF PipelineInv, UniqueJobs
<1> QED
  BY <1>1, <1>2, StepsAreIngestion, PipelineInvariant, PTL
  DEF Spec, ImplementsIngestion, Ingestion!IngestionSpec
=============================================================================
