------------------------------- MODULE Archive -------------------------------
(***************************************************************************)
(* The synchronous half of the ingestion pipeline: ProcessZipArchive       *)
(* (internal/core/services/archive_service.go) run by several requests at  *)
(* once, with the repository it writes to (repositories/                   *)
(* ingestion_postgres.go), the object store (minio_storage.go) and the     *)
(* queue.  PostgreSQL, MinIO and the broker are modelled from these calls. *)
(*                                                                         *)
(* The attempt <<r, i>>, row i of the manifest of request r, stands for    *)
(* the project created for that row, whose identifier is a fresh UUID, for *)
(* its job and for the object uploaded under its identifier.               *)
(***************************************************************************)
EXTENDS Integers, Sequences, FiniteSets

CONSTANTS
  Requests,   \* uploads of an archive, to one or several API processes
  Tenders,    \* values of the column external_id
  Malformed,  \* a row with fewer than six columns; mixing it with others allows
              \* more than encoding/csv, which refuses rows of unequal length
  Manifest,   \* Manifest[r]: the rows of the archive of r, by external_id
  Faults      \* what may go wrong, a subset of AllFaults

\* db: a statement or the commit fails; doubt: the commit takes effect and
\* reports an error; missing: the archive lacks a file; storage: a call to
\* MinIO fails and has no effect; late: an upload is stored and reports an
\* error; broker: a publication fails, or returns nil and is lost, as
\* publisher confirms are not enabled; cancel: the client disconnects;
\* crash: the process of the request ends.
AllFaults == {"db", "doubt", "missing", "storage", "late", "broker", "cancel", "crash"}

ASSUME ArchiveAssumption ==
  /\ Malformed \notin Tenders
  /\ Manifest \in [Requests -> Seq(Tenders \cup {Malformed})]
  /\ Faults \subseteq AllFaults

VARIABLES
  step,      \* step[r]: what request r does next
  row,       \* row[r]: the row it is at
  txn,       \* txn[r]: the tables its open transaction has inserted into
  uploaded,  \* uploaded[r]: uploadedPaths is not empty
  gone,      \* requests whose context is done
  projects, documents, jobs,  \* committed rows of the three tables
  objects,   \* objects in the bucket dce-archive
  queue,     \* jobs whose message reached the broker
  errors     \* history: pairs of an attempt and the error it met, see Err

tables == <<projects, documents, jobs>>
vars == <<step, row, txn, uploaded, gone, tables, objects, queue, errors>>

Tender(a) == Manifest[a[1]][a[2]]
Attempts == {a \in UNION {{r} \X DOMAIN Manifest[r] : r \in Requests} : Tender(a) # Malformed}
Attempt(r) == <<r, row[r]>>

Init ==
  /\ step = [r \in Requests |-> "idle"]
  /\ row = [r \in Requests |-> 1]
  /\ txn = [r \in Requests |-> {}]
  /\ uploaded = [r \in Requests |-> FALSE]
  /\ gone = {}
  /\ projects = {} /\ documents = {} /\ jobs = {}
  /\ objects = {}
  /\ queue = {}
  /\ errors = {}

Goto(r, s) == step' = [step EXCEPT ![r] = s]

\* The loop goes on to the next record.
NextRow(r) ==
  /\ Goto(r, "row")
  /\ row' = [row EXCEPT ![r] = @ + 1]
  /\ uploaded' = [uploaded EXCEPT ![r] = FALSE]

\* The commit took effect and reported an error, a call to MinIO reported an
\* error, or the publication was lost.
Err(r, what) == errors' = errors \cup {<<what, Attempt(r)>>}

\* A call to the database, or to MinIO, may succeed, or may fail.  Calls made
\* once the context is done fail.
Live(r) == r \notin gone
Fails(r, f) == f \in Faults \/ r \in gone

\* The function given to ExecuteTx returns an error: rollback, removal of what
\* was uploaded, next row.
Abort(r) ==
  /\ txn' = [txn EXCEPT ![r] = {}]
  /\ IF uploaded[r] THEN Goto(r, "cleanup") /\ UNCHANGED <<row, uploaded>>
                    ELSE NextRow(r)

\* An INSERT within the transaction of r.
Insert(r, table, next) ==
  /\ Live(r)
  /\ txn' = [txn EXCEPT ![r] = @ \cup {table}]
  /\ Goto(r, next)
  /\ UNCHANGED <<row, uploaded, gone, tables, objects, queue, errors>>

-----------------------------------------------------------------------------
Start(r) ==
  /\ step[r] = "idle"
  /\ Goto(r, "row")
  /\ UNCHANGED <<row, txn, uploaded, gone, tables, objects, queue, errors>>

\* The form is wrong, which is answered 400; or the archive is too large, no
\* ZIP, or without a readable manifest.csv, which is answered 500.
Refuse(r) ==
  /\ step[r] = "idle"
  /\ Goto(r, "refused")
  /\ UNCHANGED <<row, txn, uploaded, gone, tables, objects, queue, errors>>

AtRow(r) == step[r] = "row" /\ row[r] <= Len(Manifest[r])

SkipMalformed(r) ==
  /\ AtRow(r)
  /\ Tender(Attempt(r)) = Malformed
  /\ NextRow(r)
  /\ UNCHANGED <<txn, gone, tables, objects, queue, errors>>

Exists(t) == \E a \in projects : Tender(a) = t

\* Mutation: a row that is too short is not skipped.
CheckAnyRow(r) ==
  /\ AtRow(r)
  /\ Goto(r, "create")
  /\ UNCHANGED <<row, uploaded, txn, gone, tables, objects, queue, errors>>

\* CheckProjectExists: outside of any transaction, it sees committed rows.
CheckProjectExists(r) ==
  /\ AtRow(r)
  /\ Tender(Attempt(r)) # Malformed
  /\ \/ Live(r) /\ Exists(Tender(Attempt(r))) /\ NextRow(r)
     \/ Live(r) /\ ~ Exists(Tender(Attempt(r)))
        /\ Goto(r, "create") /\ UNCHANGED <<row, uploaded>>
     \/ Fails(r, "db") /\ NextRow(r)
  /\ UNCHANGED <<txn, gone, tables, objects, queue, errors>>

\* All rows are done: ProcessZipArchive returns nil, whatever became of them,
\* and the answer is 202.
Finish(r) ==
  /\ step[r] = "row"
  /\ row[r] > Len(Manifest[r])
  /\ Goto(r, "accepted")
  /\ UNCHANGED <<row, txn, uploaded, gone, tables, objects, queue, errors>>

\* Some other transaction has inserted the external_id and is still open.
Locked(r) ==
  \E q \in Requests \ {r} :
    "projects" \in txn[q] /\ Tender(Attempt(q)) = Tender(Attempt(r))

\* Mutation: uniqueness rests on CheckProjectExists alone.
CreateProjectUnchecked(r) == step[r] = "create" /\ Insert(r, "projects", "upload")

\* CreateProject, the first statement of the transaction.  The UNIQUE
\* constraint lets it wait for a transaction that holds the external_id, and
\* refuses an external_id that is there.
CreateProject(r) ==
  /\ step[r] = "create"
  /\ ~ Locked(r)
  /\ ~ Exists(Tender(Attempt(r)))
  /\ Insert(r, "projects", "upload")

\* Mutation: the INSERT does not wait for the transaction of another request.
CreateProjectFailsLocked(r) ==
  /\ step[r] = "create"
  /\ Fails(r, "db") \/ Exists(Tender(Attempt(r))) \/ Locked(r)
  /\ Abort(r)
  /\ UNCHANGED <<gone, tables, objects, queue, errors>>

CreateProjectFails(r) ==
  /\ step[r] = "create"
  /\ Fails(r, "db") \/ Exists(Tender(Attempt(r)))
  /\ Abort(r)
  /\ UNCHANGED <<gone, tables, objects, queue, errors>>

\* Mutation: the path is not added to uploadedPaths.
UploadUnrecorded(r) ==
  /\ step[r] = "upload"
  /\ Live(r)
  /\ objects' = objects \cup {Attempt(r)}
  /\ Goto(r, "save")
  /\ UNCHANGED <<row, uploaded, txn, gone, tables, queue, errors>>

\* UploadFileFromZip: the PDF of the column fichier_dce.
Upload(r) ==
  /\ step[r] = "upload"
  /\ Live(r)
  /\ objects' = objects \cup {Attempt(r)}
  /\ uploaded' = [uploaded EXCEPT ![r] = TRUE]
  /\ Goto(r, "save")
  /\ UNCHANGED <<row, txn, gone, tables, queue, errors>>

\* Mutation: a failed upload panics; net/http recovers, and the transaction
\* stays open because ExecuteTx defers no rollback.
UploadPanics(r) ==
  /\ step[r] = "upload"
  /\ "missing" \in Faults
  /\ Goto(r, "crashed")
  /\ UNCHANGED <<row, txn, uploaded, gone, tables, objects, queue, errors>>

\* The upload reports an error, or the archive lacks the file.  An upload cut
\* off by an error may have been stored; uploadedPaths does not know of it.
UploadFails(r) ==
  /\ step[r] = "upload"
  /\ \/ "missing" \in Faults /\ UNCHANGED <<objects, errors>>
     \/ Fails(r, "storage") /\ UNCHANGED objects /\ Err(r, "storage")
     \/ Fails(r, "late") /\ objects' = objects \cup {Attempt(r)} /\ Err(r, "storage")
  /\ Abort(r)
  /\ UNCHANGED <<gone, tables, queue>>

SaveDocument(r) == step[r] = "save" /\ Insert(r, "documents", "job")

\* Mutations: the job is created outside of the transaction, or published in it.
CreateJobOnPool(r) ==
  /\ step[r] = "job"
  /\ Live(r)
  /\ jobs' = jobs \cup {Attempt(r)}
  /\ Goto(r, "commit")
  /\ UNCHANGED <<row, txn, uploaded, gone, projects, documents, objects, queue, errors>>
CreateJobPublishing(r) ==
  /\ step[r] = "job"
  /\ Live(r)
  /\ queue' = queue \cup {Attempt(r)}
  /\ txn' = [txn EXCEPT ![r] = @ \cup {"jobs"}]
  /\ Goto(r, "commit")
  /\ UNCHANGED <<row, uploaded, gone, tables, objects, errors>>

CreateJob(r) == step[r] = "job" /\ Insert(r, "jobs", "commit")

StatementFails(r) ==
  /\ step[r] \in {"save", "job"}
  /\ Fails(r, "db")
  /\ Abort(r)
  /\ UNCHANGED <<gone, tables, objects, queue, errors>>

\* What the database does at COMMIT.
With(r, table, rows) == IF table \in txn[r] THEN rows \cup {Attempt(r)} ELSE rows
MakeVisible(r) ==
  /\ projects' = With(r, "projects", projects)
  /\ documents' = With(r, "documents", documents)
  /\ jobs' = With(r, "jobs", jobs)

\* Mutation: the loop goes on to the next row after the commit.
CommitOnly(r) ==
  /\ step[r] = "commit"
  /\ Live(r)
  /\ MakeVisible(r)
  /\ txn' = [txn EXCEPT ![r] = {}]
  /\ NextRow(r)
  /\ UNCHANGED <<gone, objects, queue, errors>>

Commit(r) ==
  /\ step[r] = "commit"
  /\ Live(r)
  /\ MakeVisible(r)
  /\ txn' = [txn EXCEPT ![r] = {}]
  /\ Goto(r, "publish")
  /\ UNCHANGED <<row, uploaded, gone, objects, queue, errors>>

\* Commit reports an error: ExecuteTx returns it without a rollback of its
\* own.  The commit had no effect, or it had and the answer was lost.
CommitFails(r) ==
  /\ step[r] = "commit"
  /\ \/ Fails(r, "db") /\ UNCHANGED <<tables, errors>>
     \/ Fails(r, "doubt") /\ MakeVisible(r) /\ Err(r, "commit")
  /\ Abort(r)
  /\ UNCHANGED <<gone, objects, queue>>

\* Delete of each uploaded path, with the context of the request; its error is
\* ignored.
Cleanup(r) ==
  /\ step[r] = "cleanup"
  /\ \/ Live(r) /\ objects' = objects \ {Attempt(r)} /\ UNCHANGED errors
     \/ Fails(r, "storage") /\ UNCHANGED objects /\ Err(r, "storage")
  /\ NextRow(r)
  /\ UNCHANGED <<txn, gone, tables, queue>>

\* Mutation: a publication that fails is treated as a row that fails.
PublishOrCleanup(r) ==
  /\ step[r] = "publish"
  /\ \/ queue' = queue \cup {Attempt(r)} /\ NextRow(r)
     \/ "broker" \in Faults /\ Goto(r, "cleanup") /\ UNCHANGED <<queue, row, uploaded>>
  /\ UNCHANGED <<txn, gone, tables, objects, errors>>

\* PublishJob, whose error is logged.  It does not look at the context.
Publish(r) ==
  /\ step[r] = "publish"
  /\ \/ queue' = queue \cup {Attempt(r)} /\ UNCHANGED errors
     \/ "broker" \in Faults /\ UNCHANGED queue /\ Err(r, "publish")
  /\ NextRow(r)
  /\ UNCHANGED <<txn, gone, tables, objects>>

-----------------------------------------------------------------------------
Running(r) == step[r] \notin {"idle", "refused", "accepted", "crashed"}

Cancel(r) ==
  /\ "cancel" \in Faults
  /\ Running(r) /\ r \notin gone
  /\ gone' = gone \cup {r}
  /\ UNCHANGED <<step, row, txn, uploaded, tables, objects, queue, errors>>

\* The process of r ends; the database rolls its transaction back.
Crash(r) ==
  /\ "crash" \in Faults
  /\ Running(r)
  /\ Goto(r, "crashed")
  /\ txn' = [txn EXCEPT ![r] = {}]
  /\ UNCHANGED <<row, uploaded, gone, tables, objects, queue, errors>>

ProcessStep(r) ==
  \/ Start(r) \/ Refuse(r) \/ SkipMalformed(r) \/ CheckProjectExists(r)
  \/ CreateProject(r) \/ CreateProjectFails(r) \/ Upload(r) \/ UploadFails(r)
  \/ SaveDocument(r) \/ CreateJob(r) \/ StatementFails(r)
  \/ Commit(r) \/ CommitFails(r) \/ Cleanup(r) \/ Publish(r) \/ Finish(r)

Next == \E r \in Requests : ProcessStep(r) \/ Cancel(r) \/ Crash(r)

Spec == Init /\ [][Next]_vars
=============================================================================
