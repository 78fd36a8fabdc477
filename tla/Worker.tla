------------------------------- MODULE Worker -------------------------------
(***************************************************************************)
(* The asynchronous half of the ingestion pipeline: HandleJob              *)
(* (internal/core/services/worker_service.go), the handler of the job      *)
(* queue, with the tables it writes (repositories/ingestion_postgres.go)   *)
(* and the vector store (repositories/qdrant_repo.go).  PostgreSQL and     *)
(* Qdrant are modelled from these calls; the answer of the language model  *)
(* is any number of pairs.                                                 *)
(*                                                                         *)
(* A run is one call of HandleJob.  The queue delivers at least once, so   *)
(* any number of runs of one job may follow each other or overlap.  The    *)
(* i-th pair of run w is <<w, i>>, which also stands for the fresh UUID    *)
(* that its point and its row share.                                       *)
(***************************************************************************)
EXTENDS Integers, FiniteSets

CONSTANTS
  Runs,      \* calls of HandleJob
  Jobs,      \* jobs, each with a project of its own
  DocTypes,  \* DocTypes[j]: the types of the documents saved for j's project
  MaxPairs,  \* bound on the pairs the language model returns
  Nothing,   \* job of a run that has not started
  Faults     \* what may go wrong, a subset of AllFaults

\* db: a statement fails without effect; doubt: it takes effect and reports
\* an error; parse: a PDF cannot be fetched or read; llm: the extraction
\* fails; qdrant: embedding or upsert fails without effect; late: the upsert
\* takes effect and reports an error; cancel: the context of the consumer is
\* done; crash: the process ends.
AllFaults == {"db", "doubt", "parse", "llm", "qdrant", "late", "cancel", "crash"}

ASSUME WorkerAssumption ==
  /\ DocTypes \in [Jobs -> SUBSET {"DCE", "MEMOIRE"}]
  /\ MaxPairs \in Nat
  /\ Nothing \notin Jobs
  /\ Faults \subseteq AllFaults

VARIABLES
  step,     \* step[w]: what run w does next
  job,      \* job[w]: the job it was called for
  pairs,    \* pairs[w]: number of pairs extracted
  ingested, \* ingested[w]: length of ingestedIDs, the pairs 1..ingested[w]
  gone,     \* runs whose context is done
  status,   \* status[j]: column status of processing_jobs
  points,   \* points of the collection in Qdrant
  rows,     \* rows of reponses_historiques, by qdrant_point_id
  lost      \* history: jobs an update of whose status reported an error

local == <<job, pairs, ingested>>
vars == <<step, local, gone, status, points, rows, lost>>

Statuses == {"PENDING", "PROCESSING", "COMPLETED", "FAILED"}
Ended == {"succeeded", "failed", "crashed"}

Init ==
  /\ step = [w \in Runs |-> "idle"]
  /\ job = [w \in Runs |-> Nothing]
  /\ pairs = [w \in Runs |-> 0]
  /\ ingested = [w \in Runs |-> 0]
  /\ gone = {}
  /\ status = [j \in Jobs |-> "PENDING"]
  /\ points = {}
  /\ rows = {}
  /\ lost = {}

Goto(w, s) == step' = [step EXCEPT ![w] = s]

\* A call succeeds, or fails because of fault f or of the context.
Live(w) == w \notin gone
Fails(w, f) == f \in Faults \/ w \in gone

\* UpdateJobStatus, when the statement takes effect.
SetStatus(w, s) == status' = [status EXCEPT ![job[w]] = s]

\* UpdateJobStatus: what it leaves behind when it reports an error.
StatusLost(w, s) ==
  /\ \/ Fails(w, "db") /\ UNCHANGED status
     \/ Fails(w, "doubt") /\ SetStatus(w, s)
  /\ lost' = lost \cup {job[w]}

Pairs(w, n) == {<<w, i>> : i \in 1..n}
Last(w) == <<w, ingested[w]>>

-----------------------------------------------------------------------------
\* The queue calls the handler.
Start(w, j) ==
  /\ step[w] = "idle"
  /\ job' = [job EXCEPT ![w] = j]
  /\ Goto(w, "status")
  /\ UNCHANGED <<pairs, ingested, gone, status, points, rows, lost>>

MarkProcessing(w) ==
  /\ step[w] = "status"
  /\ Live(w)
  /\ SetStatus(w, "PROCESSING")
  /\ Goto(w, "read")
  /\ UNCHANGED <<local, gone, points, rows, lost>>

\* The error is returned without failJob.
MarkProcessingFails(w) ==
  /\ step[w] = "status"
  /\ StatusLost(w, "PROCESSING")
  /\ Goto(w, "failed")
  /\ UNCHANGED <<local, gone, points, rows>>

\* GetDocumentPath and FetchAndParse for both documents.
ReadDocuments(w) ==
  /\ step[w] = "read"
  /\ Live(w)
  /\ {"DCE", "MEMOIRE"} \subseteq DocTypes[job[w]]
  /\ Goto(w, "extract")
  /\ UNCHANGED <<local, gone, status, points, rows, lost>>

\* Mutation: the error is returned without failJob.
ReadDocumentsReturns(w) ==
  /\ step[w] = "read"
  /\ \/ ~ {"DCE", "MEMOIRE"} \subseteq DocTypes[job[w]]
     \/ Fails(w, "db") \/ Fails(w, "parse")
  /\ Goto(w, "failed")
  /\ UNCHANGED <<local, gone, status, points, rows, lost>>

ReadDocumentsFails(w) ==
  /\ step[w] = "read"
  /\ \/ ~ {"DCE", "MEMOIRE"} \subseteq DocTypes[job[w]]
     \/ Fails(w, "db") \/ Fails(w, "parse")
  /\ Goto(w, "failJob")
  /\ UNCHANGED <<local, gone, status, points, rows, lost>>

\* ExtractRequirementsAndAnswers.
Extract(w) ==
  /\ step[w] = "extract"
  /\ Live(w)
  /\ \E n \in 0..MaxPairs : pairs' = [pairs EXCEPT ![w] = n]
  /\ Goto(w, "ingest")
  /\ UNCHANGED <<job, ingested, gone, status, points, rows, lost>>

ExtractFails(w) ==
  /\ step[w] = "extract"
  /\ Fails(w, "llm")
  /\ Goto(w, "failJob")
  /\ UNCHANGED <<local, gone, status, points, rows, lost>>

\* Mutation: one pair too many.
AtPairInclusive(w) == step[w] = "ingest" /\ ingested[w] <= pairs[w]

AtPair(w) == step[w] = "ingest" /\ ingested[w] < pairs[w]

\* Ingest: embedding of the requirement and upsert of its point.
Ingest(w) ==
  /\ AtPair(w)
  /\ Live(w)
  /\ ingested' = [ingested EXCEPT ![w] = @ + 1]
  /\ points' = points \cup {<<w, ingested[w] + 1>>}
  /\ Goto(w, "save")
  /\ UNCHANGED <<job, pairs, gone, status, rows, lost>>

\* Ingest reports an error; ingestedIDs does not have the identifier.
IngestFails(w) ==
  /\ AtPair(w)
  /\ \/ Fails(w, "qdrant") /\ UNCHANGED points
     \/ Fails(w, "late") /\ points' = points \cup {<<w, ingested[w] + 1>>}
  /\ Goto(w, "rollback")
  /\ UNCHANGED <<local, gone, status, rows, lost>>

\* SaveResponseHistory, a statement of its own outside of any transaction.
Save(w) ==
  /\ step[w] = "save"
  /\ Live(w)
  /\ rows' = rows \cup {Last(w)}
  /\ Goto(w, "ingest")
  /\ UNCHANGED <<local, gone, status, points, lost>>

\* Mutation: the error is logged and the loop goes on.
SaveFailsSilently(w) ==
  /\ step[w] = "save"
  /\ Fails(w, "db")
  /\ Goto(w, "ingest")
  /\ UNCHANGED <<local, gone, status, points, rows, lost>>

SaveFails(w) ==
  /\ step[w] = "save"
  /\ \/ Fails(w, "db") /\ UNCHANGED rows
     \/ Fails(w, "doubt") /\ rows' = rows \cup {Last(w)}
  /\ Goto(w, "rollback")
  /\ UNCHANGED <<local, gone, status, points, lost>>

\* Mutation: the points are deleted, and the rows of earlier pairs are not.
DeletePoints(ids) == points \ ids

\* The points DeleteByIDs leaves: it is not implemented and returns an error,
\* which HandleJob ignores.
DeleteByIDs(ids) == points

Rollback(w) ==
  /\ step[w] = "rollback"
  /\ points' = DeleteByIDs(Pairs(w, ingested[w]))
  /\ Goto(w, "failJob")
  /\ UNCHANGED <<local, gone, status, rows, lost>>

\* failJob: status FAILED, an error of which is ignored, and the error of the
\* run to the queue.
FailJob(w) ==
  /\ step[w] = "failJob"
  /\ \/ Live(w) /\ SetStatus(w, "FAILED") /\ UNCHANGED lost
     \/ StatusLost(w, "FAILED")
  /\ Goto(w, "failed")
  /\ UNCHANGED <<local, gone, points, rows>>

AllSaved(w) == step[w] = "ingest" /\ ingested[w] = pairs[w]

Complete(w) ==
  /\ AllSaved(w)
  /\ Live(w)
  /\ SetStatus(w, "COMPLETED")
  /\ Goto(w, "succeeded")
  /\ UNCHANGED <<local, gone, points, rows, lost>>

CompleteFails(w) ==
  /\ AllSaved(w)
  /\ StatusLost(w, "COMPLETED")
  /\ Goto(w, "failed")
  /\ UNCHANGED <<local, gone, points, rows>>

-----------------------------------------------------------------------------
Running(w) == step[w] \notin {"idle"} \cup Ended

Cancel(w) ==
  /\ "cancel" \in Faults
  /\ Running(w) /\ w \notin gone
  /\ gone' = gone \cup {w}
  /\ UNCHANGED <<step, local, status, points, rows, lost>>

Crash(w) ==
  /\ "crash" \in Faults
  /\ Running(w)
  /\ Goto(w, "crashed")
  /\ UNCHANGED <<local, gone, status, points, rows, lost>>

HandleJob(w) ==
  \/ MarkProcessing(w) \/ MarkProcessingFails(w)
  \/ ReadDocuments(w) \/ ReadDocumentsFails(w) \/ Extract(w) \/ ExtractFails(w)
  \/ Ingest(w) \/ IngestFails(w) \/ Save(w) \/ SaveFails(w)
  \/ Rollback(w) \/ FailJob(w) \/ Complete(w) \/ CompleteFails(w)

Next ==
  \E w \in Runs :
    (\E j \in Jobs : Start(w, j)) \/ HandleJob(w) \/ Cancel(w) \/ Crash(w)

Spec == Init /\ [][Next]_vars
=============================================================================
