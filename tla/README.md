# Kliops in TLA+

Kliops ingests the archives of a construction company that answers calls for
tenders: an HTTP API unpacks a ZIP, stores its PDFs and rows, and publishes a
job; a worker reads the PDFs, lets a language model extract pairs of requirement
and answer, and stores them in a vector database. This directory holds TLA+
models of that code, TLC configurations that check them, and TLAPS proofs.

Paths below are relative to `src/`; `rabbitmq.go:182` and the like abbreviate
`internal/adapters/queue/rabbitmq.go` and its neighbours.

## 1. Inventory

| Component | State | Operations | Talks to |
|---|---|---|---|
| Job queue adapter, `rabbitmq.go` | AMQP connection and channel, `PublishMu`; per consumer the channel `sem`, the loop, a goroutine per delivery | `NewRabbitMQAdapter`, `PublishJob`, `ConsumeJob`, `Close` | RabbitMQ: exchange, `ingestion_jobs`, `ingestion_dlq` |
| Archive service, `archive_service.go` | per request: row, transaction, `uploadedPaths` | `ProcessZipArchive`, `UploadFileFromZip` | repository, object storage, queue |
| Ingestion repository, `ingestion_postgres.go` | tables `appels_offres`, `documents`, `processing_jobs`, `reponses_historiques` | `ExecuteTx` and a function per statement | PostgreSQL |
| Worker service, `worker_service.go` | per run: pairs, `ingestedIDs` | `HandleJob`, `failJob` | repository, parser, extractor, vector store |
| Extraction, `gemma_extractor.go`, `ollama_embedder.go` | per call: chunks, `memoKnowledge`, `allPairs` | `ExtractRequirementsAndAnswers`, `chunkText`, `cosineSimilarity`, `getTopKSimilar` | Ollama |
| Vector store, `qdrant_repo.go` | points of a collection | `Ingest`, `SearchSimilar`, `DeleteByIDs` (not implemented) | Qdrant, embedder |
| Object storage, `minio_storage.go` | buckets and objects, in MinIO | `Upload`, `Delete`, `DownloadStream` | MinIO |
| API process, `cmd/kliops-api/main.go` | pool, connection, channel, listener | startup, serving, shutdown | all of the above |
| HTTP handlers and routing, `gateway.go`, `ingestion_handlers.go`, `middleware.go` | none of their own; two muxes | five handlers, `APIKeyMiddleware` | archive service, storage, pricing |
| Pricing, `pricing_service.go`, `pricing_*.go` | map of strategies behind a `sync.RWMutex` | `RegisterStrategy`, `GetPrice` by PostgreSQL, Excel or ERP | PostgreSQL, a local file, an ERP |
| Document generation, `document_service.go`, `workspace_adapter.go` | none; the documents are Google's | `CompileTechnicalMemory`, `GenerateFromStream`, `ShareWithUser` | object storage, Google Drive and Docs |
| PDF parser, `minio_pdf_parser.go` | a temporary file per call | `FetchAndParse` | object storage |

Where the difficulty is:

* **Concurrency.** A goroutine per delivery, a semaphore that is released early
  and taken again, a dispatch loop that competes with retries; concurrent
  uploads of one tender, of one file, into one new bucket; overlapping runs of
  one job; readers of a lock behind a writer that waits for it.
* **Failure.** Consumers that are cancelled, lose their connection or die while
  they hold deliveries; transactions across PostgreSQL and MinIO; commits whose
  answer is lost; a rollback in Qdrant that does nothing; documents at Google
  that are created and then not filled or not shared.
* **Ordering.** Publish before acknowledge, commit before publish, point before
  row, dead-letter queue before main queue, drain before close.
* **Time.** Backoff, a client without a timeout, ten seconds for shutdown.

What makes each component correct is the list of properties of section 4;
`PROJECT.json` lists the hazards at their lines and the properties that cover
them, or says why none does.

## 2. Modules

| Module | Content |
|---|---|
| `JobDelivery` | the contract of a job queue that delivers at least once |
| `JobQueue`, `JobQueueProps`, `MCJobQueue` | `PublishJob` and `ConsumeJob`, and the broker they use |
| `JobQueueProofs` | theorems about `JobQueue`, and that it implements `JobDelivery` |
| `JobFateProofs` | that a job has exactly one fate while connections last |
| `Archive`, `ArchiveProps`, `MCArchive` | `ProcessZipArchive` with its transaction, uploads and publication |
| `ArchiveProofs` | theorems about `Archive` |
| `Worker`, `WorkerProps`, `MCWorker` | `HandleJob` with PostgreSQL and Qdrant |
| `WorkerProofs` | theorems about `Worker` |
| `Retrieval`, `RetrievalProps`, `MCRetrieval` | the extraction loop, chunking, cosine and top-k |
| `RetrievalProofs` | theorems about `Retrieval` and its algorithms |
| `Server`, `ServerProps` | the life of API processes and the declarations they share |
| `ServerProofs` | theorems about `Server` |
| `TenderIngestion` | what the ingestion pipeline promises about a tender |
| `Pipeline`, `PipelineProps`, `MCPipeline` | `Archive`, `JobDelivery` and `Worker` composed |
| `PipelineProofs` | theorems about `Pipeline`, and that it implements `TenderIngestion` |
| `Storage` | `Upload` and `DownloadStream` of `MinioStorage` |
| `Documents` | `DocumentService` and `WorkspaceAdapter`, on `Storage` |
| `Pricing` | `PricingService`, its lock and its strategies, and `HandlePrice` |
| `Gateway`, `GatewayProps`, `MCGateway` | the handlers, `Documents` and `Pricing` composed |
| `GatewayProofs` | theorems about `Gateway` with `Storage`, `Documents` and `Pricing` |
| `Routing`, `RoutingProps` | the two muxes and the API key |

A component's module holds the state machine only; its properties, fairness and
refinement mappings are in `...Props`. A definition commented *Mutation* is a
plausible bug that no specification uses; it is there to show that some property
would notice it.

### JobQueue

A *copy* is one message the broker stored. `place[c]` and `holder[c]` are the
broker's view (queued, acknowledged, dead-lettered; out to whom), `msg[c]` the
`JobMessage`. `task[k][c]` is the goroutine of consumer `k` for copy `c`, `sem[k]`
the slots in use, `loop[k]` the dispatch loop. The steps of a goroutine are those
between which another one can be seen to act: `CallHandler`, the handler's
result, `BackoffElapses`, `Republish`, `AckRepublished`. Some choices:

* The handler's result and the Ack or Nack that follows are one step. Any fault
  between the two has the effect of the same fault before the step, where the
  handler's call may have had every effect already: its effect is the business
  of `Worker`.
* `PublishMu` makes a publication one step. `json.Marshal` of a `JobMessage`
  cannot fail, so its error path is left out.
* A publication fails on a closed connection only: amqp091 v1.10 does not look
  at the context in `PublishWithContext`. A publication and the Ack after it go
  through one channel in order, so the broker that sees the Ack has the message.
* `Ack` and `Nack` on a closed channel have no effect (`Settle`); deliveries still
  buffered in `msgs` are gone when the connection closes (`LoseConnection`).
* Nothing reconnects. A consumer that comes back is another consumer.
* `done` and `failures` are histories; no action reads them.

### Archive

An attempt `<<r, i>>` is row `i` of the manifest of request `r`. Its identifier is a
fresh UUID, so it also stands for the project, the job and the object of that
row. Each statement, upload, commit and publication is a step of its own, because
other requests, the client and the process may get in between. `txn[r]` is what
the open transaction has inserted; `Locked` is the unique index on
`appels_offres.external_id` (`deployments/migrations`), on which a second INSERT
of the same tender waits. Calls made after the client has left fail; a failing
call may have taken effect where that is possible (`doubt`, `late`). Requests may
be served by different processes, so each of them may crash by itself.
`errors` is a history of errors whose effect the code cannot know.

### Worker

A run is one call of `HandleJob`; `Start` lets any number of runs of one job
overlap, as at-least-once delivery does. Pair `i` of run `w` is `<<w, i>>`, which is
both its point and its row. `GetDocumentPath` fails for a project without a
document of that type. `DeleteByIDs` is translated as it is: it deletes nothing.
`lost` is a history of jobs whose status update reported an error.

### Retrieval

A text is its length, a chunk an interval, an embedding a vector of integers.
The cosine is compared by its signed square as a fraction, so that the threshold
0.40 is exact; the rounding of `float32` and `float64` is left out. `sort.Slice` is
not stable, so `TopK` is a set of results. `Dot` and `Take` are recursive functions
that follow the loops of `cosineSimilarity` and `getTopKSimilar` step by step. Every call to Ollama answers or fails;
the content of an answer is a number of pairs. `Worker` sees the result as any
number of pairs.

### Server

`NewRabbitMQAdapter` is a sequence of idempotent declarations at a broker that
several processes share, and `main` a sequence of openings, deferred closings and
exits. A request is any call of a handler that may publish; which path leads to
which handler is the business of `Routing`. `log.Fatalf` ends the process without
the deferred calls.

### Pipeline

`Archive` and `Worker` are instantiated with the variables they share with the
rest, and with the same names where no names clash (`stage` and `stopped` are
`step` and `gone` of `Worker`). Of the queue the composition takes the contract
`JobDelivery`, which `JobQueue` is proved to implement, so its retries and
consumers do not multiply the states; that it buries only jobs with a failed run
is what `DeadLettersJustified` says of it. The glue is what one part does to
another: the commit of a row makes its job PENDING (`HandOver`), a publication
makes the queue owe it, a delivery starts a run, a run reads what is committed
and stored (`Readable`), and a run that returns nil tells the queue (`Work`). A
request of `Healthy` takes the steps of `Archive` without faults, in the same
state and next to requests that meet every fault.

`SavedTypes` is what `archive_service.go:138-150` saves: a document of type DCE and
none of type MEMOIRE. With that value no run gets past `ReadDocuments`, no job is
completed and the queue discharges none. It is a constant so that the properties
of the composition are checked, and proved, for runs that succeed as well.

### Storage, Documents, Pricing and Gateway

A *call* is a request to a handler or a call of `CompileTechnicalMemory` or
`RegisterStrategy`; `kind[c]` says which, and `step[c]` what it does next. `Storage`
and `Documents` are written over the same calls and extend one another; `Pricing`
has a state of its own next to them and is an instance in `Gateway`, which adds the
handlers, the answers, and clients that leave.

* The version of a file is the call that uploaded it, and a document is named by
  the call that made it, so that *which* template a document was made of can be
  told. `before[c]` is a history: the calls that were answered when `c` began.
* A call to MinIO or Google may fail without effect, or have its effect and
  report an error. A `PutObject` that reported an error may take effect at any later
  moment (`StoreDelayed`), after other uploads of the same name.
* An upload may read its file part by part; MinIO shows a new version whole, so
  `PutObject` is one step. `BatchUpdate` is atomic, as Google documents it.
* `RLock` waits while a writer holds the lock or waits for it, as `sync.RWMutex`
  has it. That is how a reader that never leaves could block the others.
* The outcomes of a strategy are what `HandlePrice` tells apart: it answers 404
  where the text of an error contains "not found" or "not configured". An article
  code that contains these words itself is left out.
* `Gateway` is about handlers that are called. Which requests reach them, and that
  under the routing of `main` none does, is `Routing`'s part; the tests of the
  handlers call them directly, too. No program calls `CompileTechnicalMemory` or
  `RegisterStrategy`.

### Routing

Patterns and paths are records and sequences of segments. A request goes through
the outer mux, the key and the inner mux in three steps; the inner mux sees the
path that the outer one saw.

## 3. Fairness

* `JobQueueProps!Fairness`: the Go scheduler runs the loop and every goroutine,
  timers fire, handlers return, the broker delivers. Fairness is strong for a
  goroutine and for the loop, because what they wait for (a slot, a delivery) can
  be taken by others in between, and Go serves the senders blocked on a channel
  in turn, delivers `msgs` in order, and lets `select` choose at random. No
  fairness is assumed of the handler's success, nor of any fault.
* `EveryMessageSettles` assumes besides that a cancelled process exits some time:
  until then the broker keeps sending it messages that nobody reads.
* `ArchiveProps!FairSpec`: a request goes on, except that a statement that waits
  for a lock need not fail.
* `RetrievalProps!Fairness`: nothing is assumed of the model's answer, since its
  HTTP client has no timeout; the embedder's has one.
* `PipelineProps!Fairness`: that of `Archive`, runs that go on, and a broker that
  delivers a job it owes when nobody works on it. The number of deliveries is
  bounded, and `TendersGetAnOutcome` excepts a run that dies in the last of them.
* `GatewayProps!Fairness`: calls of the lock and the map go on; the Excel strategy
  reads a file and the client of the ERP has a timeout of five seconds
  (`pricing_erp.go:21`), so they answer; a query of PostgreSQL answers only if its
  context is done, since nothing else limits it. Nothing is assumed of MinIO and
  Google.
* `ServerProps!FairSpec`: main goes on and its timer fires; handlers may hang.

## 4. Runs

Eight runs check everything that holds.

**JobQueue_faults** (`SlotAccounting`, `ChannelOwnsTasks`, `QueueInv`, `NoJobLost`,
`DeadLettersJustified`, `OneFate`, `ImplementsDelivery`). One job, one malformed
message, two consumers of two slots, `MaxRetries` 1, three messages in all:
enough for a job, its retry, a retry of a requeued duplicate, and both consumers
working on copies of the same job. Both consumers may fail, so they are a
symmetry set. `QueueInv` contains the type invariant. About 700,000 states.

**JobQueue_progress** (`EveryMessageSettles`, `StoppedConsumerDrains`). One slot per
consumer, so that slots are scarce; `k2` stays up. Three copies are all that can
be published: a job and one retry by each consumer, since a consumer that fails
does not come back. That `k2` keeps its connection is a premise of `EveryMessageSettles`:
when every consumer has lost its own, nothing reconnects, and messages stay queued.
`StoppedConsumerDrains` is about the consumer that did: its loop and its
goroutines end, as those of a cancelled one do.

**Archive_faults** (`TypeOK`, `AllOrNothing`, `OneJobPerTender`, `PublishedJobsAreReady`,
`DocumentsAreReadable`, `NoOrphanObjects`, `RequestsEnd`, `CommittedJobsArePublished`). Two
requests with two tenders in opposite orders, the order that would deadlock if
locks outlived a row, and a malformed row. Three of the properties name what the
code gives up on: a lost commit answer costs a PDF, a failing MinIO leaves an
object, a failed publication leaves a job PENDING for ever.

**Worker_faults** (`TypeOK`, `RowsHavePoints`, `CompletedIsStored`, `RestingJobHasOutcome`).
Three runs over two jobs, one without a MEMOIRE, up to two pairs.

**Retrieval_faults** (`TypeOK`, `ChunksPartition`, `PromptIsBest`, `NoAnswerLost`,
`CancelledExtractionEnds`). Every length from empty to three chunks, K = 2 so that
three chunks exceed it, and vectors that tie, are null, opposite, and on both
sides of the threshold.

**Server_faults** (`ResourcesOutliveRequests`, `NoMessageDropped`,
`DeadLetteringFirst`, `SignalledProcessExits`). Two processes, two requests.

**Pipeline_faults** (`HealthyUploadsIngest`, `BuriedJobsShowOutcome`,
`ImplementsIngestion`, `TendersGetAnOutcome`). Two uploads of one tender, which is where
uploads meet: one request meets every fault, the other none. Two deliveries of
each job, which may overlap: enough for a run that fails or dies while another
one of the same job succeeds, before or after the queue has settled the job. A
third delivery repeats these cases and is too large for TLC. `SavedTypes` is
`{"DCE", "MEMOIRE"}` here, since with the code's `{"DCE"}` every run fails at its read;
the faults `db` and `parse` let it fail there in this instance too, so the code's
behaviours are among those checked. `MaxPairs` is 0: what a run does with its pairs
is checked in Worker_faults, and the composition adds nothing to it. Under the mapping
`seenBar`, each step is one of `TenderIngestion` or a stutter.
`TendersGetAnOutcome` names what the code gives up on: a job whose publication was
lost stays PENDING, and a second upload of the tender, though answered 202, skips it
(`archive_service.go:124`).

**Gateway_faults** (`TypeOK`, `UploadsFailWithCause`, `UploadsTakeEffectInOrder`,
`DocumentsUseCurrentTemplate`, `ReturnedDocumentsAreReady`, `PricesAreAnswered`). Three
calls, with every fault, in eight workloads up to the names of the calls: uploads
to one file and to files of one bucket, documents next to uploads of the template,
and prices next to registrations in every combination. Three is what the
properties need: an upload that is late, one that replaces it, and one that reads;
or a reader, a writer that waits for it, and a reader that waits for both. Files
and prices share no state, so mixing them would only multiply. Of the three
sources, PostgreSQL may hang. About 520,000 states.

Four runs show where the code and its documentation disagree.

* **JobQueue_retries**: wiki/Ingestion-Pipeline.md:56 says jobs are retried up to
  three times. A consumer cancelled in the backoff requeues the old body
  (`rabbitmq.go:223`), whose count lacks the failure. Besides, the limit is
  reached at the fourth failure, not the third (`rabbitmq.go:175`).
* **Worker_rollback**: wiki/Ingestion-Pipeline.md:59 says that points are rolled back.
  `DeleteByIDs` is not implemented and its error is ignored.
* **Pipeline_memoire** (with the code's `SavedTypes`): wiki/Ingestion-Pipeline.md:38,52 says that the DCE and the
  MEMOIRE are read and the job is completed. The archive service saves no MEMOIRE,
  so without any fault the job of every tender fails.
* **Routing_documented**: README.md:97-102 lists the routes. The inner mux is mounted
  under `/api/v1/` without `http.StripPrefix` (`main.go:117`), so each of them but
  `/health` is answered 404 once the key is accepted.

Three more disagreements are seen in the exceptions of properties that hold. An
object stays when its row fails because the client left, since `Storage.Delete` is
called with the same context (`archive_service.go:167`; `NoOrphanObjects` excepts an
error of MinIO), though wiki/Architecture.md:54 speaks of one transaction. A DCE
chunk whose embedding fails is skipped and the extraction succeeds
(`gemma_extractor.go:189`), though README.md:89 sends each one to the model.
`UploadMercuriale` says that the Excel strategy will use the object it stores
(`ingestion_handlers.go:73`), and that strategy opens a local file.

`CHECK_DEADLOCK FALSE` everywhere: every process may end, and bounds on messages,
runs, requests and calls end every behaviour.

## 5. Proofs

All theorems hold for every value of the constants that satisfies the module's
assumption. tlapm checks them with SMT, Zenon and LS4.

**JobQueueProofs** (from `QueueAssumption`). `QueueInvariant` proves that `QueueInv` is
inductive. None of the safety properties is inductive by itself, and `QueueInv`
says why they hold:

* `SlotAccounting` needs only the types. Each step that makes a goroutine a holder
  of a slot takes one, and each that ends it frees one; the lemmas `SlotTaken`,
  `SlotFreed` and `SlotsKept` do the counting.
* `ChannelOwnsTasks` needs `OffIsIdle`, that a process that is not running has nothing.
* `NoJobLost` is about a job and cannot see which message stands for which.
  `GoneAreCovered` does: whenever a message is acknowledged, or about to be after
  its retry was published, its job is done, or a message of the same job with a
  *higher retry count* is queued or dead. The number of messages is finite, so a
  chain of covers ends in one that is not gone: the lemma `InvNoJobLost` takes the
  message of the job with the highest count.
* `DeadLettersJustified` needs `FailuresCounted`: the retry count of a message never
  exceeds the failures of its job, and is less while its retry is under way.

`DeliversAtLeastOnce` proves the refinement. Under the mapping `owedBar`, `deadBar`
each action of `JobQueue` is one of `JobDelivery` or a stutter; acknowledging a
retried message is a stutter because of `GoneAreCovered`.

**ArchiveProofs** (from `ArchiveAssumption`). All six safety invariants of the run
are proved, from `ArchiveInv`:

* `RequestInv(r)` ties the step of a request to what its transaction holds, whether
  `uploadedPaths` is empty, and whether its attempt has an object and rows. It
  says, for instance, that the cleanup meets a committed document only after a
  commit that reported an error.
* `AttemptInv(a)` ties the tables, the bucket and the queue for one attempt. That
  nothing exists of rows the request has not come to makes a new row fresh.
* `OneClaim` is why tenders are unique: an `external_id` is held by one committed
  project *or* one open transaction. Without the second half the invariant is not
  inductive: two transactions that both passed `CheckProjectExists` could commit.

`LocalStep` reduces a step of one request to what it does to that request and its
attempt; `RowEnds` and `RowGoesOn` are its two forms, and each action is a use of one
of them, except for the commit.

**ServerProofs** (from `ServerAssumption`). `ServerInv` says what a process has opened at
each stage and that the declarations it has come past are at the broker, which
never loses one. Hence a process that serves finds them all
(`AllDeclared`), and the fifth declaration, the queue, finds the first three.

**JobFateProofs** (from `QueueAssumption`). `OneFate` counts the messages of a job, and
`FateInv` says which of them still stand for it (`Bears`): the dead-lettered, and the
queued that no goroutine has replaced by a retry. While connections last, one
does until the job is done, and none from then on. That each step keeps it so
needs `ChannelOwnsTasks`: two goroutines with the same message could both publish
a retry of it (`WorkIsExclusive`).

**WorkerProofs** (from `WorkerAssumption`). All four invariants of the run.
`RowsHavePoints` is inductive once `RunInv` says that a run at `save` has ingested
the pair it saves. `CompletedIsStored` and `RestingJobHasOutcome` are not: both
speak of runs that have ended, and `JobInv` of those that have not. A job that
shows PROCESSING has a run that will still report (`Unreported`), as each run
writes the status before it stops being one; one that shows COMPLETED has a run
whose pairs are stored and are taken away by nobody, *because* `DeleteByIDs` does
nothing. A working rollback would need a new argument: that it deletes only the
points of its own run.

**RetrievalProofs** (from `RetrievalAssumption`). All four invariants of the run, for
texts of any length, any limits and any vectors of integers.

* `ChunksPartition` is arithmetic about the rounded-up division (`CountBounds`).
* `Dot`, `Take` and the library's `FlattenSeq` are recursive functions. `Recursion`
  proves that a function given by such an equation exists, hence that the one
  the definition chooses obeys the equation, and `Induction` is about sets: a
  set of naturals with 0 that is closed under the successor is `Nat`. It follows
  from well-foundedness, without a theorem that takes an operator.
* `PromptIsBest`: similarity is a weak order on fractions (`LessTransitive`, for
  which `NormNotNegative` makes denominators positive), so in a sorted ranking the
  relevant chunks come first (`RelevantFirst`), what `Take` keeps is a prefix of the
  ranking (`TakePrefix`), and a ranking names every chunk once (`RankingIsBijection`).
* `NoAnswerLost` is not inductive, since an answer in the middle of the DCE is
  appended at the end: `AnswersInv` adds that the current chunk and all later ones
  have no answer yet, and `FlattenLater` that what comes after all others belongs
  at the end.

**PipelineProofs** (from `PipelineAssumption`, which implies those of the parts). Both
invariants and the refinement. The modules of theorems about `Archive` and `Worker`
are instantiated with the substitutions of `Pipeline`, and each step of the
pipeline is one of theirs or leaves their variables alone; so `ArchiveInv` and
`WorkerInv` hold of the composition and `PipelineInv` adds only what ties the parts
together: the queue knows only published jobs (`QueueInv`), a run works on a job
that was delivered to it and has moved its status from PENDING (`DeliveryInv`),
nobody has touched a job before (`Untouched`), and a healthy upload has covered
every row it has passed (`HealthyInv`).
`PipelineImplementsIngestion` rests on `OneJobPerTender`: the mapping `seenBar`
chooses a job of a tender, and there is only one. `SeenGrows` and `SeenChanges` say
what the commit of a row and the update of a status do to it; every other step
is a stutter.

**GatewayProofs** (from the assumptions of `Storage`, `Documents` and `Gateway`). All five invariants
of the run, and `StrategiesGuarded`, that the lock guards the map of strategies.
`TypeOK` alone is not inductive: that whoever writes is alone follows from
`LockInv`, which says exactly who holds the lock and who waits. `CallInv` relates the
step of a call to its file, its document and the causes of failure it has met.
The two properties about order (`UploadsTakeEffectInOrder`,
`DocumentsUseCurrentTemplate`) need `BeforeIsOver`: what was answered before a call
began stays as it was; and `TookEffect`, which is `UploadsTakeEffectInOrder` together
with the uploads whose file is in place and whose answer is not yet given.

Only model-checked: the liveness properties (`EveryMessageSettles`,
`StoppedConsumerDrains`, `RequestsEnd`, `CommittedJobsArePublished`,
`CancelledExtractionEnds`, `SignalledProcessExits`, `TendersGetAnOutcome`,
`PricesAreAnswered`), since neither fairness nor ENABLED is in the provers' reach.
`Routing` has no theorem: it is one finite table of routes, which TLC goes
through whole.

## 6. Not modelled

* `ConsumeJob` and `WorkerService` are started by no program of the repository;
  `JobQueue` and `Worker` model what they do once they are called.
* `SearchSimilar` of `qdrant_repo.go`: it changes no state, Qdrant does its work, and
  only the demonstration calls it. It reads the identifier of a hit from a field
  `id` of the payload (`qdrant_repo.go:130`) that `Ingest` never writes, so that the
  identifier is always empty. The collection is created by no code.
* Rows of different lengths: `encoding/csv` refuses a manifest that has them
  (`archive_service.go:99`), so that a row is malformed only if all are. `Archive`
  lets malformed rows stand next to others.
* A nil strategy, which `RegisterStrategy` refuses without effect, and the order of
  writers among themselves: a reader of `Pricing` waits for all that wait, while
  `sync.RWMutex` lets it pass between two of them. That is the behaviour in which
  the second writer comes later.
* The limits of `net/http`: `WriteTimeout` closes the connection of a handler that
  takes more than ten seconds; the handler goes on, and its answer is lost.
* The text extraction of the PDF parser, the content of prompts and answers,
  logging, Kubernetes objects: I/O and data no property tells apart.
* The demonstration `cmd/test-ingestion`: a sequential program.

## 7. Plan

1. *Done*: `JobDelivery`, `JobQueue`, `Archive`, `Server` with their proofs; `Worker`;
   `Retrieval`; `Pipeline` with `TenderIngestion`; `Storage`, `Documents`, `Pricing`,
   `Gateway`; `Routing`.
2. *Done*: proofs of every safety property a run checks, of `WorkerInv`,
   `GatewayInv`, `FateInv`, `PipelineInv` and `RetrievalInv` as their inductive
   invariants, and of both refinements.
3. Left: the safety halves of the liveness properties, which are that a call or a
   goroutine that is at work always has a step to take.
