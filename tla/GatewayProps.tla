---------------------------- MODULE GatewayProps ----------------------------
(***************************************************************************)
(* Properties of the handlers.                                             *)
(***************************************************************************)
EXTENDS Gateway

\* Every variable has its type, and the lock of the strategies is held for
\* writing by one call alone, or for reading.
TypeOK ==
  /\ kind \in Workloads
  /\ step \in [Calls -> {"idle", "make", "check", "put", "stored", "error", "answered",
                         "stat", "stream", "replace", "share", "rlock", "lookup", "ask",
                         "lock", "register", "registered"} \cup Returned]
  /\ file \in [Calls -> Files \cup {Nothing}]
  /\ gone \subseteq Calls /\ met \subseteq Calls /\ delayed \subseteq Calls
  /\ buckets \subseteq {BucketOf[f] : f \in Files}
  /\ objects \in [Files -> Calls \cup {Nothing}]
  /\ template \in [Calls -> Calls \cup {Nothing}]
  /\ vacant \subseteq Calls /\ filled \subseteq Calls /\ shared \subseteq Calls
  /\ status \in [Calls -> {0, 200, 400, 404, 500}]
  /\ source \in [Calls -> {"postgres"} \cup Sources] /\ strategies \subseteq Sources
  /\ before \in [Calls -> SUBSET Calls]
  /\ readers \subseteq Calls /\ waiting \subseteq Calls
  /\ writer \in Calls \cup {Nothing}
  /\ writer # Nothing => readers = {}

\* Uploads that were answered 200, all of them to file f.
Stored(f) == {u \in Calls : file[u] = f /\ status[u] = 200}

\* Upload x had been answered, as a success, when upload u began.
Precedes(x, u) == x \in before[u] /\ status[x] = 200

\* An upload is answered 500 only if a call it made failed: that another one
\* creates the bucket at the same moment is no cause (MinioStorage.Upload asks
\* BucketExists when MakeBucket fails).
UploadsFailWithCause ==
  \A c \in Calls : kind[c] # "price" /\ status[c] = 500 => c \in met

\* Every mercuriale has the same name, and so has every template.  A file
\* whose upload was answered 200 is there from then on, in that version or in
\* that of an upload that was not over before: no success of the past comes
\* back.  (An upload that was answered 500 may: PutObject may take effect
\* later than its error.)
UploadsTakeEffectInOrder ==
  \A f \in Files : \A u \in Stored(f) : objects[f] # Nothing /\ ~Precedes(objects[f], u)

\* A document is made of the template as it was when CompileTechnicalMemory
\* read it: never of one that an upload, answered 200 before the compilation
\* began, had replaced.
DocumentsUseCurrentTemplate ==
  \A c \in Calls : template[c] # Nothing =>
    \A u \in Stored(Template) \cap before[c] : ~Precedes(template[c], u)

\* The URL of a document is returned only if the document exists and its
\* placeholders are replaced, and without an error only if it is shared: the
\* copy that a failed BatchUpdate leaves is never handed out.
ReturnedDocumentsAreReady ==
  \A c \in Calls : step[c] \in {"done", "unshared"} =>
    /\ template[c] # Nothing
    /\ c \in vacant \cup filled
    /\ step[c] = "done" => c \in shared

-----------------------------------------------------------------------------
\* Excel reads a file and checks its context, the client of the ERP gives up
\* after five seconds, and the lock is released by whoever holds it; a query
\* of PostgreSQL has the context of its request as its only limit.
Prompt(c) == source[c] # "postgres" \/ c \in gone

Fairness == \A c \in Calls :
  /\ WF_vars(PriceCall(c))
  /\ WF_vars(Prompt(c) /\ StrategyCall(c))
  /\ WF_vars(AddCall(c))

FairSpec == Spec /\ Fairness

\* What a call about prices waits for is the lock, or a strategy that answers.
Busy(c) ==
  \/ step[c] \in {"rlock", "lookup", "lock", "register"}
  \/ step[c] = "ask" /\ Prompt(c)

\* A strategy that hangs holds up nobody else: GetPrice releases the lock
\* before it calls the strategy, so every price asked of another one is
\* answered and every strategy that is registered gets into the map.
PricesAreAnswered == \A c \in Calls : Busy(c) ~> (~Busy(c))
=============================================================================
