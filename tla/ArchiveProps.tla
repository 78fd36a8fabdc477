---------------------------- MODULE ArchiveProps ----------------------------
(***************************************************************************)
(* What makes the ingestion of archives correct: a tender is ingested once *)
(* whatever requests race for it, its rows are committed together, and the *)
(* worker that receives its job finds all it needs.                        *)
(***************************************************************************)
EXTENDS Archive

Steps == {"idle", "row", "create", "upload", "save", "job", "commit", "cleanup",
          "publish", "accepted", "refused", "crashed"}

\* Type invariant.
TypeOK ==
  /\ step \in [Requests -> Steps]
  /\ row \in [Requests -> Nat \ {0}]
  /\ \A r \in Requests : row[r] <= Len(Manifest[r]) + 1
  /\ txn \in [Requests -> SUBSET {"projects", "documents", "jobs"}]
  /\ uploaded \in [Requests -> BOOLEAN]
  /\ gone \subseteq Requests
  /\ projects \cup documents \cup jobs \cup objects \cup queue \subseteq Attempts
  /\ errors \subseteq {"commit", "storage", "publish"} \X Attempts

\* Project, document and job of a row become visible together: no reader of
\* the database meets a project without its job, or a job without its PDF.
AllOrNothing == projects = documents /\ projects = jobs

\* Requests that upload the same tender at the same time, or after a crash,
\* create one project for it and publish one job, although each of them
\* checked before its transaction that there was none.
OneJobPerTender ==
  \A a, b \in projects \cup queue : Tender(a) = Tender(b) => a = b

\* What the worker is told of exists: a published job has its committed rows
\* and the object its document names.
PublishedJobsAreReady == queue \subseteq projects \cap documents \cap jobs \cap objects

Met(a, what) == <<what, a>> \in errors

\* The cleanup never removes the PDF of a committed document, unless the
\* commit took effect and reported an error.
DocumentsAreReadable == \A a \in documents : a \in objects \/ Met(a, "commit")

\* The request is at work on the row of attempt a, or died there.
AtWork(a) == row[a[1]] = a[2] /\ step[a[1]] \notin {"idle", "refused", "accepted"}

\* A row that fails leaves no object behind: every object has its document,
\* unless MinIO itself reported an error or the process died at that row.
NoOrphanObjects == \A a \in objects : a \in documents \/ AtWork(a) \/ Met(a, "storage")

-----------------------------------------------------------------------------
\* The Go scheduler runs the request, and calls return; a statement that waits
\* for the transaction of another request need not.
Waits(r) == step[r] = "create" /\ Locked(r) /\ Live(r)
FairSpec == Spec /\ \A r \in Requests : WF_vars(~ Waits(r) /\ ProcessStep(r))

\* Every request is answered, or dies with its process: transactions that
\* wait for each other's external_id never wait in a circle.
RequestsEnd == \A r \in Requests : Running(r) ~> ~ Running(r)

\* A committed job reaches the broker, unless the publication itself fails, the
\* commit reported an error, or the process dies before.
CommittedJobsArePublished ==
  \A a \in Attempts :
    a \in jobs ~> \/ a \in queue \/ step[a[1]] = "crashed"
                   \/ Met(a, "publish") \/ Met(a, "commit")
=============================================================================
