---------------------------- MODULE WorkerProofs ----------------------------
(***************************************************************************)
(* Proofs about Worker, for any number of runs and jobs, answers of the    *)
(* language model of any length, and every set of faults.  The inductive   *)
(* invariant has one part about each run and one about each job.           *)
(***************************************************************************)
EXTENDS WorkerProps, TLAPS

\* What the local state of a run says about what it has stored.
RunInv(w) ==
  /\ step[w] = "idle" <=> job[w] = Nothing
  /\ ingested[w] <= pairs[w]
  /\ step[w] \in {"idle", "status", "read", "extract"} => pairs[w] = 0
  /\ step[w] = "ingest" => Pairs(w, ingested[w]) \subseteq rows \cap points
  /\ step[w] = "save" => /\ ingested[w] > 0
                         /\ Pairs(w, ingested[w]) \subseteq points
                         /\ Pairs(w, ingested[w] - 1) \subseteq rows

\* A run that has marked its job and not reported an outcome: it will, unless
\* it died.
Unreported == {"read", "extract", "ingest", "save", "rollback", "failJob", "crashed"}

\* A run that has stored all it extracted, and ended.
HasStored(w) ==
  /\ step[w] \in {"succeeded", "failed"}
  /\ ingested[w] = pairs[w]
  /\ Pairs(w, pairs[w]) \subseteq rows \cap points

\* What the status of a job says about its runs.
JobInv(j) ==
  /\ status[j] = "PENDING" /\ j \notin lost =>
       \A w \in Runs : job[w] = j => step[w] \in {"status", "crashed"}
  /\ status[j] = "PROCESSING" /\ j \notin lost =>
       \E w \in Runs : job[w] = j /\ step[w] \in Unreported
  /\ status[j] = "COMPLETED" => \E w \in Runs : job[w] = j /\ HasStored(w)

\* The inductive invariant.
WorkerInv ==
  /\ TypeOK
  /\ \A w \in Runs : RunInv(w)
  /\ \A j \in Jobs : JobInv(j)
  /\ RowsHavePoints

-----------------------------------------------------------------------------
(* Steps of one run. *)

\* Run w acts on its own state, takes no point, row or lost job away, and
\* writes at most the status of its own job.
Frame(w) ==
  /\ \A v \in Runs \ {w} : /\ step'[v] = step[v] /\ job'[v] = job[v]
                           /\ pairs'[v] = pairs[v] /\ ingested'[v] = ingested[v]
  /\ points \subseteq points' /\ rows \subseteq rows' /\ lost \subseteq lost'
  /\ \A j \in Jobs : j # job'[w] => status'[j] = status[j]

\* Run w, at work or not yet started, goes on without touching the status of
\* its job, and does not report.
GoesOn(w) ==
  /\ step[w] \notin Ended /\ (step[w] = "idle" \/ job'[w] = job[w])
  /\ status' = status /\ lost' = lost
  /\ IF step[w] \in {"idle", "status"} THEN step'[w] \in {"status", "crashed"}
                                       ELSE step'[w] \in Unreported

\* The end of a run does not undo what an earlier run has stored.
LEMMA StoredStays ==
  ASSUME NEW w \in Runs, Frame(w), NEW v \in Runs \ {w}, HasStored(v)
  PROVE  HasStored(v)' /\ job'[v] = job[v]
BY DEF Frame, HasStored, Pairs

\* What other runs have stored is there still.
LEMMA OtherRuns ==
  ASSUME WorkerInv, NEW w \in Runs, Frame(w), NEW v \in Runs \ {w}
  PROVE  RunInv(v)'
<1>1. RunInv(v) BY DEF WorkerInv
<1>2. /\ step'[v] = step[v] /\ job'[v] = job[v]
      /\ pairs'[v] = pairs[v] /\ ingested'[v] = ingested[v]
      /\ points \subseteq points' /\ rows \subseteq rows'
  BY DEF Frame
<1> QED BY <1>1, <1>2 DEF RunInv, Pairs

\* Other jobs keep their part of the invariant.
LEMMA OtherJobs ==
  ASSUME WorkerInv, NEW w \in Runs, Frame(w), step[w] \notin Ended,
         step[w] = "idle" \/ job'[w] = job[w],
         NEW j \in Jobs, j # job'[w]
  PROVE  JobInv(j)'
<1>1. JobInv(j) /\ RunInv(w) BY DEF WorkerInv
<1>2. status'[j] = status[j] /\ (j \notin lost' => j \notin lost) BY DEF Frame
<1>3. job[w] # j BY <1>1, WorkerAssumption DEF RunInv
<1>4. \A v \in Runs : /\ job'[v] = j <=> job[v] = j
                      /\ job[v] = j => v # w /\ step'[v] = step[v]
  BY <1>3 DEF Frame
<1>5. ASSUME status'[j] = "COMPLETED"
      PROVE  \E v \in Runs : job'[v] = j /\ HasStored(v)'
  <2>1. PICK v \in Runs : job[v] = j /\ HasStored(v) BY <1>1, <1>2, <1>5 DEF JobInv
  <2> QED BY <1>4, <2>1, StoredStays
<1> QED BY <1>1, <1>2, <1>4, <1>5 DEF JobInv

\* A run that goes on leaves its own job in order too.
LEMMA OwnJobGoesOn ==
  ASSUME WorkerInv, NEW w \in Runs, Frame(w), GoesOn(w), NEW j \in Jobs, j = job'[w]
  PROVE  JobInv(j)'
<1>1. JobInv(j) /\ RunInv(w) BY DEF WorkerInv
<1>2. status'[j] = status[j] /\ lost' = lost BY DEF GoesOn
<1>3. \A v \in Runs \ {w} : job'[v] = job[v] /\ step'[v] = step[v] BY DEF Frame
<1>4. CASE status[j] = "PENDING"
  <2>1. j \notin lost => step[w] \in {"idle", "status"}
    BY <1>1, <1>4 DEF JobInv, GoesOn, Ended
  <2> QED BY <1>1, <1>2, <1>3, <1>4, <2>1 DEF JobInv, GoesOn
<1>5. CASE status[j] = "PROCESSING"
  <2> SUFFICES ASSUME j \notin lost PROVE \E v \in Runs : job'[v] = j /\ step'[v] \in Unreported
    BY <1>2, <1>5 DEF JobInv
  <2>1. PICK v \in Runs : job[v] = j /\ step[v] \in Unreported BY <1>1, <1>5 DEF JobInv
  <2>2. CASE v # w BY <1>3, <2>1, <2>2
  <2>3. CASE v = w
    <3>1. step'[w] \in Unreported BY <2>1, <2>3 DEF GoesOn, Unreported
    <3> QED BY <3>1
  <2> QED BY <2>2, <2>3
<1>6. CASE status[j] = "COMPLETED"
  <2>1. PICK v \in Runs : job[v] = j /\ HasStored(v) BY <1>1, <1>6 DEF JobInv
  <2>2. v # w BY <2>1 DEF HasStored, GoesOn, Ended
  <2>3. HasStored(v)' /\ job'[v] = j BY <2>1, <2>2, StoredStays
  <2> QED BY <1>2, <1>6, <2>3 DEF JobInv
<1>7. CASE status[j] = "FAILED" BY <1>2, <1>7 DEF JobInv
<1> QED BY <1>4, <1>5, <1>6, <1>7 DEF WorkerInv, TypeOK, Statuses

\* A step that goes on keeps the invariant if it keeps what concerns its run.
LEMMA StepGoesOn ==
  ASSUME WorkerInv, NEW w \in Runs, Frame(w), GoesOn(w), TypeOK', RunInv(w)', RowsHavePoints'
  PROVE  WorkerInv'
<1>1. \A v \in Runs : RunInv(v)' BY OtherRuns
<1>2. step[w] \notin Ended /\ (step[w] = "idle" \/ job'[w] = job[w]) BY DEF GoesOn
<1>3. \A j \in Jobs : JobInv(j)' BY <1>2, OtherJobs, OwnJobGoesOn
<1> QED BY <1>1, <1>3 DEF WorkerInv

\* So does a step that writes the status of its job, if that fits.
LEMMA StepReports ==
  ASSUME WorkerInv, NEW w \in Runs, Frame(w), step[w] \notin Ended, job' = job,
         TypeOK', RunInv(w)', RowsHavePoints', job[w] \in Jobs => JobInv(job[w])'
  PROVE  WorkerInv'
<1>1. \A v \in Runs : RunInv(v)' BY OtherRuns
<1>2. \A j \in Jobs : JobInv(j)' BY OtherJobs
<1> QED BY <1>1, <1>2 DEF WorkerInv

\* The pairs up to the one a run is at.
LEMMA PairsGrow ==
  ASSUME NEW w, NEW n \in Nat
  PROVE  /\ Pairs(w, n + 1) = Pairs(w, n) \cup {<<w, n + 1>>}
         /\ Pairs(w, 0) = {}
<1>1. 1..(n + 1) = (1..n) \cup {n + 1} /\ 1..0 = {} OBVIOUS
<1> QED BY <1>1 DEF Pairs

-----------------------------------------------------------------------------
\* Initially nothing has run.
LEMMA WorkerInitial == Init => WorkerInv
<1> SUFFICES ASSUME Init PROVE WorkerInv OBVIOUS
<1>1. TypeOK BY WorkerAssumption DEF Init, TypeOK, Steps, Statuses
<1>2. \A w \in Runs : RunInv(w) BY DEF Init, RunInv
<1>3. \A j \in Jobs : JobInv(j) BY WorkerAssumption DEF Init, JobInv
<1> QED BY <1>1, <1>2, <1>3 DEF Init, WorkerInv, RowsHavePoints

\* A run that does nothing but move on.
Moves(w, s) ==
  /\ step' = [step EXCEPT ![w] = s]
  /\ UNCHANGED <<job, pairs, ingested, status, points, rows, lost>>

\* Such a step is fine between steps of which nothing in particular is known.
LEMMA StepMoves ==
  ASSUME WorkerInv, NEW w \in Runs, NEW s, Moves(w, s), gone' \subseteq Runs,
         step[w] \notin Ended,
         \/ step[w] = "read" /\ s \in {"extract", "failJob", "crashed"}
         \/ step[w] \in Unreported /\ s \in {"failJob", "crashed"}
         \/ step[w] = "status" /\ s = "crashed"
         \/ step[w] # "idle" /\ s = step[w]
  PROVE  WorkerInv'
<1> USE DEF WorkerInv, Moves
<1>1. step[w] \in Steps BY DEF TypeOK
<1>2. GoesOn(w)
  BY <1>1 DEF GoesOn, Unreported, Ended, Steps, TypeOK
<1>3. TypeOK' BY <1>1 DEF TypeOK, Steps, Ended
<1>4. Frame(w) BY DEF Frame
<1>5. RunInv(w)'
  <2>1. RunInv(w) OBVIOUS
  <2>2. step'[w] = s BY DEF TypeOK
  <2> QED BY <2>1, <2>2 DEF RunInv, Pairs, Unreported, Ended
<1> QED BY <1>2, <1>3, <1>4, <1>5, StepGoesOn DEF RowsHavePoints

-----------------------------------------------------------------------------
\* What the modules around this one rely on: a step of run w is its own and is
\* for its own job, whose status it moves only forward.
LEMMA RunStep ==
  ASSUME TypeOK, NEW w \in Runs, HandleJob(w) \/ Cancel(w) \/ Crash(w)
  PROVE  /\ job' = job
         /\ step[w] \notin Ended \cup {"idle"} /\ step'[w] # "idle"
         /\ \A v \in Runs \ {w} : step'[v] = step[v]
         /\ \/ status' = status
            \/ status' = [status EXCEPT ![job[w]] = "PROCESSING"]
            \/ /\ step[w] \notin {"idle", "status"} \cup Ended
               /\ \/ status' = [status EXCEPT ![job[w]] = "COMPLETED"]
                  \/ status' = [status EXCEPT ![job[w]] = "FAILED"]
         /\ step[w] = "status" =>
              \/ step'[w] \in {"status", "failed", "crashed"}
              \/ status' = [status EXCEPT ![job[w]] = "PROCESSING"]
<1> USE DEF TypeOK, Goto, local, Ended, SetStatus, StatusLost
<1>1. CASE MarkProcessing(w) \/ MarkProcessingFails(w)
  BY <1>1 DEF MarkProcessing, MarkProcessingFails
<1>2. CASE ReadDocuments(w) \/ ReadDocumentsFails(w) \/ Extract(w) \/ ExtractFails(w)
  BY <1>2 DEF ReadDocuments, ReadDocumentsFails, Extract, ExtractFails
<1>3. CASE Ingest(w) \/ IngestFails(w) \/ Save(w) \/ SaveFails(w) \/ Rollback(w)
  BY <1>3 DEF Ingest, IngestFails, AtPair, Save, SaveFails, Rollback
<1>4. CASE FailJob(w) \/ Complete(w) \/ CompleteFails(w)
  BY <1>4 DEF FailJob, Complete, CompleteFails, AllSaved
<1>5. CASE Cancel(w) \/ Crash(w) BY <1>5 DEF Cancel, Crash, Running
<1> QED BY <1>1, <1>2, <1>3, <1>4, <1>5 DEF HandleJob

-----------------------------------------------------------------------------
\* Every step preserves the invariant.
LEMMA WorkerPreserved == WorkerInv /\ [Next]_vars => WorkerInv'
<1> SUFFICES ASSUME WorkerInv, [Next]_vars PROVE WorkerInv' OBVIOUS
<1> USE DEF WorkerInv, Goto, local
<1>1. CASE UNCHANGED vars
  BY <1>1 DEF vars, TypeOK, RunInv, JobInv, HasStored, Pairs, RowsHavePoints
<1> SUFFICES ASSUME NEW w \in Runs,
                    (\E j \in Jobs : Start(w, j)) \/ HandleJob(w) \/ Cancel(w) \/ Crash(w)
             PROVE  WorkerInv'
  BY <1>1 DEF Next
<1> RunInv(w) /\ step[w] \in Steps
  BY DEF TypeOK
<1>2. ASSUME NEW j \in Jobs, Start(w, j) PROVE WorkerInv'
  <2>1. TypeOK' BY <1>2 DEF Start, TypeOK, Steps
  <2>2. Frame(w) /\ GoesOn(w) BY <1>2 DEF Start, Frame, GoesOn, TypeOK, Ended
  <2>3. RunInv(w)' BY <1>2, WorkerAssumption DEF Start, RunInv, TypeOK
  <2> QED BY <1>2, <2>1, <2>2, <2>3, StepGoesOn DEF Start, RowsHavePoints
<1>3. CASE ReadDocuments(w) \/ ReadDocumentsFails(w) \/ ExtractFails(w) \/ Cancel(w) \/ Crash(w)
  <2>1. step[w] \notin Ended BY <1>3
    DEF ReadDocuments, ReadDocumentsFails, ExtractFails, Cancel, Crash, Running, Ended
  <2>2. CASE ReadDocuments(w)
    BY <2>1, <2>2, StepMoves DEF ReadDocuments, Moves, TypeOK
  <2>3. CASE ReadDocumentsFails(w)
    BY <2>1, <2>3, StepMoves DEF ReadDocumentsFails, Moves, TypeOK
  <2>4. CASE ExtractFails(w)
    BY <2>1, <2>4, StepMoves DEF ExtractFails, Moves, TypeOK, Unreported
  <2>5. CASE Cancel(w)
    <3>1. Moves(w, step[w]) BY <2>5 DEF Cancel, Moves, TypeOK
    <3>2. gone' \subseteq Runs /\ step[w] # "idle" BY <2>5 DEF Cancel, TypeOK, Running
    <3> QED BY <2>1, <3>1, <3>2, StepMoves
  <2>6. CASE Crash(w)
    <3>1. Moves(w, "crashed") /\ gone' \subseteq Runs BY <2>6 DEF Crash, Moves, TypeOK
    <3>2. step[w] \in Unreported \cup {"status"}
      BY <2>6 DEF Crash, Running, Steps, Unreported, Ended
    <3> QED BY <2>1, <3>1, <3>2, StepMoves
  <2> QED BY <1>3, <2>2, <2>3, <2>4, <2>5, <2>6
<1>4. CASE Extract(w)
  <2>1. TypeOK' BY <1>4 DEF Extract, TypeOK, Steps
  <2>2. Frame(w) /\ GoesOn(w) BY <1>4 DEF Extract, Frame, GoesOn, TypeOK, Ended, Unreported
  <2>3. ingested[w] = 0 BY <1>4 DEF Extract, RunInv, TypeOK
  <2>4. RunInv(w)' BY <1>4, <2>3, PairsGrow DEF Extract, RunInv, TypeOK
  <2> QED BY <1>4, <2>1, <2>2, <2>4, StepGoesOn DEF Extract, RowsHavePoints
<1>5. CASE Ingest(w)
  <2>1. ingested[w] \in Nat /\ ingested[w] + 1 \in 1..MaxPairs
    BY <1>5, WorkerAssumption DEF Ingest, AtPair, TypeOK
  <2>2. TypeOK' BY <1>5, <2>1 DEF Ingest, AtPair, TypeOK, Steps, AllPairs
  <2>3. Frame(w) /\ GoesOn(w)
    BY <1>5 DEF Ingest, AtPair, Frame, GoesOn, TypeOK, Ended, Unreported
  <2>4. RunInv(w)'
    <3>1. /\ step'[w] = "save" /\ ingested'[w] = ingested[w] + 1 /\ pairs' = pairs /\ job' = job
          /\ rows' = rows /\ points' = points \cup {<<w, ingested[w] + 1>>}
      BY <1>5 DEF Ingest, TypeOK
    <3>2. step[w] = "ingest" /\ ingested[w] < pairs[w] BY <1>5 DEF Ingest, AtPair
    <3>3. Pairs(w, ingested[w]) \subseteq rows \cap points BY <3>2 DEF RunInv
    <3>4. Pairs(w, ingested'[w]) = Pairs(w, ingested[w]) \cup {<<w, ingested[w] + 1>>}
      BY <2>1, <3>1, PairsGrow DEF Pairs
    <3>5. Pairs(w, ingested'[w] - 1) = Pairs(w, ingested[w])
      <4>1. ingested'[w] - 1 = ingested[w] BY <2>1, <3>1
      <4> QED BY <4>1
    <3> QED BY <2>1, <3>1, <3>2, <3>3, <3>4, <3>5 DEF RunInv, TypeOK
  <2> QED BY <1>5, <2>2, <2>3, <2>4, StepGoesOn DEF Ingest, RowsHavePoints
<1>6. CASE IngestFails(w)
  <2>1. ingested[w] \in Nat /\ ingested[w] + 1 \in 1..MaxPairs
    BY <1>6, WorkerAssumption DEF IngestFails, AtPair, TypeOK
  <2>2. TypeOK' BY <1>6, <2>1 DEF IngestFails, AtPair, TypeOK, Steps, AllPairs
  <2>3. Frame(w) /\ GoesOn(w)
    BY <1>6 DEF IngestFails, AtPair, Frame, GoesOn, TypeOK, Ended, Unreported
  <2>4. RunInv(w)' BY <1>6 DEF IngestFails, AtPair, RunInv, TypeOK
  <2> QED BY <1>6, <2>2, <2>3, <2>4, StepGoesOn DEF IngestFails, RowsHavePoints
<1>7. CASE Save(w) \/ SaveFails(w)
  <2>1. /\ step[w] = "save" /\ ingested[w] \in 1..MaxPairs /\ ingested[w] \in Nat
        /\ rows' \in {rows, rows \cup {Last(w)}}
        /\ UNCHANGED <<job, pairs, ingested, gone, status, points, lost>>
    BY <1>7 DEF Save, SaveFails, RunInv, TypeOK
  <2>2. Pairs(w, ingested[w]) = Pairs(w, ingested[w] - 1) \cup {Last(w)}
    <3>1. ingested[w] - 1 \in Nat /\ (ingested[w] - 1) + 1 = ingested[w] BY <2>1
    <3> QED BY <3>1, PairsGrow DEF Last
  <2>3. Last(w) \in points BY <2>1, <2>2 DEF RunInv
  <2>4. TypeOK' BY <1>7, <2>1 DEF Save, SaveFails, TypeOK, Steps, AllPairs, Last
  <2>5. Frame(w) BY <1>7, <2>1 DEF Save, SaveFails, Frame, TypeOK
  <2>6. GoesOn(w) BY <1>7, <2>1 DEF Save, SaveFails, GoesOn, TypeOK, Ended, Unreported
  <2>7. RunInv(w)'
    <3>1. CASE Save(w)
      <4>1. step'[w] = "ingest" /\ rows' = rows \cup {Last(w)} BY <3>1 DEF Save, TypeOK
      <4>2. Pairs(w, ingested[w]) \subseteq rows' \cap points BY <2>1, <2>2, <4>1 DEF RunInv
      <4>3. Pairs(w, ingested'[w]) = Pairs(w, ingested[w]) BY <2>1 DEF Pairs
      <4> QED BY <2>1, <4>1, <4>2, <4>3 DEF RunInv
    <3>2. CASE SaveFails(w)
      <4>1. step'[w] = "rollback" BY <3>2 DEF SaveFails, TypeOK
      <4> QED BY <2>1, <4>1 DEF RunInv
    <3> QED BY <1>7, <3>1, <3>2
  <2>8. RowsHavePoints' BY <2>1, <2>3 DEF RowsHavePoints
  <2> QED BY <2>4, <2>5, <2>6, <2>7, <2>8, StepGoesOn
<1>8. CASE Rollback(w)
  <2>1. Moves(w, "failJob") /\ gone' = gone BY <1>8 DEF Rollback, Moves, DeleteByIDs
  <2>2. step[w] = "rollback" BY <1>8 DEF Rollback
  <2> QED BY <2>1, <2>2, StepMoves DEF Unreported, Ended, TypeOK
<1>9. CASE MarkProcessing(w) \/ MarkProcessingFails(w) \/ FailJob(w)
           \/ Complete(w) \/ CompleteFails(w)
  <2> USE DEF MarkProcessing, MarkProcessingFails, FailJob, Complete, CompleteFails, AllSaved
  <2>1. step[w] \in {"status", "failJob", "ingest"}
        /\ UNCHANGED <<job, pairs, ingested, gone, points, rows>>
    BY <1>9
  <2>2. job[w] \in Jobs BY <2>1 DEF RunInv, TypeOK
  <2>3. status' \in {status} \cup {[status EXCEPT ![job[w]] = s] : s \in Statuses}
    BY <1>9 DEF StatusLost, SetStatus, Statuses
  <2>4. lost' \in {lost, lost \cup {job[w]}} BY <1>9 DEF StatusLost
  <2>5. step' \in {[step EXCEPT ![w] = s] : s \in {"read", "failed", "succeeded"}} BY <1>9
  <2>6. TypeOK' BY <2>1, <2>2, <2>3, <2>4, <2>5 DEF TypeOK, Steps, Ended
  <2>7. Frame(w) BY <2>1, <2>3, <2>4, <2>5 DEF Frame, TypeOK
  <2>8. RunInv(w)' BY <1>9, <2>1, <2>5 DEF RunInv, TypeOK
  <2>9. step[w] \notin Ended BY <2>1 DEF Ended
  <2> PICK j \in Jobs : j = job[w] BY <2>2
  <2>10. ASSUME status'[j] = "COMPLETED" PROVE \E v \in Runs : job'[v] = j /\ HasStored(v)'
    <3>1. CASE status[j] = "COMPLETED"
      <4>1. PICK v \in Runs : job[v] = j /\ HasStored(v) BY <2>2, <3>1 DEF JobInv
      <4>2. v # w BY <2>9, <4>1 DEF HasStored, Ended
      <4>3. HasStored(v)' /\ job'[v] = j BY <2>7, <4>1, <4>2, StoredStays
      <4> QED BY <4>3
    <3>2. CASE status[j] # "COMPLETED"
      <4>1. Complete(w) \/ CompleteFails(w)
        BY <1>9, <2>2, <2>10, <3>2 DEF SetStatus, StatusLost, TypeOK
      <4>2. /\ step'[w] \in {"succeeded", "failed"} /\ ingested[w] = pairs[w]
            /\ Pairs(w, pairs[w]) \subseteq rows \cap points
        BY <4>1 DEF RunInv, TypeOK
      <4>3. HasStored(w)' BY <2>1, <4>2 DEF HasStored, Pairs
      <4> QED BY <2>1, <4>3
    <3> QED BY <3>1, <3>2
  <2>11. j \in lost' \/ MarkProcessing(w) \/ status'[j] \in {"FAILED", "COMPLETED"}
    BY <1>9, <2>2 DEF SetStatus, StatusLost, TypeOK
  <2>12. MarkProcessing(w) =>
           status'[j] = "PROCESSING" /\ job'[w] = j /\ step'[w] \in Unreported
    BY <2>2 DEF SetStatus, TypeOK, Unreported
  <2>13. JobInv(j)'
    <3> HIDE DEF MarkProcessing
    <3> QED BY <2>10, <2>11, <2>12 DEF JobInv
  <2>14. JobInv(job[w])' BY <2>1, <2>13
  <2> QED BY <2>1, <2>6, <2>7, <2>8, <2>9, <2>14, StepReports DEF RowsHavePoints
<1> QED
  BY <1>2, <1>3, <1>4, <1>5, <1>6, <1>7, <1>8, <1>9 DEF HandleJob

\* WorkerInv holds in every reachable state of every instance.
THEOREM WorkerInvariant == Spec => []WorkerInv
BY WorkerInitial, WorkerPreserved, PTL DEF Spec

\* Every variable keeps its type.
THEOREM WorkerTypeCorrect == Spec => []TypeOK
<1>1. WorkerInv => TypeOK BY DEF WorkerInv
<1> QED BY <1>1, WorkerInvariant, PTL

\* Whatever fails, no row names a point that is not in Qdrant.
THEOREM RowsAlwaysHavePoints == Spec => []RowsHavePoints
<1>1. WorkerInv => RowsHavePoints BY DEF WorkerInv
<1> QED BY <1>1, WorkerInvariant, PTL

\* A job that shows COMPLETED was stored whole by one run, and still is,
\* however many runs of it overlap, fail or follow.
THEOREM CompletedJobsAreStored == Spec => []CompletedIsStored
<1>1. WorkerInv => CompletedIsStored
  BY DEF WorkerInv, JobInv, HasStored, CompletedIsStored
<1> QED BY <1>1, WorkerInvariant, PTL

\* The outcome that a job at rest must show is one of the two.
LEMMA RestImpliesOutcome == WorkerInv => RestingJobHasOutcome
<1> SUFFICES ASSUME WorkerInv, NEW j \in Jobs, j \notin lost,
                    NEW w \in Runs, job[w] = j,
                    \A v \in Runs : job[v] = j => step[v] \in {"succeeded", "failed"}
             PROVE  status[j] \in {"COMPLETED", "FAILED"}
  BY DEF RestingJobHasOutcome
<1>1. status[j] \in Statuses /\ JobInv(j) BY DEF WorkerInv, TypeOK
<1>2. status[j] # "PENDING" BY <1>1 DEF JobInv
<1>3. status[j] # "PROCESSING" BY <1>1 DEF JobInv, Unreported
<1> QED BY <1>1, <1>2, <1>3 DEF Statuses

\* A job whose runs have all returned shows an outcome.
THEOREM RestingJobsHaveOutcomes == Spec => []RestingJobHasOutcome
BY RestImpliesOutcome, WorkerInvariant, PTL
=============================================================================
