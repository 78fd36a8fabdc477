---------------------------- MODULE ArchiveProofs ----------------------------
(***************************************************************************)
(* Proofs about Archive, for any number of requests, manifests of any      *)
(* length, and every set of faults.  The inductive invariant has one part  *)
(* about each request, one about each attempt, and one about the claims    *)
(* that transactions have on an external_id.                               *)
(***************************************************************************)
EXTENDS ArchiveProps, TLAPS

\* What the local state of a request says about its attempt.
RequestInv(r) ==
  /\ step[r] \in {"create", "upload", "save", "job", "commit", "publish", "cleanup"} =>
       Attempt(r) \in Attempts
  /\ step[r] \notin {"upload", "save", "job", "commit"} => txn[r] = {}
  /\ step[r] \in {"upload", "save"} => txn[r] = {"projects"}
  /\ step[r] = "job" => txn[r] = {"projects", "documents"}
  /\ step[r] = "commit" => txn[r] = {"projects", "documents", "jobs"}
  /\ step[r] \in {"idle", "row", "create", "upload"} => ~ uploaded[r] /\ Attempt(r) \notin objects
  /\ step[r] \in {"save", "job", "commit"} => uploaded[r]
  /\ step[r] \in {"save", "job", "commit", "publish"} => Attempt(r) \in objects
  /\ step[r] \in {"idle", "row", "create", "upload", "save", "job", "commit"} =>
       Attempt(r) \notin projects
  /\ step[r] = "publish" => Attempt(r) \in projects
  /\ step[r] = "cleanup" /\ Attempt(r) \in documents => Met(Attempt(r), "commit")

\* What the database, the object store and the broker hold of an attempt.
AttemptInv(a) ==
  /\ a \in projects <=> a \in documents
  /\ a \in projects <=> a \in jobs
  /\ a \in projects \cup objects => a[2] <= row[a[1]]
  /\ a \in queue => a \in projects \cap objects /\ a[2] < row[a[1]]
  /\ a \in documents => a \in objects \/ Met(a, "commit")
  /\ a \in objects => a \in documents \/ AtWork(a) \/ Met(a, "storage")

\* An external_id is claimed by one committed project or one open transaction.
Claims(r) == "projects" \in txn[r]
OneClaim ==
  /\ \A a, b \in projects : Tender(a) = Tender(b) => a = b
  /\ \A r \in Requests : \A a \in projects : Claims(r) => Tender(Attempt(r)) # Tender(a)
  /\ \A q, r \in Requests :
       Claims(q) /\ Claims(r) /\ Tender(Attempt(q)) = Tender(Attempt(r)) => q = r

\* The inductive invariant.
ArchiveInv ==
  /\ TypeOK
  /\ \A r \in Requests : RequestInv(r)
  /\ \A a \in Attempts : AttemptInv(a)
  /\ OneClaim

-----------------------------------------------------------------------------
(* Attempts. *)

\* An attempt is a row of a manifest that is long enough.
LEMMA AttemptsKnown ==
  /\ \A r \in Requests, i \in Nat \ {0} :
       i <= Len(Manifest[r]) /\ Manifest[r][i] # Malformed => <<r, i>> \in Attempts
  /\ \A a \in Attempts : /\ a = <<a[1], a[2]>> /\ a[1] \in Requests /\ a[2] \in Nat \ {0}
                         /\ a[2] <= Len(Manifest[a[1]])
<1>1. \A r \in Requests : DOMAIN Manifest[r] = 1..Len(Manifest[r]) /\ Len(Manifest[r]) \in Nat
  BY ArchiveAssumption
<1>2. ASSUME NEW r \in Requests, NEW i \in Nat \ {0}, i <= Len(Manifest[r]),
             Manifest[r][i] # Malformed
      PROVE  <<r, i>> \in Attempts
  <2>1. i \in DOMAIN Manifest[r] BY <1>1, <1>2
  <2>2. <<r, i>> \in {r} \X DOMAIN Manifest[r] BY <2>1
  <2>3. Tender(<<r, i>>) # Malformed BY <1>2 DEF Tender
  <2> QED BY <2>2, <2>3 DEF Attempts
<1>3. ASSUME NEW a \in Attempts
      PROVE  /\ a = <<a[1], a[2]>> /\ a[1] \in Requests /\ a[2] \in Nat \ {0}
             /\ a[2] <= Len(Manifest[a[1]])
  <2>1. PICK r \in Requests : a \in {r} \X DOMAIN Manifest[r] BY DEF Attempts
  <2>2. a = <<a[1], a[2]>> /\ a[1] = r /\ a[2] \in DOMAIN Manifest[r] BY <2>1
  <2> QED BY <1>1, <2>2
<1> QED BY <1>2, <1>3

\* The attempts of different requests are different.
LEMMA AttemptsDiffer ==
  ASSUME NEW q, NEW r, q # r PROVE Attempt(q) # Attempt(r)
BY DEF Attempt

-----------------------------------------------------------------------------
(* Steps of one request. *)

\* Request r acts on itself and on its attempt a alone.
Frame(r, a) ==
  /\ \A q \in Requests \ {r} : /\ step'[q] = step[q] /\ row'[q] = row[q]
                               /\ txn'[q] = txn[q] /\ uploaded'[q] = uploaded[q]
  /\ row[r] <= row'[r]
  /\ \A b \in Attempts \ {a} : /\ b \in projects' <=> b \in projects
                               /\ b \in documents' <=> b \in documents
                               /\ b \in jobs' <=> b \in jobs
                               /\ b \in objects' <=> b \in objects
                               /\ b \in queue' <=> b \in queue
  /\ errors \subseteq errors'

\* Such a step keeps the invariant if it keeps what concerns r and a.
LEMMA LocalStep ==
  ASSUME ArchiveInv, NEW r \in Requests, NEW a, a = Attempt(r), Frame(r, a),
         TypeOK', RequestInv(r)', a \in Attempts => AttemptInv(a)', OneClaim'
  PROVE  ArchiveInv'
<1>1. ASSUME NEW q \in Requests PROVE RequestInv(q)'
  <2>1. CASE q = r BY <2>1
  <2>2. CASE q # r
    <3> PICK b : b = <<q, row[q]>> OBVIOUS
    <3>1. /\ step'[q] = step[q] /\ row'[q] = row[q]
          /\ txn'[q] = txn[q] /\ uploaded'[q] = uploaded[q]
      BY <2>2 DEF Frame
    <3>2. b # a BY <2>2, AttemptsDiffer DEF Attempt
    <3>3. Attempt(q) = b /\ Attempt(q)' = b BY <3>1 DEF Attempt
    <3>4. /\ b \in projects' <=> b \in projects
          /\ b \in documents' <=> b \in documents
          /\ b \in objects' <=> b \in objects
      <4>1. CASE b \in Attempts BY <3>2, <4>1 DEF Frame
      <4>2. CASE b \notin Attempts BY <4>2 DEF ArchiveInv, TypeOK
      <4> QED BY <4>1, <4>2
    <3>5. Met(b, "commit") => Met(b, "commit")' BY DEF Frame, Met
    <3>6. RequestInv(q) BY DEF ArchiveInv
    <3> QED BY <3>1, <3>3, <3>4, <3>5, <3>6 DEF RequestInv, Met
  <2> QED BY <2>1, <2>2
<1>2. ASSUME NEW b \in Attempts PROVE AttemptInv(b)'
  <2>1. CASE b = a BY <2>1
  <2>2. CASE b # a
    <3>1. AttemptInv(b) BY DEF ArchiveInv
    <3>2. /\ b \in projects' <=> b \in projects
          /\ b \in documents' <=> b \in documents
          /\ b \in jobs' <=> b \in jobs
          /\ b \in objects' <=> b \in objects
          /\ b \in queue' <=> b \in queue
      BY <2>2 DEF Frame
    <3>3. b[1] \in Requests /\ b[2] \in Nat /\ b = <<b[1], b[2]>> BY AttemptsKnown
    <3>4. /\ row[b[1]] <= row'[b[1]]
          /\ row[b[1]] \in Nat /\ row'[b[1]] \in Nat
      <4>1. row \in [Requests -> Nat \ {0}] /\ row' \in [Requests -> Nat \ {0}]
        BY DEF ArchiveInv, TypeOK
      <4> QED BY <3>3, <4>1 DEF Frame
    <3>5. AtWork(b) => AtWork(b)'
      <4>1. CASE b[1] = r BY <2>2, <3>3, <4>1 DEF AtWork, Attempt
      <4>2. CASE b[1] # r BY <3>3, <4>2 DEF AtWork, Frame
      <4> QED BY <4>1, <4>2
    <3>6. /\ Met(b, "commit") => Met(b, "commit")'
          /\ Met(b, "storage") => Met(b, "storage")'
      BY DEF Frame, Met
    <3> QED BY <3>1, <3>2, <3>3, <3>4, <3>5, <3>6 DEF AttemptInv
  <2> QED BY <2>1, <2>2
<1> QED BY <1>1, <1>2 DEF ArchiveInv

\* Claims that are only given up stay unique.
LEMMA ClaimsShrink ==
  ASSUME OneClaim, projects' = projects,
         \A q \in Requests : "projects" \in txn'[q] => "projects" \in txn[q] /\ row'[q] = row[q]
  PROVE  OneClaim'
BY DEF OneClaim, Claims, Attempt, Tender

-----------------------------------------------------------------------------
(* What the operators of the steps do. *)

\* What r has open changes for r alone.
TxnMoves(r) ==
  /\ txn' \in [Requests -> SUBSET {"projects", "documents", "jobs"}]
  /\ \A q \in Requests \ {r} : txn'[q] = txn[q]

LEMMA GotoMoves ==
  ASSUME TypeOK, NEW r \in Requests, NEW s \in Steps, Goto(r, s)
  PROVE  /\ step' \in [Requests -> Steps] /\ step'[r] = s
         /\ \A q \in Requests \ {r} : step'[q] = step[q]
BY DEF Goto, TypeOK

\* The next row keeps within the manifest and one place behind it.
LEMMA NextRowMoves ==
  ASSUME TypeOK, NEW r \in Requests, row[r] <= Len(Manifest[r]), NextRow(r)
  PROVE  /\ step' \in [Requests -> Steps] /\ step'[r] = "row"
         /\ row' \in [Requests -> Nat \ {0}] /\ row'[r] = row[r] + 1
         /\ \A q \in Requests : row'[q] <= Len(Manifest[q]) + 1
         /\ uploaded' \in [Requests -> BOOLEAN] /\ ~ uploaded'[r]
         /\ \A q \in Requests \ {r} : /\ step'[q] = step[q] /\ row'[q] = row[q]
                                      /\ uploaded'[q] = uploaded[q]
<1>1. /\ step' \in [Requests -> Steps] /\ step'[r] = "row"
      /\ \A q \in Requests \ {r} : step'[q] = step[q]
  BY GotoMoves DEF NextRow, Steps
<1>2. row \in [Requests -> Nat \ {0}] /\ row' = [row EXCEPT ![r] = row[r] + 1]
  BY DEF NextRow, TypeOK
<1>3. Len(Manifest[r]) \in Nat BY ArchiveAssumption
<1>4. \A q \in Requests : row[q] <= Len(Manifest[q]) + 1 BY DEF TypeOK
<1>5. \A q \in Requests : row'[q] <= Len(Manifest[q]) + 1
  <2> SUFFICES ASSUME NEW q \in Requests PROVE row'[q] <= Len(Manifest[q]) + 1 OBVIOUS
  <2>1. CASE q = r BY <1>2, <1>3, <2>1
  <2>2. CASE q # r BY <1>2, <1>4, <2>2
  <2> QED BY <2>1, <2>2
<1>6. /\ row' \in [Requests -> Nat \ {0}] /\ row'[r] = row[r] + 1
      /\ \A q \in Requests \ {r} : row'[q] = row[q]
  BY <1>2
<1>7. /\ uploaded' \in [Requests -> BOOLEAN] /\ ~ uploaded'[r]
      /\ \A q \in Requests \ {r} : uploaded'[q] = uploaded[q]
  BY DEF NextRow, TypeOK
<1> QED BY <1>1, <1>5, <1>6, <1>7

\* The row of a request at work is within its manifest.
LEMMA AtWorkInManifest ==
  ASSUME NEW r \in Requests, Attempt(r) \in Attempts PROVE row[r] <= Len(Manifest[r])
<1>1. PICK a : a = Attempt(r) OBVIOUS
<1>2. a[1] = r /\ a[2] = row[r] BY <1>1 DEF Attempt
<1> QED BY <1>1, <1>2, AttemptsKnown

\* Request r goes on to the next row: the invariant holds if what is left of
\* its attempt is in order.
LEMMA RowEnds ==
  ASSUME ArchiveInv, NEW r \in Requests, NEW a, a = Attempt(r),
         row[r] <= Len(Manifest[r]), NextRow(r), TxnMoves(r), txn'[r] = {},
         UNCHANGED <<gone, tables>>,
         queue' \subseteq Attempts, objects' \subseteq Attempts,
         errors' \subseteq {"commit", "storage", "publish"} \X Attempts,
         errors \subseteq errors',
         queue' \ {a} = queue \ {a}, objects' \ {a} = objects \ {a},
         a \in queue' => a \in projects \cap objects',
         a \in documents => a \in objects' \/ <<"commit", a>> \in errors',
         a \in objects' => a \in documents \/ <<"storage", a>> \in errors'
  PROVE  ArchiveInv'
<1> DEFINE n == row[r] + 1
<1>1. /\ step' \in [Requests -> Steps] /\ step'[r] = "row"
      /\ row' \in [Requests -> Nat \ {0}] /\ row'[r] = n
      /\ \A q \in Requests : row'[q] <= Len(Manifest[q]) + 1
      /\ uploaded' \in [Requests -> BOOLEAN] /\ ~ uploaded'[r]
      /\ \A q \in Requests \ {r} : /\ step'[q] = step[q] /\ row'[q] = row[q]
                                   /\ uploaded'[q] = uploaded[q]
  BY NextRowMoves DEF ArchiveInv
<1>2. TypeOK' BY <1>1 DEF ArchiveInv, TypeOK, TxnMoves, tables
<1>3. row[r] \in Nat BY DEF ArchiveInv, TypeOK
<1>4. Frame(r, a) BY <1>1, <1>3 DEF Frame, TxnMoves, tables
<1>5. RequestInv(r)'
  <2> PICK b : b = <<r, n>> OBVIOUS
  <2>1. Attempt(r)' = b BY <1>1 DEF Attempt
  <2>2. b # a BY <1>3 DEF Attempt
  <2>3. b \notin projects /\ b \notin objects
    <3> SUFFICES ASSUME b \in projects \cup objects PROVE FALSE OBVIOUS
    <3>1. AttemptInv(b) BY DEF ArchiveInv, TypeOK
    <3> QED BY <1>3, <3>1 DEF AttemptInv
  <2>4. b \notin projects' /\ b \notin objects' BY <2>2, <2>3 DEF tables
  <2> QED BY <1>1, <2>1, <2>4 DEF RequestInv
<1>6. ASSUME a \in Attempts PROVE AttemptInv(a)'
  <2>1. AttemptInv(a) BY <1>6 DEF ArchiveInv
  <2>2. a[1] = r /\ a[2] = row[r] BY DEF Attempt
  <2>3. a[2] < row'[a[1]] /\ a[2] <= row'[a[1]] BY <1>1, <1>3, <2>2
  <2> QED BY <2>1, <2>3 DEF AttemptInv, Met, tables
<1>7. OneClaim'
  <2>1. \A q \in Requests : "projects" \in txn'[q] => "projects" \in txn[q] /\ row'[q] = row[q]
    BY <1>1 DEF TxnMoves
  <2> QED BY <2>1, ClaimsShrink DEF ArchiveInv, tables
<1> QED BY <1>2, <1>4, <1>5, <1>6, <1>7, LocalStep

\* Request r goes on within the row, and no table changes.
LEMMA RowGoesOn ==
  ASSUME ArchiveInv, NEW r \in Requests, NEW a, a = Attempt(r),
         NEW s \in Steps, Goto(r, s), TxnMoves(r),
         uploaded' \in [Requests -> BOOLEAN],
         \A q \in Requests \ {r} : uploaded'[q] = uploaded[q],
         gone' \subseteq Requests, UNCHANGED <<row, tables, queue, errors>>,
         objects' \in {objects, objects \cup {a}},
         a \in objects' => a \in Attempts /\ s \notin {"idle", "refused", "accepted"},
         RequestInv(r)', OneClaim'
  PROVE  ArchiveInv'
<1>1. /\ step' \in [Requests -> Steps] /\ step'[r] = s
      /\ \A q \in Requests \ {r} : step'[q] = step[q]
  BY GotoMoves DEF ArchiveInv
<1>2. TypeOK'
  BY <1>1 DEF ArchiveInv, TypeOK, TxnMoves, tables
<1>3. Frame(r, a)
  <2>1. row[r] <= row'[r] BY DEF ArchiveInv, TypeOK
  <2> QED BY <1>1, <2>1 DEF Frame, TxnMoves, tables
<1>4. ASSUME a \in Attempts PROVE AttemptInv(a)'
  <2>1. AttemptInv(a) BY <1>4 DEF ArchiveInv
  <2>2. a[1] = r /\ a[2] = row[r] /\ row[r] \in Nat BY DEF Attempt, ArchiveInv, TypeOK
  <2>3. a \in objects' => AtWork(a)' BY <1>1, <2>2 DEF AtWork
  <2> QED BY <2>1, <2>2, <2>3 DEF AttemptInv, Met, tables
<1> QED BY <1>2, <1>3, <1>4, LocalStep

-----------------------------------------------------------------------------
(* The actions. *)

\* What the invariant says of one request, and its attempt as a constant.
LEMMA RequestFacts ==
  ASSUME ArchiveInv, NEW r \in Requests
  PROVE  /\ RequestInv(r)
         /\ row[r] \in Nat \ {0} /\ row[r] <= Len(Manifest[r]) + 1
         /\ Attempt(r) = <<r, row[r]>>
         /\ objects \subseteq Attempts /\ queue \subseteq Attempts /\ documents \subseteq Attempts
         /\ errors \subseteq {"commit", "storage", "publish"} \X Attempts
         /\ uploaded \in [Requests -> BOOLEAN] /\ gone \subseteq Requests
         /\ txn \in [Requests -> SUBSET {"projects", "documents", "jobs"}]
         /\ OneClaim
BY DEF ArchiveInv, TypeOK, Attempt

\* A transaction that stays as it is, or ends.
LEMMA TxnKept ==
  ASSUME ArchiveInv, NEW r \in Requests, txn' = txn \/ txn' = [txn EXCEPT ![r] = {}]
  PROVE  /\ TxnMoves(r)
         /\ \A q \in Requests : "projects" \in txn'[q] => "projects" \in txn[q]
         /\ txn[r] = {} \/ txn' # txn => txn'[r] = {}
<1>1. txn \in [Requests -> SUBSET {"projects", "documents", "jobs"}]
  BY DEF ArchiveInv, TypeOK
<1>2. CASE txn' = txn BY <1>1, <1>2 DEF TxnMoves
<1>3. CASE txn' = [txn EXCEPT ![r] = {}] BY <1>1, <1>3 DEF TxnMoves
<1> QED BY <1>2, <1>3

\* Steps before and after the work on a row.
LEMMA OuterStep ==
  ASSUME ArchiveInv, NEW r \in Requests, Start(r) \/ Refuse(r) \/ Finish(r) \/ Crash(r)
  PROVE  ArchiveInv'
<1>1. PICK a : a = Attempt(r) OBVIOUS
<1>2. RequestInv(r) BY RequestFacts
<1>3. PICK s \in {"row", "refused", "accepted", "crashed"} :
        /\ Goto(r, s)
        /\ s # "crashed" => step[r] \in {"idle", "row"} /\ txn' = txn
        /\ s = "row" => step[r] = "idle"
        /\ s = "crashed" => txn' = [txn EXCEPT ![r] = {}]
        /\ UNCHANGED <<row, uploaded, gone, tables, objects, queue, errors>>
  BY DEF Start, Refuse, Finish, Crash
<1>4. s \in Steps BY DEF Steps
<1>5. step'[r] = s BY <1>3, <1>4, GotoMoves DEF ArchiveInv
<1>6. /\ TxnMoves(r) /\ txn'[r] = {}
      /\ \A q \in Requests : "projects" \in txn'[q] => "projects" \in txn[q]
  <2>1. CASE s = "crashed"
    <3>1. txn \in [Requests -> SUBSET {"projects", "documents", "jobs"}] BY RequestFacts
    <3> QED BY <1>3, <2>1, <3>1 DEF TxnMoves
  <2>2. CASE s # "crashed" BY <1>2, <1>3, <2>2, TxnKept DEF RequestInv
  <2> QED BY <2>1, <2>2
<1>7. RequestInv(r)'
  <2>1. Attempt(r)' = a BY <1>1, <1>3 DEF Attempt
  <2>2. s = "row" => ~ uploaded[r] /\ a \notin objects /\ a \notin projects
    BY <1>1, <1>2, <1>3 DEF RequestInv
  <2> QED BY <1>3, <1>5, <1>6, <2>1, <2>2 DEF RequestInv, tables
<1>8. OneClaim' BY <1>3, <1>6, ClaimsShrink, RequestFacts DEF tables
<1>9. a \in objects' => a \in Attempts /\ s \notin {"idle", "refused", "accepted"}
  BY <1>1, <1>2, <1>3, RequestFacts DEF RequestInv
<1>10. /\ uploaded' \in [Requests -> BOOLEAN]
       /\ \A q \in Requests \ {r} : uploaded'[q] = uploaded[q]
       /\ gone' \subseteq Requests
  BY <1>3, RequestFacts
<1> QED BY <1>1, <1>3, <1>4, <1>6, <1>7, <1>8, <1>9, <1>10, RowGoesOn

\* The row is skipped or ends before anything was uploaded.
LEMMA RowSkipped ==
  ASSUME ArchiveInv, NEW r \in Requests, row[r] <= Len(Manifest[r]),
         step[r] \in {"row", "create"},
         NextRow(r), txn' = txn \/ txn' = [txn EXCEPT ![r] = {}],
         UNCHANGED <<gone, tables, objects, queue, errors>>
  PROVE  ArchiveInv'
<1>1. PICK a : a = Attempt(r) OBVIOUS
<1>2. RequestInv(r) BY RequestFacts
<1>3. TxnMoves(r) /\ txn'[r] = {} BY <1>2, TxnKept DEF RequestInv
<1>4. a \notin objects /\ a \notin projects BY <1>1, <1>2 DEF RequestInv
<1>5. a \notin documents /\ a \notin queue
  BY <1>4, RequestFacts DEF ArchiveInv, AttemptInv
<1> QED BY <1>1, <1>3, <1>4, <1>5, RequestFacts, RowEnds

\* CheckProjectExists skips the row or goes on to create the project.
LEMMA CheckStep ==
  ASSUME ArchiveInv, NEW r \in Requests, CheckProjectExists(r) PROVE ArchiveInv'
<1>1. PICK a : a = Attempt(r) OBVIOUS
<1>2. RequestInv(r) /\ Attempt(r) = <<r, row[r]>> /\ row[r] \in Nat \ {0} BY RequestFacts
<1>3. /\ step[r] = "row" /\ row[r] <= Len(Manifest[r]) /\ Tender(a) # Malformed
      /\ UNCHANGED <<txn, gone, tables, objects, queue, errors>>
  BY <1>1 DEF CheckProjectExists, AtRow
<1>4. CASE NextRow(r) BY <1>3, <1>4, RowSkipped
<1>5. CASE Goto(r, "create") /\ UNCHANGED <<row, uploaded>>
  <2>1. a \in Attempts
    <3>1. Manifest[r][row[r]] # Malformed BY <1>1, <1>2, <1>3 DEF Tender
    <3> QED BY <1>1, <1>2, <1>3, <3>1, AttemptsKnown
  <2>2. step'[r] = "create" BY <1>5, GotoMoves DEF ArchiveInv, Steps
  <2>3. Attempt(r)' = a BY <1>1, <1>5 DEF Attempt
  <2>4. txn[r] = {} /\ ~ uploaded[r] /\ a \notin objects /\ a \notin projects
    BY <1>1, <1>2, <1>3 DEF RequestInv
  <2>5. RequestInv(r)' BY <1>3, <1>5, <2>1, <2>2, <2>3, <2>4 DEF RequestInv, tables
  <2>6. TxnMoves(r) BY <1>3, TxnKept
  <2>7. OneClaim' BY <1>3, <1>5, RequestFacts, ClaimsShrink DEF tables
  <2>8. "create" \in Steps BY DEF Steps
  <2> QED BY <1>1, <1>3, <1>5, <2>4, <2>5, <2>6, <2>7, <2>8, RequestFacts, RowGoesOn
<1> QED BY <1>4, <1>5 DEF CheckProjectExists

\* An INSERT: the transaction has one table more.
LEMMA InsertStep ==
  ASSUME ArchiveInv, NEW r \in Requests,
         CreateProject(r) \/ SaveDocument(r) \/ CreateJob(r)
  PROVE  ArchiveInv'
<1>1. PICK a : a = Attempt(r) OBVIOUS
<1>2. RequestInv(r) /\ txn \in [Requests -> SUBSET {"projects", "documents", "jobs"}]
  BY RequestFacts
<1>3. PICK t \in {"projects", "documents", "jobs"}, s \in {"upload", "job", "commit"} :
        /\ <<step[r], t, s>> \in {<<"create", "projects", "upload">>,
                                 <<"save", "documents", "job">>, <<"job", "jobs", "commit">>}
        /\ t = "projects" => ~ Locked(r) /\ ~ Exists(Tender(Attempt(r)))
        /\ txn' = [txn EXCEPT ![r] = @ \cup {t}] /\ Goto(r, s)
        /\ UNCHANGED <<row, uploaded, gone, tables, objects, queue, errors>>
  BY DEF CreateProject, SaveDocument, CreateJob, Insert
<1>4. s \in Steps /\ step'[r] = s BY <1>3, GotoMoves DEF ArchiveInv, Steps
<1>5. Attempt(r)' = a BY <1>1, <1>3 DEF Attempt
<1>6. txn'[r] = txn[r] \cup {t} /\ TxnMoves(r) BY <1>2, <1>3 DEF TxnMoves
<1>7. RequestInv(r)'
  <2>1. a \in Attempts /\ a \notin projects BY <1>1, <1>2, <1>3 DEF RequestInv
  <2>2. CASE step[r] = "create" BY <1>1, <1>2, <1>3, <1>4, <1>5, <1>6, <2>1, <2>2 DEF RequestInv, tables
  <2>3. CASE step[r] = "save" BY <1>1, <1>2, <1>3, <1>4, <1>5, <1>6, <2>1, <2>3 DEF RequestInv, tables
  <2>4. CASE step[r] = "job" BY <1>1, <1>2, <1>3, <1>4, <1>5, <1>6, <2>1, <2>4 DEF RequestInv, tables
  <2> QED BY <1>3, <2>2, <2>3, <2>4
<1>8. OneClaim'
  <2>1. OneClaim BY RequestFacts
  <2>2. projects' = projects /\ \A q \in Requests : Attempt(q)' = Attempt(q)
    BY <1>3 DEF tables, Attempt
  <2>3. CASE t # "projects"
    <3>1. \A q \in Requests : "projects" \in txn'[q] => "projects" \in txn[q]
      BY <1>6, <2>3 DEF TxnMoves
    <3> QED BY <1>3, <2>1, <2>2, <3>1, ClaimsShrink
  <2>4. CASE t = "projects"
    <3>1. \A b \in projects : Tender(b) # Tender(Attempt(r)) BY <1>3, <2>4 DEF Exists
    <3>2. \A q \in Requests \ {r} : Claims(q) => Tender(Attempt(q)) # Tender(Attempt(r))
      BY <1>3, <2>4 DEF Locked, Claims
    <3>3. \A q \in Requests \ {r} : Claims(q)' => Claims(q) BY <1>6 DEF TxnMoves, Claims
    <3>4. \A b, c \in projects' : Tender(b) = Tender(c) => b = c BY <2>1, <2>2 DEF OneClaim
    <3>5. \A q \in Requests : \A b \in projects' : Claims(q)' => Tender(Attempt(q)') # Tender(b)
      BY <2>1, <2>2, <3>1, <3>3 DEF OneClaim
    <3>6. \A p, q \in Requests :
            Claims(p)' /\ Claims(q)' /\ Tender(Attempt(p)') = Tender(Attempt(q)') => p = q
      BY <2>1, <2>2, <3>2, <3>3 DEF OneClaim
    <3> QED BY <3>4, <3>5, <3>6 DEF OneClaim, Tender
  <2> QED BY <2>3, <2>4
<1>9. a \in objects => a \in Attempts BY RequestFacts
<1>10. /\ \A q \in Requests \ {r} : uploaded'[q] = uploaded[q]
       /\ uploaded' \in [Requests -> BOOLEAN] /\ gone' \subseteq Requests
       /\ objects' = objects /\ s \notin {"idle", "refused", "accepted"}
  BY <1>3, RequestFacts
<1> QED BY <1>1, <1>3, <1>4, <1>6, <1>7, <1>8, <1>9, <1>10, RowGoesOn

\* A transaction that fails after the upload is rolled back, and the cleanup
\* comes next.
LEMMA RollbackStep ==
  ASSUME ArchiveInv, NEW r \in Requests, step[r] \in {"save", "job", "commit"}, Abort(r),
         UNCHANGED <<gone, tables, objects, queue, errors>>
  PROVE  ArchiveInv'
<1>1. PICK a : a = Attempt(r) OBVIOUS
<1>2. RequestInv(r) BY RequestFacts
<1>3. uploaded[r] /\ a \notin projects /\ a \in Attempts BY <1>1, <1>2 DEF RequestInv
<1>4. Goto(r, "cleanup") /\ UNCHANGED <<row, uploaded>> /\ txn' = [txn EXCEPT ![r] = {}]
  BY <1>3 DEF Abort
<1>5. "cleanup" \in Steps /\ step'[r] = "cleanup" BY <1>4, GotoMoves DEF ArchiveInv, Steps
<1>6. /\ TxnMoves(r) /\ txn'[r] = {}
      /\ \A q \in Requests : "projects" \in txn'[q] => "projects" \in txn[q]
  <2>1. txn \in [Requests -> SUBSET {"projects", "documents", "jobs"}] BY RequestFacts
  <2> QED BY <1>4, <2>1 DEF TxnMoves
<1>7. a \notin documents BY <1>3 DEF ArchiveInv, AttemptInv
<1>8. Attempt(r)' = a BY <1>1, <1>4 DEF Attempt
<1>9. RequestInv(r)' BY <1>3, <1>5, <1>6, <1>7, <1>8 DEF RequestInv, tables
<1>10. OneClaim' BY <1>4, <1>6, RequestFacts, ClaimsShrink DEF tables
<1> QED BY <1>1, <1>3, <1>4, <1>5, <1>6, <1>9, <1>10, RequestFacts, RowGoesOn

\* The upload stores the object of the attempt.
LEMMA UploadStep == ASSUME ArchiveInv, NEW r \in Requests, Upload(r) PROVE ArchiveInv'
<1>1. PICK a : a = Attempt(r) OBVIOUS
<1>2. RequestInv(r) BY RequestFacts
<1>3. a \in Attempts /\ a \notin projects /\ txn[r] = {"projects"}
  BY <1>1, <1>2 DEF RequestInv, Upload
<1>4. "save" \in Steps /\ step'[r] = "save" /\ Goto(r, "save")
  BY GotoMoves DEF ArchiveInv, Steps, Upload
<1>5. /\ uploaded' \in [Requests -> BOOLEAN] /\ uploaded'[r]
      /\ \A q \in Requests \ {r} : uploaded'[q] = uploaded[q]
  BY RequestFacts DEF Upload
<1>6. TxnMoves(r) BY TxnKept DEF Upload
<1>7. Attempt(r)' = a BY <1>1 DEF Attempt, Upload
<1>8. objects' = objects \cup {a} BY <1>1 DEF Upload
<1>9. RequestInv(r)' BY <1>3, <1>4, <1>5, <1>7, <1>8 DEF RequestInv, Upload, tables
<1>10. OneClaim' BY RequestFacts, ClaimsShrink DEF Upload, tables
<1>11. UNCHANGED <<row, gone, tables, queue, errors>> BY DEF Upload
<1> QED BY <1>1, <1>3, <1>4, <1>5, <1>6, <1>8, <1>9, <1>10, <1>11, RequestFacts, RowGoesOn

\* An upload that fails ends the row; what it may have stored is an error of
\* MinIO.
LEMMA UploadFailsStep ==
  ASSUME ArchiveInv, NEW r \in Requests, UploadFails(r) PROVE ArchiveInv'
<1>1. PICK a : a = Attempt(r) OBVIOUS
<1>2. RequestInv(r) BY RequestFacts
<1>3. /\ a \in Attempts /\ a \notin projects /\ a \notin objects /\ ~ uploaded[r]
  BY <1>1, <1>2 DEF RequestInv, UploadFails
<1>4. a \notin documents /\ a \notin queue BY <1>3 DEF ArchiveInv, AttemptInv
<1>5. NextRow(r) /\ txn' = [txn EXCEPT ![r] = {}] /\ row[r] <= Len(Manifest[r])
  BY <1>1, <1>3, AtWorkInManifest DEF UploadFails, Abort
<1>6. TxnMoves(r) /\ txn'[r] = {}
  <2>1. txn \in [Requests -> SUBSET {"projects", "documents", "jobs"}] BY RequestFacts
  <2> QED BY <1>5, <2>1 DEF TxnMoves
<1>7. \/ objects' = objects /\ errors' \in {errors, errors \cup {<<"storage", a>>}}
      \/ objects' = objects \cup {a} /\ errors' = errors \cup {<<"storage", a>>}
  BY <1>1 DEF UploadFails, Err
<1>8. UNCHANGED <<gone, tables, queue>> BY DEF UploadFails
<1>9. <<"storage", a>> \in {"commit", "storage", "publish"} \X Attempts BY <1>3
<1> QED BY <1>1, <1>3, <1>4, <1>5, <1>6, <1>7, <1>8, <1>9, RequestFacts, RowEnds

\* The cleanup removes the object, unless MinIO reports an error.
LEMMA CleanupStep == ASSUME ArchiveInv, NEW r \in Requests, Cleanup(r) PROVE ArchiveInv'
<1>1. PICK a : a = Attempt(r) OBVIOUS
<1>2. RequestInv(r) BY RequestFacts
<1>3. /\ a \in Attempts /\ txn[r] = {}
      /\ a \in documents => <<"commit", a>> \in errors
  BY <1>1, <1>2 DEF RequestInv, Cleanup, Met
<1>4. a \notin queue
  <2>1. AttemptInv(a) BY <1>3 DEF ArchiveInv
  <2>2. a[1] = r /\ a[2] = row[r] /\ row[r] \in Nat BY <1>1, RequestFacts
  <2> QED BY <2>1, <2>2 DEF AttemptInv
<1>5. NextRow(r) /\ UNCHANGED <<txn, gone, tables, queue>> /\ row[r] <= Len(Manifest[r])
  BY <1>1, <1>3, AtWorkInManifest DEF Cleanup
<1>6. TxnMoves(r) /\ txn'[r] = {} BY <1>3, <1>5, TxnKept
<1>7. \/ objects' = objects \ {a} /\ errors' = errors
      \/ objects' = objects /\ errors' = errors \cup {<<"storage", a>>}
  BY <1>1 DEF Cleanup, Err
<1>8. <<"storage", a>> \in {"commit", "storage", "publish"} \X Attempts BY <1>3
<1> QED BY <1>1, <1>3, <1>4, <1>5, <1>6, <1>7, <1>8, RequestFacts, RowEnds

\* The publication ends the row of a committed attempt.
LEMMA PublishStep == ASSUME ArchiveInv, NEW r \in Requests, Publish(r) PROVE ArchiveInv'
<1>1. PICK a : a = Attempt(r) OBVIOUS
<1>2. RequestInv(r) BY RequestFacts
<1>3. a \in Attempts /\ txn[r] = {} /\ a \in projects /\ a \in objects
  BY <1>1, <1>2 DEF RequestInv, Publish
<1>4. a \in documents BY <1>3 DEF ArchiveInv, AttemptInv
<1>5. /\ NextRow(r) /\ UNCHANGED <<txn, gone, tables, objects>>
      /\ row[r] <= Len(Manifest[r])
  BY <1>1, <1>3, AtWorkInManifest DEF Publish
<1>6. TxnMoves(r) /\ txn'[r] = {} BY <1>3, <1>5, TxnKept
<1>7. \/ queue' = queue \cup {a} /\ errors' = errors
      \/ queue' = queue /\ errors' = errors \cup {<<"publish", a>>}
  BY <1>1 DEF Publish, Err
<1>8. <<"publish", a>> \in {"commit", "storage", "publish"} \X Attempts BY <1>3
<1> QED BY <1>1, <1>3, <1>4, <1>5, <1>6, <1>7, <1>8, RequestFacts, RowEnds

\* A commit that takes effect makes the three rows visible, whatever it reports.
LEMMA CommitStep ==
  ASSUME ArchiveInv, NEW r \in Requests, step[r] = "commit", MakeVisible(r),
         NEW s \in {"publish", "cleanup"}, Goto(r, s),
         txn' = [txn EXCEPT ![r] = {}], UNCHANGED <<row, uploaded, gone, objects, queue>>,
         \/ s = "publish" /\ errors' = errors
         \/ errors' = errors \cup {<<"commit", Attempt(r)>>}
  PROVE  ArchiveInv'
<1>1. PICK a : a = Attempt(r) OBVIOUS
<1>2. RequestInv(r) /\ OneClaim BY RequestFacts
<1>3. /\ a \in Attempts /\ a \in objects /\ a \notin projects
      /\ txn[r] = {"projects", "documents", "jobs"}
  BY <1>1, <1>2 DEF RequestInv
<1>4. /\ projects' = projects \cup {a} /\ documents' = documents \cup {a}
      /\ jobs' = jobs \cup {a}
  BY <1>1, <1>3 DEF MakeVisible, With
<1>5. /\ step' \in [Requests -> Steps] /\ step'[r] = s
      /\ \A q \in Requests \ {r} : step'[q] = step[q]
  BY GotoMoves DEF ArchiveInv, Steps
<1>6. TxnMoves(r) /\ txn'[r] = {}
  <2>1. txn \in [Requests -> SUBSET {"projects", "documents", "jobs"}] BY RequestFacts
  <2> QED BY <2>1 DEF TxnMoves
<1>7. /\ errors \subseteq errors'
      /\ s = "cleanup" => <<"commit", a>> \in errors'
      /\ errors' \subseteq {"commit", "storage", "publish"} \X Attempts
  BY <1>1, <1>3, RequestFacts
<1>8. TypeOK'
  BY <1>3, <1>4, <1>5, <1>6, <1>7 DEF ArchiveInv, TypeOK, TxnMoves
<1>9. Frame(r, a)
  <2>1. row[r] <= row'[r] BY RequestFacts
  <2> QED BY <1>4, <1>5, <1>6, <1>7, <2>1 DEF Frame, TxnMoves
<1>10. Attempt(r)' = a BY <1>1 DEF Attempt
<1>11. RequestInv(r)'
  BY <1>3, <1>4, <1>5, <1>6, <1>7, <1>10 DEF RequestInv, Met
<1>12. AttemptInv(a)'
  <2>1. AttemptInv(a) BY <1>3 DEF ArchiveInv
  <2>2. a[1] = r /\ a[2] = row[r] /\ row[r] \in Nat BY <1>1, RequestFacts
  <2> QED BY <1>3, <1>4, <2>1, <2>2 DEF AttemptInv
<1>13. OneClaim'
  <2>1. \A q \in Requests : Attempt(q)' = Attempt(q) BY DEF Attempt
  <2>2. \A q \in Requests : Claims(q)' => q # r /\ Claims(q)
    BY <1>6 DEF Claims, TxnMoves
  <2>3. Claims(r) BY <1>3 DEF Claims
  <2>4. \A b \in projects : Tender(b) # Tender(a) BY <1>1, <1>2, <2>3 DEF OneClaim
  <2>5. \A b, c \in projects' : Tender(b) = Tender(c) => b = c
    BY <1>2, <1>4, <2>4 DEF OneClaim
  <2>6. \A q \in Requests : \A b \in projects' : Claims(q)' => Tender(Attempt(q)') # Tender(b)
    BY <1>1, <1>2, <1>4, <2>1, <2>2, <2>3 DEF OneClaim
  <2>7. \A p, q \in Requests :
          Claims(p)' /\ Claims(q)' /\ Tender(Attempt(p)') = Tender(Attempt(q)') => p = q
    BY <1>2, <2>1, <2>2 DEF OneClaim
  <2> QED BY <2>5, <2>6, <2>7 DEF OneClaim, Tender
<1> QED BY <1>1, <1>8, <1>9, <1>11, <1>12, <1>13, LocalStep

\* The client disconnects: only later calls notice.
LEMMA CancelStep == ASSUME ArchiveInv, NEW r \in Requests, Cancel(r) PROVE ArchiveInv'
BY DEF ArchiveInv, Cancel, TypeOK, RequestInv, AttemptInv, OneClaim, tables, Attempt, Met,
       AtWork, Claims, Tender

-----------------------------------------------------------------------------
\* What the modules around this one rely on: a step of request r is its own,
\* and adds at most its attempt to the jobs and to the queue.
LEMMA StepIsLocal ==
  ASSUME TypeOK, NEW r \in Requests, ProcessStep(r) \/ Cancel(r) \/ Crash(r)
  PROVE  /\ \A q \in Requests \ {r} : /\ step'[q] = step[q] /\ row'[q] = row[q]
                                      /\ q \in gone' => q \in gone
         /\ jobs' = jobs \/ jobs' = jobs \cup {Attempt(r)}
         /\ queue' = queue \/ queue' = queue \cup {Attempt(r)}
<1> USE DEF TypeOK, Goto, NextRow, tables
<1>1. CASE Start(r) \/ Refuse(r) \/ Finish(r) \/ Cancel(r) \/ Crash(r)
  BY <1>1 DEF Start, Refuse, Finish, Cancel, Crash
<1>2. CASE SkipMalformed(r) \/ CheckProjectExists(r)
  BY <1>2 DEF SkipMalformed, CheckProjectExists
<1>3. CASE CreateProject(r) \/ SaveDocument(r) \/ CreateJob(r)
  BY <1>3 DEF CreateProject, SaveDocument, CreateJob, Insert
<1>4. CASE CreateProjectFails(r) \/ UploadFails(r) \/ StatementFails(r)
  BY <1>4 DEF CreateProjectFails, UploadFails, StatementFails, Abort
<1>5. CASE Upload(r) \/ Cleanup(r) \/ Publish(r) BY <1>5 DEF Upload, Cleanup, Publish
<1>6. CASE Commit(r) BY <1>6 DEF Commit, MakeVisible, With
<1>7. CASE CommitFails(r) BY <1>7 DEF CommitFails, Abort, MakeVisible, With
<1> QED BY <1>1, <1>2, <1>3, <1>4, <1>5, <1>6, <1>7 DEF ProcessStep

-----------------------------------------------------------------------------
\* Initially nothing is stored and nothing runs.
LEMMA ArchiveInitial == Init => ArchiveInv
<1> SUFFICES ASSUME Init PROVE ArchiveInv OBVIOUS
<1>1. TypeOK
  <2>1. \A r \in Requests : 1 <= Len(Manifest[r]) + 1 BY ArchiveAssumption
  <2> QED BY <2>1 DEF Init, TypeOK, Steps
<1> QED BY <1>1 DEF Init, ArchiveInv, RequestInv, AttemptInv, OneClaim, Claims

\* Every step preserves the invariant.
LEMMA ArchivePreserved == ArchiveInv /\ [Next]_vars => ArchiveInv'
<1> SUFFICES ASSUME ArchiveInv, [Next]_vars PROVE ArchiveInv' OBVIOUS
<1>1. CASE UNCHANGED vars
  <2>1. /\ step' = step /\ row' = row /\ txn' = txn /\ uploaded' = uploaded /\ gone' = gone
        /\ projects' = projects /\ documents' = documents /\ jobs' = jobs
        /\ objects' = objects /\ queue' = queue /\ errors' = errors
    BY <1>1 DEF vars, tables
  <2>2. TypeOK' BY <2>1 DEF ArchiveInv, TypeOK
  <2>3. \A r \in Requests : RequestInv(r)'
    BY <2>1 DEF ArchiveInv, RequestInv, Attempt, Met
  <2>4. \A a \in Attempts : AttemptInv(a)' BY <2>1 DEF ArchiveInv, AttemptInv, AtWork, Met
  <2>5. OneClaim' BY <2>1 DEF ArchiveInv, OneClaim, Claims, Attempt, Tender
  <2> QED BY <2>2, <2>3, <2>4, <2>5 DEF ArchiveInv
<1>2. ASSUME NEW r \in Requests, ProcessStep(r) PROVE ArchiveInv'
  <2>1. CASE Start(r) \/ Refuse(r) \/ Finish(r) BY <2>1, OuterStep
  <2>2. CASE SkipMalformed(r) BY <2>2, RowSkipped DEF SkipMalformed, AtRow
  <2>3. CASE CheckProjectExists(r) BY <2>3, CheckStep
  <2>4. CASE CreateProject(r) \/ SaveDocument(r) \/ CreateJob(r) BY <2>4, InsertStep
  <2>5. CASE CreateProjectFails(r)
    <3>1. ~ uploaded[r] /\ Attempt(r) \in Attempts
      BY <2>5, RequestFacts DEF RequestInv, CreateProjectFails
    <3>2. NextRow(r) /\ txn' = [txn EXCEPT ![r] = {}] BY <2>5, <3>1 DEF CreateProjectFails, Abort
    <3> QED BY <2>5, <3>1, <3>2, AtWorkInManifest, RowSkipped DEF CreateProjectFails
  <2>6. CASE Upload(r) BY <2>6, UploadStep
  <2>7. CASE UploadFails(r) BY <2>7, UploadFailsStep
  <2>8. CASE StatementFails(r) BY <2>8, RollbackStep DEF StatementFails
  <2>9. CASE Commit(r) BY <2>9, CommitStep DEF Commit
  <2>10. CASE CommitFails(r)
    <3>1. step[r] = "commit" /\ Abort(r) /\ UNCHANGED <<gone, objects, queue>>
      BY <2>10 DEF CommitFails
    <3>2. CASE UNCHANGED <<tables, errors>> BY <3>1, <3>2, RollbackStep
    <3>3. CASE MakeVisible(r) /\ Err(r, "commit")
      <4>1. uploaded[r] BY <3>1, RequestFacts DEF RequestInv
      <4> QED BY <3>1, <3>3, <4>1, CommitStep DEF Abort, Err
    <3> QED BY <2>10, <3>2, <3>3 DEF CommitFails
  <2>11. CASE Cleanup(r) BY <2>11, CleanupStep
  <2>12. CASE Publish(r) BY <2>12, PublishStep
  <2> QED
    BY <1>2, <2>1, <2>2, <2>3, <2>4, <2>5, <2>6, <2>7, <2>8, <2>9, <2>10, <2>11, <2>12
    DEF ProcessStep
<1> QED BY <1>1, <1>2, OuterStep, CancelStep DEF Next

\* ArchiveInv holds in every reachable state of every instance.
THEOREM ArchiveInvariant == Spec => []ArchiveInv
BY ArchiveInitial, ArchivePreserved, PTL DEF Spec

\* Every variable keeps its type.
THEOREM ArchiveTypeCorrect == Spec => []TypeOK
<1>1. ArchiveInv => TypeOK BY DEF ArchiveInv
<1> QED BY <1>1, ArchiveInvariant, PTL

\* Project, document and job are committed together.
THEOREM RowsAreAtomic == Spec => []AllOrNothing
<1>1. ArchiveInv => AllOrNothing BY DEF ArchiveInv, AllOrNothing, AttemptInv, TypeOK
<1> QED BY <1>1, ArchiveInvariant, PTL

\* However many requests race for a tender, one project and one job result.
THEOREM TendersAreUnique == Spec => []OneJobPerTender
<1>1. ArchiveInv => OneJobPerTender
  <2> SUFFICES ASSUME ArchiveInv PROVE OneJobPerTender OBVIOUS
  <2>1. queue \subseteq projects BY DEF ArchiveInv, AttemptInv, TypeOK
  <2> QED BY <2>1 DEF ArchiveInv, OneClaim, OneJobPerTender
<1> QED BY <1>1, ArchiveInvariant, PTL

\* A published job has its rows and its object.
THEOREM PublishedAreReady == Spec => []PublishedJobsAreReady
<1>1. ArchiveInv => PublishedJobsAreReady
  BY DEF ArchiveInv, PublishedJobsAreReady, AttemptInv, TypeOK
<1> QED BY <1>1, ArchiveInvariant, PTL

\* A committed document can be read, unless the commit reported an error.
THEOREM CommittedAreReadable == Spec => []DocumentsAreReadable
<1>1. ArchiveInv => DocumentsAreReadable
  BY DEF ArchiveInv, DocumentsAreReadable, AttemptInv, TypeOK
<1> QED BY <1>1, ArchiveInvariant, PTL

\* A row that fails leaves no object, unless MinIO reported an error or the
\* process died.
THEOREM OrphansAreExplained == Spec => []NoOrphanObjects
<1>1. ArchiveInv => NoOrphanObjects
  BY DEF ArchiveInv, NoOrphanObjects, AttemptInv, TypeOK
<1> QED BY <1>1, ArchiveInvariant, PTL
=============================================================================
