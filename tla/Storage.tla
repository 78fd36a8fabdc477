------------------------------- MODULE Storage -------------------------------
(***************************************************************************)
(* The object store as the calls of one API process use it: Upload and     *)
(* DownloadStream of internal/adapters/repositories/minio_storage.go.      *)
(* MinIO is modelled from these calls.  The version of a file is the call  *)
(* that uploaded it.                                                       *)
(***************************************************************************)
EXTENDS Integers

CONSTANTS
  Calls,     \* calls of the handlers and services of the process
  Files,     \* names of objects
  BucketOf,  \* BucketOf[f]: the bucket of file f
  Nothing,   \* no call, and no file
  Faults     \* what may go wrong, see each module

\* storage: a call to MinIO fails without effect; late: it reports an error
\* and takes effect, an upload possibly much later.
ASSUME StorageAssumption == Nothing \notin Calls \cup Files

VARIABLES
  step,     \* step[c]: what call c does next
  file,     \* file[c]: the file it is about
  gone,     \* calls whose context is done
  buckets,  \* buckets that exist
  objects,  \* objects[f]: the version of f that is stored, or Nothing
  delayed,  \* uploads that reported an error and that MinIO will store
  met       \* history: calls to which an error was reported, that of a bucket
            \*   that exists apart

storageVars == <<buckets, objects, delayed, met>>

StorageInit ==
  /\ step = [c \in Calls |-> "idle"]
  /\ file = [c \in Calls |-> Nothing]
  /\ gone = {}
  /\ buckets = {}
  /\ objects = [f \in Files |-> Nothing]
  /\ delayed = {}
  /\ met = {}

Goto(c, s) == step' = [step EXCEPT ![c] = s]

\* A call succeeds, or fails because of fault f or of the context.
Live(c) == c \notin gone
Fails(c, f) == f \in Faults \/ c \in gone
Meet(c) == met' = met \cup {c}

Bucket(c) == BucketOf[file[c]]
Create(c) == buckets' = buckets \cup {Bucket(c)}

\* Mutation: whatever error MakeBucket returns is returned.
MakeBucketOrFail(c) ==
  /\ step[c] = "make"
  /\ \/ Live(c) /\ Bucket(c) \notin buckets /\ Create(c) /\ Goto(c, "put") /\ UNCHANGED met
     \/ Live(c) /\ Bucket(c) \in buckets /\ Goto(c, "error") /\ UNCHANGED <<buckets, met>>
     \/ Fails(c, "storage") /\ Goto(c, "error") /\ Meet(c) /\ UNCHANGED buckets
  /\ UNCHANGED <<file, gone, objects, delayed>>

\* MakeBucket: a bucket that exists, perhaps because another upload has just
\* created it, is an error like any other.
MakeBucket(c) ==
  /\ step[c] = "make"
  /\ \/ Live(c) /\ Bucket(c) \notin buckets /\ Create(c) /\ Goto(c, "put") /\ UNCHANGED met
     \/ Live(c) /\ Bucket(c) \in buckets /\ Goto(c, "check") /\ UNCHANGED <<buckets, met>>
     \/ Fails(c, "storage") /\ Goto(c, "check") /\ Meet(c) /\ UNCHANGED buckets
     \/ Fails(c, "late") /\ Goto(c, "check") /\ Meet(c) /\ Create(c)
  /\ UNCHANGED <<file, gone, objects, delayed>>

\* After an error, BucketExists decides.
BucketExists(c) ==
  /\ step[c] = "check"
  /\ \/ Live(c) /\ Goto(c, IF Bucket(c) \in buckets THEN "put" ELSE "error") /\ UNCHANGED met
     \/ Fails(c, "storage") /\ Goto(c, "error") /\ Meet(c)
  /\ UNCHANGED <<file, gone, buckets, objects, delayed>>

Store(c) == objects' = [objects EXCEPT ![file[c]] = c]

\* Mutation: the object is put by a goroutine that nobody waits for.
PutObjectLater(c) ==
  /\ step[c] = "put"
  /\ Live(c)
  /\ delayed' = delayed \cup {c}
  /\ Goto(c, "stored")
  /\ UNCHANGED <<file, gone, buckets, objects, met>>

PutObject(c) ==
  /\ step[c] = "put"
  /\ Live(c)
  /\ Store(c)
  /\ Goto(c, "stored")
  /\ UNCHANGED <<file, gone, buckets, delayed, met>>

PutObjectFails(c) ==
  /\ step[c] = "put"
  /\ \/ Fails(c, "storage") /\ UNCHANGED delayed
     \/ Fails(c, "late") /\ delayed' = delayed \cup {c}
  /\ Meet(c)
  /\ Goto(c, "error")
  /\ UNCHANGED <<file, gone, buckets, objects>>

StoreDelayed(c) ==
  /\ c \in delayed
  /\ Store(c)
  /\ delayed' = delayed \ {c}
  /\ UNCHANGED <<step, file, gone, buckets, met>>

\* GetObject sends nothing; Stat fails when there is no such object.
DownloadStream(c) ==
  /\ step[c] = "stat"
  /\ \/ Live(c) /\ Goto(c, IF objects[file[c]] = Nothing THEN "failed" ELSE "stream")
        /\ UNCHANGED met
     \/ Fails(c, "storage") /\ Goto(c, "failed") /\ Meet(c)
  /\ UNCHANGED <<file, gone, buckets, objects, delayed>>

StorageStep(c) ==
  MakeBucket(c) \/ BucketExists(c) \/ PutObject(c) \/ PutObjectFails(c) \/ DownloadStream(c)
=============================================================================
