---------------------------- MODULE GatewayProofs ----------------------------
(***************************************************************************)
(* Proofs about Gateway, for any number of calls, files and strategies,    *)
(* every workload and every set of faults.  The inductive invariant has    *)
(* one part about each call, one about the calls that were over when       *)
(* another began, and one about the lock of the strategies.                *)
(***************************************************************************)
EXTENDS GatewayProps, TLAPS

Uploading == {"make", "check", "put", "stored", "error"}
Asking == {"rlock", "lookup", "ask"}
Compiling == {"stat", "stream", "replace", "share"} \cup Returned

\* What the local state of a call says about its file, its causes of failure,
\* the object store and its document.
CallInv(c) ==
  /\ step[c] \in Uploading => file[c] \in Files
  /\ step[c] \in Compiling => file[c] = Template
  /\ step[c] \in Asking => kind[c] = "price"
  /\ step[c] \in {"idle"} \cup Asking => file[c] = Nothing
  /\ status[c] # 0 => step[c] = "answered"
  /\ step[c] = "check" => c \in met \/ Bucket(c) \in buckets
  /\ step[c] = "error" => c \in met
  /\ kind[c] # "price" /\ status[c] = 500 => c \in met
  /\ c \in delayed => /\ file[c] \in Files
                      /\ step[c] = "error" \/ (step[c] = "answered" /\ status[c] = 500)
  /\ step[c] = "stream" => objects[Template] # Nothing
  /\ template[c] # Nothing => step[c] \in {"replace", "share"} \cup Returned
  /\ step[c] \in {"replace", "share", "done", "unshared"} => template[c] # Nothing
  /\ step[c] \in {"share", "done", "unshared"} => c \in vacant \cup filled
  /\ step[c] = "done" => c \in shared
  /\ step[c] \in {"lock", "register"} => source[c] \in Sources

\* Who was answered when another call began is over.
BeforeIsOver == \A c \in Calls : \A x \in before[c] : step[x] = "answered"

\* An upload has taken effect once PutObject has returned nil, and is not
\* undone by one that was a success before it began.
Took(u) == step[u] = "stored" \/ status[u] = 200
TookEffect ==
  \A u \in Calls : Took(u) /\ file[u] \in Files =>
    objects[file[u]] # Nothing /\ ~ Precedes(objects[file[u]], u)

\* The lock is held, or waited for, by the calls that are at that step.
LockInv ==
  /\ readers = {c \in Calls : step[c] = "lookup"}
  /\ waiting = {c \in Calls : step[c] = "lock"}
  /\ \A c \in Calls : writer = c <=> step[c] = "register"

\* The inductive invariant.
GatewayInv ==
  /\ TypeOK
  /\ \A c \in Calls : CallInv(c)
  /\ BeforeIsOver
  /\ TookEffect
  /\ DocumentsUseCurrentTemplate
  /\ LockInv

-----------------------------------------------------------------------------
(* Steps of one call. *)

Over(c) == step[c] = "answered"

\* Call c acts on its own state and on the object of its file alone, gives
\* nothing up that it was answered, and begins once.
Frame(c) ==
  /\ kind' = kind /\ buckets \subseteq buckets'
  /\ \A d \in Calls \ {c} :
       /\ step'[d] = step[d] /\ file'[d] = file[d] /\ status'[d] = status[d]
       /\ template'[d] = template[d] /\ before'[d] = before[d] /\ source'[d] = source[d]
       /\ d \in met' <=> d \in met
       /\ d \in delayed' <=> d \in delayed
       /\ d \in vacant' <=> d \in vacant
       /\ d \in filled' <=> d \in filled
       /\ d \in shared' <=> d \in shared
  /\ Over(c) => step'[c] = step[c] /\ status'[c] = status[c]
  /\ step[c] # "idle" => file'[c] = file[c] /\ before'[c] = before[c]
  /\ step[c] = "idle" => before'[c] = {d \in Calls : Over(d)}

\* What a step of c does to the objects: nothing, or its file is stored, by
\* an upload that is not over or that failed.
Stores(c) ==
  \/ objects' = objects
  \/ /\ step[c] = "put" \/ c \in delayed
     /\ file[c] \in Files
     /\ Store(c)

\* When an upload takes effect, and when a template is read.
Takes(c) == Took(c)' /\ file'[c] \in Files => Took(c) \/ (step[c] = "put" /\ Store(c))
Reads(c) == template'[c] = template[c] \/ template'[c] = objects[Template]

\* No call that was over is stored by another one's step as if it were new.
LEMMA StoredIsNew ==
  ASSUME GatewayInv, NEW c \in Calls, step[c] = "put" \/ c \in delayed, NEW u \in Calls
  PROVE  ~ Precedes(c, u)
BY DEF GatewayInv, CallInv, BeforeIsOver, Precedes

LEMMA BeforeStaysOver ==
  ASSUME GatewayInv, NEW c \in Calls, Frame(c)
  PROVE  /\ BeforeIsOver'
         /\ \A u \in Calls, x \in Calls :
              ~ Precedes(x, u) /\ step[u] # "idle" => ~ Precedes(x, u)'
<1>1. \A d \in Calls : Over(d) => step'[d] = step[d] /\ status'[d] = status[d]
  BY DEF Frame
<1>2. \A u \in Calls : /\ step[u] # "idle" => before'[u] = before[u]
                       /\ before'[u] \in {before[u], {d \in Calls : Over(d)}}
  BY DEF Frame
<1>3. \A u \in Calls : \A x \in before[u] : x \in Calls /\ Over(x)
  BY DEF GatewayInv, TypeOK, BeforeIsOver, Over
<1> QED BY <1>1, <1>2, <1>3 DEF BeforeIsOver, Precedes, Over

LEMMA EffectsStay ==
  ASSUME GatewayInv, NEW c \in Calls, Frame(c), Stores(c), Takes(c), TypeOK'
  PROVE  TookEffect'
<1> SUFFICES ASSUME NEW u \in Calls, Took(u)', file'[u] \in Files,
                    NEW x, x = objects'[file'[u]]
             PROVE  x # Nothing /\ ~ Precedes(x, u)'
  BY DEF TookEffect, Precedes
<1>1. Nothing \notin Calls \cup Files /\ objects' \in [Files -> Calls \cup {Nothing}]
      /\ objects \in [Files -> Calls \cup {Nothing}]
  BY StorageAssumption DEF TypeOK, GatewayInv
<1>2. CallInv(u) /\ CallInv(c) BY DEF GatewayInv
<1>3. Took(u) \/ (u = c /\ step[c] = "put" /\ Store(c))
  BY DEF Frame, Takes, Took
<1>4. CASE Took(u)
  <2>1. step[u] # "idle" BY <1>2, <1>4 DEF Took, CallInv, GatewayInv, TypeOK
  <2>2. file'[u] = file[u] BY <2>1 DEF Frame
  <2>3. objects[file[u]] # Nothing /\ ~ Precedes(objects[file[u]], u)
    BY <1>4, <2>2 DEF GatewayInv, TookEffect
  <2>4. \/ objects'[file[u]] = objects[file[u]]
        \/ /\ step[c] = "put" \/ c \in delayed
           /\ objects'[file[u]] = c
    BY <1>1, <2>2 DEF Stores, Store
  <2>5. x \in Calls /\ ~ Precedes(x, u) BY <1>1, <2>2, <2>3, <2>4, StoredIsNew
  <2> QED BY <1>1, <2>1, <2>5, BeforeStaysOver
<1>5. CASE u = c /\ step[c] = "put" /\ Store(c)
  <2>1. file'[c] = file[c] /\ file[c] \in Files BY <1>5 DEF Frame
  <2>2. x = c BY <1>1, <1>5, <2>1 DEF Store, GatewayInv, TypeOK
  <2>3. ~ Precedes(c, c)' BY <1>5, StoredIsNew, BeforeStaysOver
  <2> QED BY <1>1, <1>5, <2>1, <2>2, <2>3
<1> QED BY <1>3, <1>4, <1>5

LEMMA TemplatesStayCurrent ==
  ASSUME GatewayInv, NEW c \in Calls, Frame(c), Reads(c),
         template'[c] # template[c] => step[c] = "stream"
  PROVE  DocumentsUseCurrentTemplate'
<1> SUFFICES ASSUME NEW d \in Calls, template'[d] # Nothing,
                    NEW u \in Calls, file'[u] = Template, status'[u] = 200, u \in before'[d],
                    NEW x, x = template'[d]
             PROVE  ~ Precedes(x, u)'
  BY DEF DocumentsUseCurrentTemplate, Stored, Precedes
<1>1. CallInv(d) BY DEF GatewayInv
<1>2. step[d] # "idle"
  <2>1. template[d] # Nothing \/ step[d] = "stream" BY DEF Frame
  <2> QED BY <1>1, <2>1 DEF CallInv, Returned
<1>3. before'[d] = before[d] BY <1>2 DEF Frame
<1>4. Over(u) BY <1>3 DEF GatewayInv, BeforeIsOver, Over
<1>5. file'[u] = file[u] /\ status'[u] = status[u] BY <1>4 DEF Frame, Over
<1>6. u \in Stored(Template) \cap before[d] BY <1>3, <1>5 DEF Stored
<1>7. CASE x = template[d]
  <2>1. ~ Precedes(x, u) /\ x \in Calls
    BY <1>6, <1>7 DEF GatewayInv, DocumentsUseCurrentTemplate, TypeOK
  <2> QED BY <1>4, <1>7, <2>1, BeforeStaysOver DEF Over
<1>8. CASE x = objects[Template]
  <2>1. file[u] \in Files /\ Took(u) BY <1>6, DocumentsAssumption DEF Stored, Took
  <2>2. ~ Precedes(x, u) /\ x \in Calls
    BY <1>6, <1>8, <2>1, DocumentsAssumption DEF GatewayInv, TookEffect, TypeOK, Stored
  <2> QED BY <1>4, <1>8, <2>2, BeforeStaysOver DEF Over
<1> QED BY <1>7, <1>8 DEF Frame, Reads

\* Other calls keep their part of the invariant.
LEMMA OtherCalls ==
  ASSUME GatewayInv, NEW c \in Calls, Frame(c), Stores(c), NEW d \in Calls \ {c}
  PROVE  CallInv(d)'
<1>1. CallInv(d) BY DEF GatewayInv
<1>2. objects[Template] # Nothing => objects'[Template] # Nothing
  BY StorageAssumption, DocumentsAssumption DEF Stores, Store, GatewayInv, TypeOK
<1>3. Bucket(d) \in buckets => Bucket(d)' \in buckets' BY DEF Frame, Bucket
<1> QED BY <1>1, <1>2, <1>3 DEF Frame, CallInv

\* A step of c keeps the invariant if it keeps what concerns c and the lock.
LEMMA StepOfCall ==
  ASSUME GatewayInv, NEW c \in Calls, Frame(c), Stores(c), Takes(c), Reads(c),
         template'[c] # template[c] => step[c] = "stream",
         TypeOK', CallInv(c)', LockInv'
  PROVE  GatewayInv'
BY OtherCalls, BeforeStaysOver, EffectsStay, TemplatesStayCurrent DEF GatewayInv

\* A step that is not about prices leaves the lock alone.
LEMMA LockUntouched ==
  ASSUME LockInv, NEW c \in Calls, UNCHANGED <<readers, waiting, writer>>,
         \A d \in Calls \ {c} : step'[d] = step[d],
         step[c] \notin {"lookup", "lock", "register"},
         step'[c] \notin {"lookup", "lock", "register"}
  PROVE  LockInv'
BY DEF LockInv

-----------------------------------------------------------------------------
\* Initially no call has begun.
LEMMA GatewayInitial == GatewayInit => GatewayInv
<1> SUFFICES ASSUME GatewayInit PROVE GatewayInv OBVIOUS
<1> USE DEF GatewayInit, StorageInit, DocumentsInit, Price!PricingInit
<1>1. TypeOK BY DEF TypeOK
<1>2. ASSUME NEW c \in Calls PROVE CallInv(c)
  <2>1. /\ step[c] = "idle" /\ file[c] = Nothing /\ status[c] = 0
        /\ template[c] = Nothing /\ c \notin delayed
    OBVIOUS
  <2> QED BY ONLY <2>1 DEF CallInv, Uploading, Compiling, Asking, Returned
<1>3. BeforeIsOver /\ TookEffect BY DEF BeforeIsOver, TookEffect, Took
<1>4. DocumentsUseCurrentTemplate BY DEF DocumentsUseCurrentTemplate
<1>5. LockInv BY StorageAssumption DEF LockInv
<1> QED BY <1>1, <1>2, <1>3, <1>4, <1>5 DEF GatewayInv

\* The step of a call that begins.
LEMMA BeginPreserves ==
  ASSUME GatewayInv, NEW c \in Calls,
         \/ HandleUpload(c) \/ UploadMercuriale(c) \/ UploadTemplateDocx(c)
         \/ ReadFails(c) \/ Refuse(c) \/ Compile(c) \/ AskPrice(c) \/ AddStrategy(c)
  PROVE  GatewayInv'
<1> USE DEF GatewayInv, Goto, Price!Goto, Price!Answer, Begin, storageVars, docVars, priceVars,
            others
<1>1. CallInv(c) /\ c \notin delayed /\ c \notin readers \cup waiting /\ writer # c
  BY DEF CallInv, LockInv, Took,
     HandleUpload, UploadMercuriale, UploadTemplateDocx, StartUpload, ReadFails, Refuse, Compile,
     CompileTechnicalMemory, AskPrice, Price!HandlePrice, AddStrategy, Price!RegisterStrategy
<1>2. /\ step[c] = "idle" /\ kind' = kind
      /\ before' = [before EXCEPT ![c] = {d \in Calls : step[d] = "answered"}]
      /\ UNCHANGED <<gone, buckets, objects, delayed, template, filled, shared, strategies, readers,
                     writer>>
  BY DEF HandleUpload, UploadMercuriale, UploadTemplateDocx, StartUpload, ReadFails, Refuse, Compile,
     CompileTechnicalMemory, AskPrice, Price!HandlePrice, AddStrategy, Price!RegisterStrategy
<1>3. before' \in [Calls -> SUBSET Calls] BY <1>2 DEF TypeOK
<1>4. CASE HandleUpload(c) \/ UploadMercuriale(c) \/ UploadTemplateDocx(c)
  <2>1. PICK f \in Files : file' = [file EXCEPT ![c] = f]
    BY <1>4, GatewayAssumption, DocumentsAssumption
    DEF HandleUpload, UploadMercuriale, UploadTemplateDocx, StartUpload, Tenders
  <2>2. /\ step' = [step EXCEPT ![c] = "make"]
        /\ UNCHANGED <<met, vacant, status, source, waiting>>
    BY <1>4 DEF HandleUpload, UploadMercuriale, UploadTemplateDocx, StartUpload
  <2>3. TypeOK' BY <1>2, <1>3, <2>1, <2>2 DEF TypeOK
  <2>4. Frame(c) /\ Stores(c) /\ Takes(c) /\ Reads(c)
    BY <1>1, <1>2, <2>1, <2>2 DEF Frame, Stores, Takes, Took, Reads, TypeOK, Over, CallInv
  <2>5. CallInv(c)'
    BY <1>1, <1>2, <2>1, <2>2
    DEF CallInv, TypeOK, Uploading, Compiling, Asking, Returned
  <2>6. LockInv' BY <1>2, <2>2, LockUntouched DEF TypeOK
  <2> QED BY <1>2, <2>3, <2>4, <2>5, <2>6, StepOfCall
<1>5. CASE ReadFails(c) \/ Refuse(c)
  <2>1. /\ step' = [step EXCEPT ![c] = "answered"]
        /\ file' \in {file} \cup {[file EXCEPT ![c] = f] : f \in Files}
        /\ UNCHANGED <<vacant, source, waiting>>
        /\ \/ status' = [status EXCEPT ![c] = 500] /\ met' = met \cup {c}
           \/ status' = [status EXCEPT ![c] = 400] /\ met' = met
    BY <1>5 DEF ReadFails, Refuse, Meet, Tenders
  <2>2. TypeOK' BY <1>2, <1>3, <2>1 DEF TypeOK
  <2>3. Frame(c) /\ Stores(c) /\ Takes(c) /\ Reads(c)
    BY <1>1, <1>2, <2>1 DEF Frame, Stores, Takes, Took, Reads, TypeOK, Over, CallInv
  <2>4. CallInv(c)'
    BY <1>1, <1>2, <2>1 DEF CallInv, TypeOK, Uploading, Compiling, Asking, Returned
  <2>5. LockInv' BY <1>2, <2>1, LockUntouched DEF TypeOK
  <2> QED BY <1>2, <2>2, <2>3, <2>4, <2>5, StepOfCall
<1>6. CASE Compile(c)
  <2>1. /\ step' = [step EXCEPT ![c] = "stat"]
        /\ file' = [file EXCEPT ![c] = Template]
        /\ vacant' \in {vacant, vacant \cup {c}}
        /\ UNCHANGED <<met, status, source, waiting>>
    BY <1>6 DEF Compile, CompileTechnicalMemory
  <2>2. TypeOK' BY <1>2, <1>3, <2>1, DocumentsAssumption DEF TypeOK
  <2>3. Frame(c) /\ Stores(c) /\ Takes(c) /\ Reads(c)
    BY <1>1, <1>2, <2>1 DEF Frame, Stores, Takes, Took, Reads, TypeOK, Over, CallInv
  <2>4. CallInv(c)'
    BY <1>1, <1>2, <2>1 DEF CallInv, TypeOK, Uploading, Compiling, Asking, Returned
  <2>5. LockInv' BY <1>2, <2>1, LockUntouched DEF TypeOK
  <2> QED BY <1>2, <2>2, <2>3, <2>4, <2>5, StepOfCall
<1>7. CASE AskPrice(c) \/ AddStrategy(c)
  <2>1. /\ \E s \in Sources : source' = [source EXCEPT ![c] = s]
        /\ UNCHANGED <<file, met, status, vacant>>
        /\ \/ /\ step' = [step EXCEPT ![c] = "rlock"]
              /\ waiting' = waiting /\ kind[c] = "price"
           \/ /\ step' = [step EXCEPT ![c] = "lock"]
              /\ waiting' = waiting \cup {c}
    BY <1>7 DEF AskPrice, Price!HandlePrice, AddStrategy, Price!RegisterStrategy
  <2>2. TypeOK' BY <1>2, <1>3, <2>1 DEF TypeOK
  <2>3. Frame(c) /\ Stores(c) /\ Takes(c) /\ Reads(c)
    BY <1>1, <1>2, <2>1 DEF Frame, Stores, Takes, Took, Reads, TypeOK, Over, CallInv
  <2>4. CallInv(c)'
    BY <1>1, <1>2, <2>1 DEF CallInv, TypeOK, Uploading, Compiling, Asking, Returned
  <2>5. LockInv' BY <1>1, <1>2, <2>1 DEF LockInv, TypeOK
  <2> QED BY <1>2, <2>2, <2>3, <2>4, <2>5, StepOfCall
<1> QED BY <1>4, <1>5, <1>6, <1>7

\* The step of an upload or of a download, and a late effect in the store.
LEMMA StoragePreserves ==
  ASSUME GatewayInv, NEW c \in Calls, StorageCall(c) \/ LateStore(c)
  PROVE  GatewayInv'
<1> USE DEF GatewayInv, docVars, priceVars
<1>1. /\ CallInv(c) /\ kind' = kind /\ before' = before /\ file' = file /\ gone' = gone
      /\ UNCHANGED <<vacant, template, filled, shared, status>>
      /\ UNCHANGED <<source, strategies, readers, waiting, writer>>
  BY DEF StorageCall, LateStore, StorageStep, MakeBucket, BucketExists, PutObject, PutObjectFails,
         DownloadStream, StoreDelayed
<1>2. \A v \in Files : [objects EXCEPT ![v] = c] \in [Files -> Calls \cup {Nothing}]
  BY DEF TypeOK
<1> USE DEF Goto
<1>3. CASE MakeBucket(c) \/ BucketExists(c)
  <2> USE DEF MakeBucket, BucketExists
  <2>1. /\ step[c] \in {"make", "check"}
        /\ objects' = objects /\ delayed' = delayed
        /\ met' \in {met, met \cup {c}}
        /\ buckets' \in {buckets, buckets \cup {Bucket(c)}}
        /\ step' \in {[step EXCEPT ![c] = s] : s \in {"put", "check", "error"}}
    BY <1>3 DEF Create, Meet
  <2>2. file[c] \in Files BY <1>1, <2>1 DEF CallInv, Uploading
  <2>3. TypeOK' BY <1>1, <2>1, <2>2 DEF TypeOK, Bucket
  <2>4. Frame(c) /\ Stores(c) /\ Takes(c) /\ Reads(c)
    BY <1>1, <2>1 DEF Frame, Stores, Takes, Took, Reads, TypeOK, Over, CallInv
  <2>5. /\ step'[c] = "check" => c \in met' \/ Bucket(c) \in buckets'
        /\ step'[c] = "error" => c \in met'
    BY <1>1, <1>3, <2>1 DEF Create, Meet, TypeOK, CallInv
  <2>6. Bucket(c)' = Bucket(c) BY <1>1 DEF Bucket
  <2>7. CallInv(c)'
    <3> HIDE DEF MakeBucket, BucketExists
    <3> QED
      BY <1>1, <2>1, <2>2, <2>5, <2>6 DEF CallInv, TypeOK, Uploading, Compiling, Asking, Returned
  <2>8. LockInv' BY <1>1, <2>1, LockUntouched DEF TypeOK
  <2> QED BY <1>1, <2>3, <2>4, <2>7, <2>8, StepOfCall
<1>4. CASE PutObject(c)
  <2>1. /\ step[c] = "put" /\ step' = [step EXCEPT ![c] = "stored"] /\ Store(c)
        /\ buckets' = buckets /\ delayed' = delayed /\ met' = met
    BY <1>4 DEF PutObject
  <2>2. file[c] \in Files BY <1>1, <2>1 DEF CallInv, Uploading
  <2>3. TypeOK' BY <1>1, <1>2, <2>1, <2>2 DEF TypeOK, Store
  <2>4. Frame(c) /\ Stores(c) /\ Takes(c) /\ Reads(c)
    BY <1>1, <2>1, <2>2 DEF Frame, Stores, Takes, Took, Reads, TypeOK, Over
  <2>5. CallInv(c)'
    BY <1>1, <2>1, <2>2 DEF CallInv, TypeOK, Uploading, Compiling, Asking, Returned
  <2>6. LockInv' BY <1>1, <2>1, LockUntouched DEF TypeOK
  <2> QED BY <1>1, <2>3, <2>4, <2>5, <2>6, StepOfCall
<1>5. CASE PutObjectFails(c)
  <2>1. /\ step[c] = "put" /\ step' = [step EXCEPT ![c] = "error"] /\ met' = met \cup {c}
        /\ buckets' = buckets /\ delayed' \in {delayed, delayed \cup {c}} /\ objects' = objects
    BY <1>5 DEF PutObjectFails, Meet
  <2>2. file[c] \in Files BY <1>1, <2>1 DEF CallInv, Uploading
  <2>3. TypeOK' BY <1>1, <2>1 DEF TypeOK
  <2>4. Frame(c) /\ Stores(c) /\ Takes(c) /\ Reads(c)
    BY <1>1, <2>1, <2>2 DEF Frame, Stores, Takes, Took, Reads, TypeOK, Over, CallInv
  <2>5. CallInv(c)'
    BY <1>1, <2>1, <2>2 DEF CallInv, TypeOK, Uploading, Compiling, Asking, Returned
  <2>6. LockInv' BY <1>1, <2>1, LockUntouched DEF TypeOK
  <2> QED BY <1>1, <2>3, <2>4, <2>5, <2>6, StepOfCall
<1>6. CASE DownloadStream(c)
  <2>1. /\ step[c] = "stat" /\ met' \in {met, met \cup {c}}
        /\ \/ step' = [step EXCEPT ![c] = "failed"]
           \/ step' = [step EXCEPT ![c] = "stream"] /\ objects[file[c]] # Nothing
        /\ UNCHANGED <<buckets, objects, delayed>>
    BY <1>6 DEF DownloadStream, Meet
  <2>2. file[c] = Template BY <1>1, <2>1 DEF CallInv, Compiling
  <2>3. TypeOK' BY <1>1, <2>1 DEF TypeOK, Returned
  <2>4. Frame(c) /\ Stores(c) /\ Takes(c) /\ Reads(c)
    BY <1>1, <2>1 DEF Frame, Stores, Takes, Took, Reads, TypeOK, Over, CallInv
  <2>5. CallInv(c)'
    BY <1>1, <2>1, <2>2 DEF CallInv, TypeOK, Uploading, Compiling, Asking, Returned
  <2>6. LockInv' BY <1>1, <2>1, LockUntouched DEF TypeOK
  <2> QED BY <1>1, <2>3, <2>4, <2>5, <2>6, StepOfCall
<1>7. CASE StoreDelayed(c)
  <2>1. /\ c \in delayed /\ delayed' = delayed \ {c} /\ Store(c)
        /\ UNCHANGED <<step, buckets, met>>
    BY <1>7 DEF StoreDelayed
  <2>2. /\ file[c] \in Files
        /\ step[c] = "error" \/ (step[c] = "answered" /\ status[c] = 500)
    BY <1>1, <2>1 DEF CallInv
  <2>3. TypeOK' BY <1>1, <1>2, <2>1, <2>2 DEF TypeOK, Store
  <2>4. Frame(c) /\ Stores(c) /\ Takes(c) /\ Reads(c)
    BY <1>1, <2>1, <2>2 DEF Frame, Stores, Takes, Took, Reads, TypeOK, Over
  <2>5. Bucket(c)' = Bucket(c) BY <1>1 DEF Bucket
  <2>6. CallInv(c)'
    BY <1>1, <2>1, <2>2, <2>5 DEF CallInv, TypeOK, Uploading, Compiling, Asking, Returned
  <2>7. LockInv' BY <1>1, <2>1 DEF LockInv
  <2> QED BY <1>1, <2>1, <2>2, <2>3, <2>4, <2>6, <2>7, StepOfCall
<1> QED BY <1>3, <1>4, <1>5, <1>6, <1>7 DEF StorageCall, LateStore, StorageStep

\* The step of a compilation.
LEMMA DocumentsPreserve ==
  ASSUME GatewayInv, NEW c \in Calls, DocumentCall(c)
  PROVE  GatewayInv'
<1> USE DEF GatewayInv, priceVars, storageVars, Goto
<1>1. /\ CallInv(c) /\ kind' = kind /\ before' = before /\ file' = file /\ gone' = gone
      /\ UNCHANGED <<buckets, objects, delayed, met, vacant, status>>
      /\ UNCHANGED <<source, strategies, readers, waiting, writer>>
  BY DEF DocumentCall, DocumentStep, FilesCreate, FilesCreateFails, BatchUpdate, BatchUpdateFails,
         ShareWithUser
<1>2. CASE FilesCreate(c) \/ FilesCreateFails(c)
  <2>1. /\ step[c] = "stream" /\ UNCHANGED <<filled, shared>>
        /\ \/ step' = [step EXCEPT ![c] = "failed"] /\ template' = template
           \/ /\ step' \in {[step EXCEPT ![c] = s] : s \in {"failed", "replace", "share"}}
              /\ step'[c] = "share" => c \in vacant
              /\ template' = [template EXCEPT ![c] = objects[Template]]
    BY <1>2 DEF FilesCreate, FilesCreateFails, MakeOf, AfterCreation, TypeOK
  <2>2. objects[Template] \in Calls /\ Nothing \notin Calls
    BY <1>1, <2>1, DocumentsAssumption, StorageAssumption DEF CallInv, TypeOK
  <2>3. TypeOK' BY <1>1, <2>1, <2>2 DEF TypeOK, Returned
  <2>4. /\ Frame(c) /\ Stores(c) /\ Takes(c) /\ Reads(c)
        /\ template'[c] # template[c] => step[c] = "stream"
    BY <1>1, <2>1 DEF Frame, Stores, Takes, Took, Reads, TypeOK, Over
  <2>5. CallInv(c)'
    BY <1>1, <2>1, <2>2 DEF CallInv, TypeOK, Uploading, Compiling, Asking, Returned
  <2>6. LockInv' BY <1>1, <2>1, LockUntouched DEF TypeOK
  <2> QED BY <1>1, <2>3, <2>4, <2>5, <2>6, StepOfCall
<1>3. CASE BatchUpdate(c) \/ BatchUpdateFails(c)
  <2>1. /\ step[c] = "replace" /\ UNCHANGED <<template, shared>>
        /\ \/ step' = [step EXCEPT ![c] = "share"] /\ filled' = filled \cup {c}
           \/ /\ step' = [step EXCEPT ![c] = "failed"]
              /\ filled' \in {filled, filled \cup {c}}
    BY <1>3 DEF BatchUpdate, BatchUpdateFails
  <2>2. TypeOK' BY <1>1, <2>1 DEF TypeOK, Returned
  <2>3. Frame(c) /\ Stores(c) /\ Takes(c) /\ Reads(c)
    BY <1>1, <2>1 DEF Frame, Stores, Takes, Took, Reads, TypeOK, Over
  <2>4. CallInv(c)' BY <1>1, <2>1 DEF CallInv, TypeOK, Uploading, Compiling, Asking, Returned
  <2>5. LockInv' BY <1>1, <2>1, LockUntouched DEF TypeOK
  <2> QED BY <1>1, <2>1, <2>2, <2>3, <2>4, <2>5, StepOfCall
<1>4. CASE ShareWithUser(c)
  <2>1. /\ step[c] = "share" /\ UNCHANGED <<template, filled>>
        /\ \/ step' = [step EXCEPT ![c] = "done"] /\ shared' = shared \cup {c}
           \/ /\ step' = [step EXCEPT ![c] = "unshared"]
              /\ shared' \in {shared, shared \cup {c}}
    BY <1>4 DEF ShareWithUser
  <2>2. TypeOK' BY <1>1, <2>1 DEF TypeOK, Returned
  <2>3. Frame(c) /\ Stores(c) /\ Takes(c) /\ Reads(c)
    BY <1>1, <2>1 DEF Frame, Stores, Takes, Took, Reads, TypeOK, Over
  <2>4. CallInv(c)' BY <1>1, <2>1 DEF CallInv, TypeOK, Uploading, Compiling, Asking, Returned
  <2>5. LockInv' BY <1>1, <2>1, LockUntouched DEF TypeOK
  <2> QED BY <1>1, <2>1, <2>2, <2>3, <2>4, <2>5, StepOfCall
<1> QED BY <1>2, <1>3, <1>4 DEF DocumentCall, DocumentStep

\* The step of a call about prices: RLock, the look-up and the call of the
\* strategy; Lock and the registration.
LEMMA PricesPreserve ==
  ASSUME GatewayInv, NEW c \in Calls, PriceCall(c) \/ StrategyCall(c) \/ AddCall(c)
  PROVE  GatewayInv'
<1> USE DEF GatewayInv, others, docVars, storageVars, Price!Goto, Price!Answer
<1>1. /\ CallInv(c) /\ kind' = kind /\ before' = before /\ file' = file /\ gone' = gone
      /\ UNCHANGED <<buckets, objects, delayed, met, vacant, template, filled, shared, source>>
  BY DEF PriceCall, StrategyCall, AddCall, Price!RLock, Price!LookUp, Price!Ask, Price!Lock,
         Price!Register
<1>2. CASE Price!RLock(c)
  <2>1. /\ step[c] = "rlock" /\ step' = [step EXCEPT ![c] = "lookup"]
        /\ writer = Nothing /\ readers' = readers \cup {c}
        /\ UNCHANGED <<status, strategies, writer, waiting>>
    BY <1>2 DEF Price!RLock
  <2>2. TypeOK' BY <1>1, <2>1 DEF TypeOK
  <2>3. Frame(c) /\ Stores(c) /\ Takes(c) /\ Reads(c)
    BY <1>1, <2>1 DEF Frame, Stores, Takes, Took, Reads, TypeOK, Over
  <2>4. CallInv(c)' BY <1>1, <2>1 DEF CallInv, TypeOK, Uploading, Compiling, Asking, Returned
  <2>5. LockInv' BY <2>1 DEF LockInv, TypeOK
  <2> QED BY <1>1, <2>2, <2>3, <2>4, <2>5, StepOfCall
<1>3. CASE Price!LookUp(c)
  <2>1. /\ step[c] = "lookup" /\ readers' = readers \ {c}
        /\ \/ step' = [step EXCEPT ![c] = "ask"] /\ status' = status
           \/ step' = [step EXCEPT ![c] = "answered"] /\ status' = [status EXCEPT ![c] = 404]
        /\ UNCHANGED <<strategies, writer, waiting>>
    BY <1>3 DEF Price!LookUp
  <2>2. TypeOK' BY <1>1, <2>1 DEF TypeOK
  <2>3. Frame(c) /\ Stores(c) /\ Takes(c) /\ Reads(c)
    BY <1>1, <2>1 DEF Frame, Stores, Takes, Took, Reads, TypeOK, Over
  <2>4. CallInv(c)' BY <1>1, <2>1 DEF CallInv, TypeOK, Uploading, Compiling, Asking, Returned
  <2>5. LockInv' BY <2>1 DEF LockInv, TypeOK
  <2> QED BY <1>1, <2>2, <2>3, <2>4, <2>5, StepOfCall
<1>4. CASE Price!Ask(c)
  <2>1. /\ step[c] = "ask" /\ step' = [step EXCEPT ![c] = "answered"]
        /\ \/ status' = [status EXCEPT ![c] = 200] \/ status' = [status EXCEPT ![c] = 404]
           \/ status' = [status EXCEPT ![c] = 500]
        /\ UNCHANGED <<strategies, readers, writer, waiting>>
    <3>1. PICK found \in Price!Found(source[c]) :
            /\ status' = [status EXCEPT ![c] = found[2]]
            /\ step' = [step EXCEPT ![c] = "answered"]
      BY <1>4 DEF Price!Ask
    <3>2. source[c] \in {"postgres", "excel", "erp"} BY GatewayAssumption DEF TypeOK
    <3>3. found[2] \in {200, 404, 500}
      BY <3>2 DEF Price!Found, Price!PostgresPrice, Price!ExcelPrice, Price!ERPPrice
    <3>4. \/ status' = [status EXCEPT ![c] = 200] \/ status' = [status EXCEPT ![c] = 404]
          \/ status' = [status EXCEPT ![c] = 500]
      BY <3>1, <3>3
    <3>5. step[c] = "ask" /\ UNCHANGED <<strategies, readers, writer, waiting>>
      BY <1>4 DEF Price!Ask
    <3> QED BY <3>1, <3>4, <3>5
  <2>2. file[c] = Nothing /\ Nothing \notin Files /\ kind[c] = "price"
    BY <1>1, <2>1, StorageAssumption DEF CallInv, Asking
  <2>3. TypeOK' BY <1>1, <2>1 DEF TypeOK
  <2>4. Frame(c) /\ Stores(c) /\ Takes(c) /\ Reads(c)
    BY <1>1, <2>1, <2>2 DEF Frame, Stores, Takes, Took, Reads, TypeOK, Over
  <2>5. CallInv(c)'
    BY <1>1, <2>1, <2>2 DEF CallInv, TypeOK, Uploading, Compiling, Asking, Returned
  <2>6. LockInv' BY <2>1, LockUntouched DEF TypeOK
  <2> QED BY <1>1, <2>3, <2>4, <2>5, <2>6, StepOfCall
<1>5. CASE Price!Lock(c) \/ Price!Register(c)
  <2>1. /\ status' = status /\ readers' = readers
        /\ \/ /\ step[c] = "lock" /\ step' = [step EXCEPT ![c] = "register"]
              /\ writer = Nothing /\ readers = {} /\ writer' = c /\ waiting' = waiting \ {c}
              /\ strategies' = strategies
           \/ /\ step[c] = "register" /\ step' = [step EXCEPT ![c] = "registered"]
              /\ writer' = Nothing /\ waiting' = waiting
              /\ strategies' = strategies \cup {source[c]}
    BY <1>5 DEF Price!Lock, Price!Register
  <2>2. TypeOK'
    <3>1. strategies' \subseteq Sources BY <1>1, <2>1 DEF CallInv, TypeOK
    <3> QED BY <1>1, <2>1, <3>1 DEF TypeOK
  <2>3. Frame(c) /\ Stores(c) /\ Takes(c) /\ Reads(c)
    BY <1>1, <2>1 DEF Frame, Stores, Takes, Took, Reads, TypeOK, Over
  <2>4. CallInv(c)' BY <1>1, <2>1 DEF CallInv, TypeOK, Uploading, Compiling, Asking, Returned
  <2>5. LockInv' BY <2>1, StorageAssumption DEF LockInv, TypeOK
  <2> QED BY <1>1, <2>2, <2>3, <2>4, <2>5, StepOfCall
<1> QED BY <1>2, <1>3, <1>4, <1>5 DEF PriceCall, StrategyCall, AddCall

\* A handler answers, or a client leaves.
LEMMA AnswersPreserve ==
  ASSUME GatewayInv, NEW c \in Calls, Respond(c) \/ Cancel(c)
  PROVE  GatewayInv'
<1> USE DEF GatewayInv, docVars, storageVars, priceVars, Price!Goto, Price!Answer
<1>1. /\ CallInv(c) /\ kind' = kind /\ before' = before /\ file' = file
      /\ UNCHANGED <<buckets, objects, delayed, met, vacant, template, filled, shared>>
      /\ UNCHANGED <<source, strategies, readers, writer, waiting>>
  BY DEF Respond, Cancel
<1>2. CASE Respond(c)
  <2>1. /\ gone' = gone /\ step' = [step EXCEPT ![c] = "answered"]
        /\ \/ step[c] = "stored" /\ status' = [status EXCEPT ![c] = 200]
           \/ step[c] = "error" /\ status' = [status EXCEPT ![c] = 500]
    BY <1>2 DEF Respond
  <2>2. TypeOK' BY <1>1, <2>1 DEF TypeOK
  <2>3. Frame(c) /\ Stores(c) /\ Takes(c) /\ Reads(c)
    BY <1>1, <2>1 DEF Frame, Stores, Takes, Took, Reads, TypeOK, Over
  <2>4. CallInv(c)' BY <1>1, <2>1 DEF CallInv, TypeOK, Uploading, Compiling, Asking, Returned
  <2>5. LockInv' BY <1>1, <2>1, LockUntouched DEF TypeOK
  <2> QED BY <1>1, <2>2, <2>3, <2>4, <2>5, StepOfCall
<1>3. CASE Cancel(c)
  <2>1. step' = step /\ status' = status /\ gone' = gone \cup {c} BY <1>3 DEF Cancel
  <2>2. TypeOK' BY <1>1, <2>1 DEF TypeOK
  <2>3. Frame(c) /\ Stores(c) /\ Takes(c) /\ Reads(c)
    BY <1>1, <1>3, <2>1 DEF Cancel, Frame, Stores, Takes, Took, Reads, Over
  <2>4. CallInv(c)' BY <1>1, <2>1 DEF CallInv, Bucket
  <2>5. LockInv' BY <1>1, <2>1 DEF LockInv
  <2> QED BY <1>1, <2>2, <2>3, <2>4, <2>5, StepOfCall
<1> QED BY <1>2, <1>3

\* Every step preserves the invariant.
LEMMA GatewayPreserved == GatewayInv /\ [Next]_vars => GatewayInv'
<1> SUFFICES ASSUME GatewayInv, [Next]_vars PROVE GatewayInv' OBVIOUS
<1>1. CASE UNCHANGED vars
  <2> USE <1>1 DEF vars, calls, storageVars, docVars, priceVars, GatewayInv
  <2>1. TypeOK' BY DEF TypeOK
  <2>2. \A c \in Calls : CallInv(c)' BY DEF CallInv, Bucket
  <2>3. BeforeIsOver' /\ TookEffect'
    BY DEF BeforeIsOver, TookEffect, Took, Precedes
  <2>4. DocumentsUseCurrentTemplate' BY DEF DocumentsUseCurrentTemplate, Stored, Precedes
  <2>5. LockInv' BY DEF LockInv
  <2> QED BY <2>1, <2>2, <2>3, <2>4, <2>5
<1>2. CASE Next
  BY <1>2, BeginPreserves, StoragePreserves, DocumentsPreserve, PricesPreserve, AnswersPreserve
  DEF Next
<1> QED BY <1>1, <1>2

\* GatewayInv holds in every reachable state of every instance.
THEOREM GatewayInvariant == Spec => []GatewayInv
BY GatewayInitial, GatewayPreserved, PTL DEF Spec

\* Every variable keeps its type, and whoever holds the lock for writing holds
\* it alone.
THEOREM GatewayTypeCorrect == Spec => []TypeOK
<1>1. GatewayInv => TypeOK BY DEF GatewayInv
<1> QED BY <1>1, GatewayInvariant, PTL

\* No upload is answered 500 because another one created the bucket first.
THEOREM UploadFailuresHaveCauses == Spec => []UploadsFailWithCause
<1>1. GatewayInv => UploadsFailWithCause BY DEF GatewayInv, CallInv, UploadsFailWithCause
<1> QED BY <1>1, GatewayInvariant, PTL

\* The file of an upload that was answered 200 is there, and is never again
\* the one of a success before it.
THEOREM UploadsNeverGoBack == Spec => []UploadsTakeEffectInOrder
<1>1. GatewayInv => UploadsTakeEffectInOrder
  <2> SUFFICES ASSUME GatewayInv, NEW f \in Files, NEW u \in Calls, file[u] = f, status[u] = 200
               PROVE  objects[f] # Nothing /\ ~ Precedes(objects[f], u)
    BY DEF UploadsTakeEffectInOrder, Stored
  <2>1. Took(u) /\ file[u] \in Files BY DEF Took
  <2> QED BY <2>1 DEF GatewayInv, TookEffect
<1> QED BY <1>1, GatewayInvariant, PTL

\* No document is made of a template that had been replaced before its
\* compilation began.
THEOREM DocumentsNeverStale == Spec => []DocumentsUseCurrentTemplate
<1>1. GatewayInv => DocumentsUseCurrentTemplate BY DEF GatewayInv
<1> QED BY <1>1, GatewayInvariant, PTL

\* No URL of a document that is missing, or that still shows placeholders, is
\* returned.
THEOREM DocumentsReadyWhenReturned == Spec => []ReturnedDocumentsAreReady
<1>1. GatewayInv => ReturnedDocumentsAreReady
  BY DEF GatewayInv, CallInv, ReturnedDocumentsAreReady
<1> QED BY <1>1, GatewayInvariant, PTL

\* The map of the strategies is never written while another call reads or
\* writes it, which ends a Go program.
MapIsGuarded ==
  \A c, d \in Calls :
    step[c] = "register" => step[d] # "lookup" /\ (step[d] = "register" => c = d)

\* The lock of PricingService guards every access to its map.
THEOREM StrategiesGuarded == Spec => []MapIsGuarded
<1>1. GatewayInv => MapIsGuarded
  BY StorageAssumption DEF GatewayInv, TypeOK, LockInv, MapIsGuarded
<1> QED BY <1>1, GatewayInvariant, PTL
=============================================================================
