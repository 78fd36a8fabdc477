------------------------------- MODULE Gateway -------------------------------
(***************************************************************************)
(* The HTTP handlers of the API process, behind the routing and the key:   *)
(* the uploads of a tender document, of the mercuriale and of the template *)
(* (internal/adapters/handlers), with the storage they write to, the       *)
(* generation of documents that reads the template, and the prices.  The   *)
(* upload of an archive is in module Archive.                              *)
(***************************************************************************)
EXTENDS Documents

CONSTANTS
  Mercuriale,  \* the file mercuriale_current.xlsx
  Sources,     \* names of pricing strategies
  Workloads    \* which calls there may be: functions from Calls to Kinds

Requests == {"tender", "mercuriale", "template", "price"}
Kinds == Requests \cup {"compile", "register"}

\* cancel: the client leaves; disk: a file of the form cannot be read.
ASSUME GatewayAssumption ==
  /\ Mercuriale \in Files
  /\ Sources \subseteq {"postgres", "excel", "erp"}
  /\ Workloads \subseteq [Calls -> Kinds]

VARIABLES
  kind,    \* kind[c]: what call c is for
  status, source, strategies, readers, writer, waiting,  \* see module Pricing
  before   \* history: before[c], the calls that were answered when c began

Price == INSTANCE Pricing

calls == <<step, file, gone>>
priceVars == <<source, strategies, readers, writer, waiting>>
vars == <<calls, storageVars, docVars, status, priceVars, kind, before>>

\* Names under which HandleUpload stores, in the bucket dce-entrants.
Tenders == Files \ {Mercuriale, Template}

GatewayInit ==
  /\ StorageInit /\ DocumentsInit /\ Price!PricingInit
  /\ kind \in Workloads
  /\ status = [c \in Calls |-> 0]
  /\ before = [c \in Calls |-> {}]

Begin(c, k) ==
  /\ kind[c] = k
  /\ before' = [before EXCEPT ![c] = {d \in Calls : step[d] = "answered"}]
  /\ UNCHANGED kind

\* The form, the field and the name of the file are right, and Upload is called.
StartUpload(c, files) ==
  /\ step[c] = "idle"
  /\ \E f \in files : file' = [file EXCEPT ![c] = f]
  /\ Goto(c, "make")
  /\ UNCHANGED <<gone, storageVars, docVars, status, priceVars>>

HandleUpload(c) == Begin(c, "tender") /\ StartUpload(c, Tenders)
UploadMercuriale(c) == Begin(c, "mercuriale") /\ StartUpload(c, {Mercuriale})
UploadTemplateDocx(c) == Begin(c, "template") /\ StartUpload(c, {Template})

\* HandleUpload reads the first bytes itself, for the type of the content.
ReadFails(c) ==
  /\ step[c] = "idle" /\ "disk" \in Faults
  /\ Begin(c, "tender")
  /\ \E f \in Tenders : file' = [file EXCEPT ![c] = f]
  /\ Meet(c)
  /\ Price!Answer(c, 500)
  /\ UNCHANGED <<gone, buckets, objects, delayed, docVars, priceVars>>

\* The form is refused, or the query of a price has no source or no code.
Refuse(c) ==
  /\ step[c] = "idle"
  /\ \E k \in Requests : Begin(c, k)
  /\ Price!Answer(c, 400)
  /\ UNCHANGED <<file, gone, storageVars, docVars, priceVars>>

\* Upload returns to the handler.
Respond(c) ==
  /\ \/ step[c] = "stored" /\ Price!Answer(c, 200)
     \/ step[c] = "error" /\ Price!Answer(c, 500)
  /\ UNCHANGED <<file, gone, storageVars, docVars, priceVars, kind, before>>

\* The context of a call is done when its client leaves.
Cancel(c) ==
  /\ "cancel" \in Faults
  /\ kind[c] # "register"
  /\ step[c] \notin {"idle", "answered"} \cup Returned
  /\ gone' = gone \cup {c}
  /\ UNCHANGED <<step, file, storageVars, docVars, status, priceVars, kind, before>>

StorageCall(c) == StorageStep(c) /\ UNCHANGED <<docVars, status, priceVars, kind, before>>
LateStore(c) == StoreDelayed(c) /\ UNCHANGED <<docVars, status, priceVars, kind, before>>

Compile(c) ==
  Begin(c, "compile") /\ CompileTechnicalMemory(c) /\ UNCHANGED <<status, priceVars>>
DocumentCall(c) == DocumentStep(c) /\ UNCHANGED <<status, priceVars, kind, before>>

others == <<file, storageVars, docVars>>
AskPrice(c) == Begin(c, "price") /\ Price!HandlePrice(c) /\ UNCHANGED others
AddStrategy(c) == Begin(c, "register") /\ Price!RegisterStrategy(c) /\ UNCHANGED others
PriceCall(c) == (Price!RLock(c) \/ Price!LookUp(c)) /\ UNCHANGED <<others, kind, before>>
StrategyCall(c) == Price!Ask(c) /\ UNCHANGED <<others, kind, before>>
AddCall(c) == (Price!Lock(c) \/ Price!Register(c)) /\ UNCHANGED <<others, kind, before>>

Next == \E c \in Calls :
  \/ HandleUpload(c) \/ UploadMercuriale(c) \/ UploadTemplateDocx(c)
  \/ ReadFails(c) \/ Refuse(c) \/ Respond(c) \/ Cancel(c)
  \/ StorageCall(c) \/ LateStore(c)
  \/ Compile(c) \/ DocumentCall(c)
  \/ AskPrice(c) \/ PriceCall(c) \/ StrategyCall(c)
  \/ AddStrategy(c) \/ AddCall(c)

Spec == GatewayInit /\ [][Next]_vars
=============================================================================
