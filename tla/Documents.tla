------------------------------ MODULE Documents ------------------------------
(***************************************************************************)
(* The generation of a technical memorandum: CompileTechnicalMemory        *)
(* (internal/core/services/document_service.go) and the WorkspaceAdapter   *)
(* (internal/adapters/google_workspace) it calls.  Google Drive and Docs   *)
(* are modelled from these calls.  A call creates at most one document,    *)
(* which is named by the call.                                             *)
(***************************************************************************)
EXTENDS Storage

CONSTANT Template  \* the file template_charte.docx

\* google: a call to Google fails without effect; lateGoogle: it takes effect
\* and reports an error.
ASSUME DocumentsAssumption == Template \in Files

VARIABLES
  vacant,    \* calls that have no variables to replace
  template,  \* template[c]: version of the template that document c was made of
  filled,    \* documents whose placeholders are replaced
  shared     \* documents shared with the user

docVars == <<vacant, template, filled, shared>>

\* done: nil is returned; unshared: the URL and an error; failed: an error.
Returned == {"done", "unshared", "failed"}

DocumentsInit ==
  /\ vacant = {}
  /\ template = [c \in Calls |-> Nothing]
  /\ filled = {}
  /\ shared = {}

CompileTechnicalMemory(c) ==
  /\ step[c] = "idle"
  /\ vacant' \in {vacant, vacant \cup {c}}
  /\ file' = [file EXCEPT ![c] = Template]
  /\ Goto(c, "stat")
  /\ UNCHANGED <<gone, template, filled, shared, storageVars>>

MakeOf(c, version) == template' = [template EXCEPT ![c] = version]
AfterCreation(c) == Goto(c, IF c \in vacant THEN "share" ELSE "replace")

\* Mutation: a template is downloaded once and kept.
FilesCreateOfKept(c) ==
  /\ step[c] = "stream"
  /\ Live(c)
  /\ \E u \in Calls : file[u] = Template /\ step[u] = "answered" /\ MakeOf(c, u)
  /\ AfterCreation(c)
  /\ UNCHANGED <<file, gone, vacant, filled, shared, storageVars>>

\* Files.Create reads the stream and converts it into a document.
FilesCreate(c) ==
  /\ step[c] = "stream"
  /\ Live(c)
  /\ MakeOf(c, objects[Template])
  /\ AfterCreation(c)
  /\ UNCHANGED <<file, gone, vacant, filled, shared, storageVars>>

\* The failures include that of a stream whose object was replaced after Stat.
FilesCreateFails(c) ==
  /\ step[c] = "stream"
  /\ \/ Fails(c, "google") /\ UNCHANGED template
     \/ Fails(c, "lateGoogle") /\ MakeOf(c, objects[Template])
  /\ Goto(c, "failed")
  /\ UNCHANGED <<file, gone, vacant, filled, shared, storageVars>>

\* BatchUpdate replaces every placeholder, or none.
BatchUpdate(c) ==
  /\ step[c] = "replace"
  /\ Live(c)
  /\ filled' = filled \cup {c}
  /\ Goto(c, "share")
  /\ UNCHANGED <<file, gone, vacant, template, shared, storageVars>>

\* Mutation: the error of BatchUpdate is logged.
BatchUpdateFailsSilently(c) ==
  /\ step[c] = "replace"
  /\ Fails(c, "google")
  /\ Goto(c, "share")
  /\ UNCHANGED <<file, gone, vacant, template, filled, shared, storageVars>>

\* The document stays, and its URL is not returned.
BatchUpdateFails(c) ==
  /\ step[c] = "replace"
  /\ \/ Fails(c, "google") /\ UNCHANGED filled
     \/ Fails(c, "lateGoogle") /\ filled' = filled \cup {c}
  /\ Goto(c, "failed")
  /\ UNCHANGED <<file, gone, vacant, template, shared, storageVars>>

ShareWithUser(c) ==
  /\ step[c] = "share"
  /\ \/ Live(c) /\ shared' = shared \cup {c} /\ Goto(c, "done")
     \/ Fails(c, "google") /\ UNCHANGED shared /\ Goto(c, "unshared")
     \/ Fails(c, "lateGoogle") /\ shared' = shared \cup {c} /\ Goto(c, "unshared")
  /\ UNCHANGED <<file, gone, vacant, template, filled, storageVars>>

DocumentStep(c) ==
  \/ FilesCreate(c) \/ FilesCreateFails(c)
  \/ BatchUpdate(c) \/ BatchUpdateFails(c) \/ ShareWithUser(c)
=============================================================================
