---------------------------- MODULE RoutingProps ----------------------------
(***************************************************************************)
(* What the documentation says of the routes.                              *)
(***************************************************************************)
EXTENDS Routing

api(p) == <<"api", "v1">> \o p

\* README.md:97-102, and what each route is documented to do.
Documented == {
  [method |-> "GET", path |-> <<"health">>, handler |-> "health"],
  [method |-> "POST", path |-> api(<<"upload">>), handler |-> "HandleUpload"],
  [method |-> "GET", path |-> api(<<"price">>), handler |-> "HandlePrice"],
  [method |-> "POST", path |-> api(<<"ingest", "archive">>), handler |-> "UploadArchiveZip"],
  [method |-> "POST", path |-> api(<<"ingest", "mercuriale">>), handler |-> "UploadMercuriale"],
  [method |-> "POST", path |-> api(<<"ingest", "template">>), handler |-> "UploadTemplateDocx"]}

\* "POST /api/v1/upload: Upload a DCE document" (README.md:98) and its
\* neighbours: a request for a documented route that carries the key
\* (README.md:93) is answered by the handler of that route.
DocumentedRoutesAreServed ==
  \A q \in Requests : \A d \in Documented :
    /\ at[q] = "answered"
    /\ q.method = d.method /\ q.path = d.path
    /\ secret # NoKey /\ q.key = secret
    => answer[q] = d.handler

-----------------------------------------------------------------------------
\* One request for every documented route, with the key and without.
MCRequests ==
  {[method |-> d.method, path |-> d.path, key |-> k] : d \in Documented, k \in {"secret", NoKey}}
=============================================================================
