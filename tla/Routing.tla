------------------------------- MODULE Routing -------------------------------
(***************************************************************************)
(* How a request finds its handler: the outer mux of main                  *)
(* (cmd/kliops-api/main.go), the check of the key (handlers/middleware.go) *)
(* and the inner mux.  http.ServeMux is modelled by what these patterns    *)
(* ask of it.  A path is the sequence of its segments; those that a mux    *)
(* answers with a redirect to a cleaner path are left out.                 *)
(***************************************************************************)
EXTENDS SequencesExt

CONSTANTS
  Requests,  \* requests: [method, path, key]
  Secrets    \* values that API_KEY_SECRET may have

\* The variable is not set, or the header is not.
NoKey == "no key"

VARIABLES
  secret,    \* API_KEY_SECRET
  at,        \* at[q]: where request q is: client, mux, key, apiMux or answered
  answer     \* answer[q]: a status, or the handler that is called

vars == <<secret, at, answer>>

\* Patterns: a method and a path, or a path and everything below it.
Exact(m, p, h) == [method |-> m, path |-> p, below |-> FALSE, handler |-> h]
Below(p, h) == [method |-> "any", path |-> p, below |-> TRUE, handler |-> h]

mux == {Exact("GET", <<"health">>, "health"), Below(<<"api", "v1">>, "APIKeyMiddleware")}

apiMux == {
  Exact("POST", <<"upload">>, "HandleUpload"),
  Exact("GET", <<"price">>, "HandlePrice"),
  Exact("POST", <<"ingest", "archive">>, "UploadArchiveZip"),
  Exact("POST", <<"ingest", "mercuriale">>, "UploadMercuriale"),
  Exact("POST", <<"ingest", "template">>, "UploadTemplateDocx")}

OnPath(t, q) == IF t.below THEN IsPrefix(t.path, q.path) ELSE t.path = q.path
Matches(t, q) ==
  /\ OnPath(t, q)
  /\ \/ t.method \in {"any", q.method}
     \/ t.method = "GET" /\ q.method = "HEAD"

Init ==
  /\ secret \in Secrets
  /\ at = [q \in Requests |-> "client"]
  /\ answer = [q \in Requests |-> "none"]

Goto(q, s) == at' = [at EXCEPT ![q] = s]
Answer(q, a) == answer' = [answer EXCEPT ![q] = a] /\ Goto(q, "answered")

\* ServeHTTP of a mux that no pattern takes the request from.
NotFound(patterns, q) ==
  Answer(q, IF \E t \in patterns : OnPath(t, q) THEN "405" ELSE "404")

Send(q) ==
  /\ at[q] = "client"
  /\ Goto(q, "mux")
  /\ UNCHANGED <<secret, answer>>

ServeMux(q) ==
  /\ at[q] = "mux"
  /\ \/ \E t \in mux : Matches(t, q) /\ (IF t.below THEN Goto(q, "key") /\ UNCHANGED answer
                                                    ELSE Answer(q, t.handler))
     \/ (\A t \in mux : ~Matches(t, q)) /\ NotFound(mux, q)
  /\ UNCHANGED secret

APIKeyMiddleware(q) ==
  /\ at[q] = "key"
  /\ \/ secret = NoKey /\ Answer(q, "500")
     \/ secret # NoKey /\ q.key # secret /\ Answer(q, "401")
     \/ secret # NoKey /\ q.key = secret /\ Goto(q, "apiMux") /\ UNCHANGED answer
  /\ UNCHANGED secret

\* The path is still the whole one: mux.Handle strips nothing from it.
ServeApiMux(q) ==
  /\ at[q] = "apiMux"
  /\ \/ \E t \in apiMux : Matches(t, q) /\ Answer(q, t.handler)
     \/ (\A t \in apiMux : ~Matches(t, q)) /\ NotFound(apiMux, q)
  /\ UNCHANGED secret

Next == \E q \in Requests :
  Send(q) \/ ServeMux(q) \/ APIKeyMiddleware(q) \/ ServeApiMux(q)

Spec == Init /\ [][Next]_vars
=============================================================================
