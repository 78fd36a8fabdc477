------------------------------- MODULE Pricing -------------------------------
(***************************************************************************)
(* The prices: PricingService (internal/core/services/pricing_service.go), *)
(* whose map of strategies is behind a sync.RWMutex, the three strategies  *)
(* (internal/adapters/repositories/pricing_*.go), and the status that      *)
(* HandlePrice (handlers/gateway.go) makes of what they return.            *)
(***************************************************************************)
EXTENDS Integers

CONSTANTS
  Calls,    \* calls of GetPrice and RegisterStrategy
  Sources,  \* names of strategies, a subset of {"postgres", "excel", "erp"}
  Nothing   \* nobody holds the lock

VARIABLES
  step,        \* step[c]: what call c does next
  status,      \* status[c]: HTTP status of the answer, 0 as long as there is none
  gone,        \* calls whose context is done
  source,      \* source[c]: the strategy it is about
  strategies,  \* names of the strategies that are registered
  readers,     \* calls that hold the lock for reading
  writer,      \* the call that holds it for writing, or Nothing
  waiting      \* calls that wait to hold it for writing

PricingInit ==
  /\ source = [c \in Calls |-> "postgres"]
  /\ strategies = {}
  /\ readers = {}
  /\ writer = Nothing
  /\ waiting = {}

Goto(c, s) == step' = [step EXCEPT ![c] = s]
Answer(c, code) == status' = [status EXCEPT ![c] = code] /\ Goto(c, "answered")

\* What a strategy may find, and the status HandlePrice looks up in the text
\* of the error: 404 where it contains "not found".  Only PostgreSQL says so
\* of an article it does not know, and an ERP may say so of anything, since
\* its error carries the body of the response.
PostgresPrice == {<<"price", 200>>, <<"unknown", 404>>, <<"failure", 500>>}
ExcelPrice == {<<"price", 200>>, <<"unknown", 500>>, <<"failure", 500>>}
ERPPrice == {<<"price", 200>>} \cup {"unknown", "failure"} \X {404, 500}
Found(s) ==
  CASE s = "postgres" -> PostgresPrice [] s = "excel" -> ExcelPrice [] s = "erp" -> ERPPrice

-----------------------------------------------------------------------------
HandlePrice(c) ==
  /\ step[c] = "idle"
  /\ \E s \in Sources : source' = [source EXCEPT ![c] = s]
  /\ Goto(c, "rlock")
  /\ UNCHANGED <<status, gone, strategies, readers, writer, waiting>>

\* Mutation: a lock of its own for those who read.
RLockUnguarded(c) ==
  /\ step[c] = "rlock"
  /\ readers' = readers \cup {c}
  /\ Goto(c, "lookup")
  /\ UNCHANGED <<status, gone, source, strategies, writer, waiting>>

\* RLock: a reader waits for the writer, and for any that waits: sync.RWMutex
\* lets it pass between two writers, as if the second had come later.
RLock(c) ==
  /\ step[c] = "rlock"
  /\ writer = Nothing /\ waiting = {}
  /\ readers' = readers \cup {c}
  /\ Goto(c, "lookup")
  /\ UNCHANGED <<status, gone, source, strategies, writer, waiting>>

\* Mutation: no RUnlock where the strategy is found.
LookUpHoldingLock(c) ==
  /\ step[c] = "lookup"
  /\ IF source[c] \in strategies THEN Goto(c, "ask") /\ UNCHANGED <<status, readers>>
                                 ELSE Answer(c, 404) /\ readers' = readers \ {c}
  /\ UNCHANGED <<gone, source, strategies, writer, waiting>>

\* The map is read, and RUnlock; a strategy that is not configured is a 404.
LookUp(c) ==
  /\ step[c] = "lookup"
  /\ readers' = readers \ {c}
  /\ IF source[c] \in strategies THEN Goto(c, "ask") /\ UNCHANGED status
                                 ELSE Answer(c, 404)
  /\ UNCHANGED <<gone, source, strategies, writer, waiting>>

\* GetPrice of the strategy, with what HandlePrice answers; when the context
\* is done it is an error.
Ask(c) ==
  /\ step[c] = "ask"
  /\ \E found \in Found(source[c]) : (c \in gone => found[1] = "failure") /\ Answer(c, found[2])
  /\ UNCHANGED <<gone, source, strategies, readers, writer, waiting>>

-----------------------------------------------------------------------------
\* RegisterStrategy, which calls Lock.  A nil strategy is refused before that,
\* with no effect.
RegisterStrategy(c) ==
  /\ step[c] = "idle"
  /\ \E s \in Sources : source' = [source EXCEPT ![c] = s]
  /\ waiting' = waiting \cup {c}
  /\ Goto(c, "lock")
  /\ UNCHANGED <<status, gone, strategies, readers, writer>>

Lock(c) ==
  /\ step[c] = "lock"
  /\ writer = Nothing /\ readers = {}
  /\ writer' = c
  /\ waiting' = waiting \ {c}
  /\ Goto(c, "register")
  /\ UNCHANGED <<status, gone, source, strategies, readers>>

\* The map is written, and the deferred Unlock.
Register(c) ==
  /\ step[c] = "register"
  /\ strategies' = strategies \cup {source[c]}
  /\ writer' = Nothing
  /\ Goto(c, "registered")
  /\ UNCHANGED <<status, gone, source, readers, waiting>>
=============================================================================
