------------------------------- MODULE Server -------------------------------
(***************************************************************************)
(* The life of the API processes (cmd/kliops-api/main.go): what each one   *)
(* opens, how NewRabbitMQAdapter declares the queues that all of them      *)
(* share (internal/adapters/queue/rabbitmq.go), when requests are served   *)
(* and how the process ends.  A request is any call of a handler: which    *)
(* handler serves which path is left open.  net/http and the broker are    *)
(* modelled from these calls.                                              *)
(***************************************************************************)
EXTENDS Integers, Sequences, FiniteSets

CONSTANTS
  Processes,  \* API processes, each started once
  Requests,   \* requests, each of which may publish one job
  Faults      \* subset of {"config", "broker", "listen", "kill"}

ASSUME ServerAssumption == Faults \subseteq {"config", "broker", "listen", "kill"}

\* What NewRabbitMQAdapter declares, in this order.
Declarations == <<"dlq exchange", "dlq queue", "dlq binding",
                  "exchange", "queue", "binding">>
Routing == {"exchange", "queue", "binding"}
DeadLettering == {"dlq exchange", "dlq queue", "dlq binding"}

VARIABLES
  stage,     \* stage[p]: where main of process p is
  opened,    \* opened[p]: what p has opened and not closed itself
  next,      \* next[p]: the declaration p comes to
  active,    \* active[p]: requests in a handler of p
  signalled, \* processes that received SIGINT or SIGTERM
  topology,  \* what is declared at the broker; durable
  jobs,      \* jobs[r]: where the message published by r is
  ended      \* ended[r]: how request r ended

vars == <<stage, opened, next, active, signalled, topology, jobs, ended>>

Stages == {"off", "pool", "dial", "channel", "declare", "listening",
           "serving", "draining", "closing", "exited"}

Init ==
  /\ stage = [p \in Processes |-> "off"]
  /\ opened = [p \in Processes |-> {}]
  /\ next = [p \in Processes |-> 1]
  /\ active = [p \in Processes |-> {}]
  /\ signalled = {}
  /\ topology = {}
  /\ jobs = [r \in Requests |-> "none"]
  /\ ended = [r \in Requests |-> "no"]

Goto(p, s) == stage' = [stage EXCEPT ![p] = s]
Open(p, x) == opened' = [opened EXCEPT ![p] = @ \cup {x}]

\* The process ends, by log.Fatalf, by a signal or by main returning: its
\* requests are cut off, deferred calls not yet run do not run, and the
\* operating system closes what is open.
Exit(p) ==
  /\ Goto(p, "exited")
  /\ opened' = [opened EXCEPT ![p] = {}]
  /\ active' = [active EXCEPT ![p] = {}]
  /\ ended' = [r \in Requests |-> IF r \in active[p] THEN "cut" ELSE ended[r]]
  /\ UNCHANGED <<next, topology, jobs>>

-----------------------------------------------------------------------------
(* Startup. *)

Boot(p) ==
  /\ stage[p] = "off"
  /\ Goto(p, "pool")
  /\ UNCHANGED <<opened, next, active, signalled, topology, jobs, ended>>

\* The pool is opened, without a connection yet.
OpenPool(p) ==
  /\ stage[p] = "pool"
  /\ Open(p, "pool")
  /\ Goto(p, "dial")
  /\ UNCHANGED <<next, active, signalled, topology, jobs, ended>>

\* A variable is missing or invalid.
ConfigFails(p) ==
  /\ stage[p] = "pool"
  /\ "config" \in Faults
  /\ Exit(p)
  /\ UNCHANGED signalled

Dial(p) ==
  /\ stage[p] = "dial"
  /\ Open(p, "connection")
  /\ Goto(p, "channel")
  /\ UNCHANGED <<next, active, signalled, topology, jobs, ended>>

OpenChannel(p) ==
  /\ stage[p] = "channel"
  /\ Open(p, "channel")
  /\ Goto(p, "declare")
  /\ UNCHANGED <<next, active, signalled, topology, jobs, ended>>

\* Mutation: the main queue is declared first.
DeclareMainFirst(p) ==
  /\ stage[p] = "declare"
  /\ next[p] <= Len(Declarations)
  /\ topology' = topology \cup {Declarations[1 + ((next[p] + 2) % 6)]}
  /\ next' = [next EXCEPT ![p] = @ + 1]
  /\ UNCHANGED <<stage, opened, active, signalled, jobs, ended>>

\* ExchangeDeclare, QueueDeclare or QueueBind: nothing changes at the broker
\* if another process came first.
Declare(p) ==
  /\ stage[p] = "declare"
  /\ next[p] <= Len(Declarations)
  /\ topology' = topology \cup {Declarations[next[p]]}
  /\ next' = [next EXCEPT ![p] = @ + 1]
  /\ UNCHANGED <<stage, opened, active, signalled, jobs, ended>>

\* A call of NewRabbitMQAdapter fails.  It closes the channel and the
\* connection, and main ends the process.
SetupFails(p) ==
  /\ stage[p] \in {"dial", "channel", "declare"}
  /\ "broker" \in Faults
  /\ Exit(p)
  /\ UNCHANGED signalled

\* Mutation: the last binding is left out.
ServeUnbound(p) ==
  /\ stage[p] = "declare"
  /\ next[p] = Len(Declarations)
  /\ Goto(p, "listening")
  /\ UNCHANGED <<opened, next, active, signalled, topology, jobs, ended>>

\* The adapter is ready; the server listens in a goroutine of its own.
Serve(p) ==
  /\ stage[p] = "declare"
  /\ next[p] > Len(Declarations)
  /\ Goto(p, "listening")
  /\ UNCHANGED <<opened, next, active, signalled, topology, jobs, ended>>

\* signal.Notify.
Notify(p) ==
  /\ stage[p] = "listening"
  /\ Goto(p, "serving")
  /\ UNCHANGED <<opened, next, active, signalled, topology, jobs, ended>>

\* ListenAndServe fails, at once or later.
ListenFails(p) ==
  /\ stage[p] \in {"listening", "serving"}
  /\ "listen" \in Faults
  /\ Exit(p)
  /\ UNCHANGED signalled

-----------------------------------------------------------------------------
(* Requests. *)

\* A handler starts.  In the drain it may do so on a connection that was
\* accepted before.
Accept(p, r) ==
  /\ stage[p] \in {"listening", "serving", "draining"}
  /\ ended[r] = "no"
  /\ \A q \in Processes : r \notin active[q]
  /\ active' = [active EXCEPT ![p] = @ \cup {r}]
  /\ UNCHANGED <<stage, opened, next, signalled, topology, jobs, ended>>

\* PublishJob: the message is persistent and not mandatory, so that the
\* broker drops what it cannot route.
Publish(p, r) ==
  /\ r \in active[p]
  /\ jobs[r] = "none"
  /\ jobs' = [jobs EXCEPT ![r] = IF Routing \subseteq topology THEN "queued" ELSE "dropped"]
  /\ UNCHANGED <<stage, opened, next, active, signalled, topology, ended>>

\* Mutation: the handler goes on after its answer.
RespondGoingOn(p, r) ==
  /\ r \in active[p]
  /\ ended' = [ended EXCEPT ![r] = "answered"]
  /\ UNCHANGED <<stage, opened, next, active, signalled, topology, jobs>>

Respond(p, r) ==
  /\ r \in active[p]
  /\ active' = [active EXCEPT ![p] = @ \ {r}]
  /\ ended' = [ended EXCEPT ![r] = "answered"]
  /\ UNCHANGED <<stage, opened, next, signalled, topology, jobs>>

\* A consumer rejects the message for good, and the broker dead-letters it.
Reject(r) ==
  /\ jobs[r] = "queued"
  /\ jobs' = [jobs EXCEPT ![r] =
                IF DeadLettering \subseteq topology THEN "dead" ELSE "dropped"]
  /\ UNCHANGED <<stage, opened, next, active, signalled, topology, ended>>

-----------------------------------------------------------------------------
(* Shutdown. *)

\* SIGINT or SIGTERM ends the process, until main has asked for it with
\* signal.Notify.
Signal(p) ==
  /\ stage[p] \notin {"off", "exited"}
  /\ p \notin signalled
  /\ signalled' = signalled \cup {p}
  /\ IF stage[p] = "serving"
     THEN UNCHANGED <<stage, opened, next, active, topology, jobs, ended>>
     ELSE Exit(p)

\* srv.Shutdown closes the listener.
Shutdown(p) ==
  /\ stage[p] = "serving"
  /\ p \in signalled
  /\ Goto(p, "draining")
  /\ UNCHANGED <<opened, next, active, signalled, topology, jobs, ended>>

\* Every request is answered: Shutdown returns nil, and so does main.
Drained(p) ==
  /\ stage[p] = "draining"
  /\ active[p] = {}
  /\ Goto(p, "closing")
  /\ UNCHANGED <<opened, next, active, signalled, topology, jobs, ended>>

\* Mutations: after ten seconds main returns instead of ending the process;
\* Shutdown is called without a deadline.
DrainTimesOutClosing(p) ==
  /\ stage[p] = "draining"
  /\ active[p] # {}
  /\ Goto(p, "closing")
  /\ UNCHANGED <<opened, next, active, signalled, topology, jobs, ended>>
DrainNeverTimesOut(p) == FALSE /\ UNCHANGED vars

\* After ten seconds Shutdown gives up and log.Fatalf ends the process.
DrainTimesOut(p) ==
  /\ stage[p] = "draining"
  /\ active[p] # {}
  /\ Exit(p)
  /\ UNCHANGED signalled

\* The deferred calls, last one first.
CloseNext(p) ==
  /\ stage[p] = "closing"
  /\ opened' = [opened EXCEPT ![p] =
       IF "channel" \in @ THEN @ \ {"channel"}
       ELSE IF "connection" \in @ THEN @ \ {"connection"} ELSE {}]
  /\ opened[p] # {}
  /\ UNCHANGED <<stage, next, active, signalled, topology, jobs, ended>>

Return(p) ==
  /\ stage[p] = "closing"
  /\ opened[p] = {}
  /\ Exit(p)
  /\ UNCHANGED signalled

\* SIGKILL, or the machine fails.
Kill(p) ==
  /\ "kill" \in Faults
  /\ stage[p] \notin {"off", "exited"}
  /\ Exit(p)
  /\ UNCHANGED signalled

-----------------------------------------------------------------------------
Startup(p) ==
  \/ Boot(p) \/ OpenPool(p) \/ ConfigFails(p) \/ Dial(p) \/ OpenChannel(p)
  \/ Declare(p) \/ SetupFails(p) \/ Serve(p) \/ Notify(p) \/ ListenFails(p)

Ending(p) ==
  \/ Shutdown(p) \/ Drained(p) \/ DrainTimesOut(p) \/ CloseNext(p) \/ Return(p)

Next ==
  \/ \E p \in Processes :
       \/ Startup(p) \/ Signal(p) \/ Ending(p) \/ Kill(p)
       \/ \E r \in Requests : Accept(p, r) \/ Publish(p, r) \/ Respond(p, r)
  \/ \E r \in Requests : Reject(r)

Spec == Init /\ [][Next]_vars
=============================================================================
