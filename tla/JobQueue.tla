------------------------------ MODULE JobQueue ------------------------------
(***************************************************************************)
(* The RabbitMQ adapter of Kliops (internal/adapters/queue/rabbitmq.go):   *)
(* PublishJob, and ConsumeJob with its dispatch loop, its semaphore of     *)
(* maxConcurrency slots, the goroutine it spawns per delivery, and the     *)
(* retry that publishes a fresh message before acknowledging the old one.  *)
(* The broker is modelled from how the adapter uses it: queue              *)
(* ingestion_jobs with manual acknowledgement, no prefetch limit, and the  *)
(* dead-letter queue behind Nack(requeue = false).                         *)
(*                                                                         *)
(* A copy is one message the broker stored.  A consumer is one process     *)
(* that called ConsumeJob; a process restarted is another consumer.        *)
(* There is at most one goroutine per consumer and copy at a time, because *)
(* a channel holds one outstanding delivery of a message and a consumer    *)
(* never reconnects, so task[k][c] is the state of that goroutine.         *)
(***************************************************************************)
EXTENDS Integers, FiniteSets

CONSTANTS
  Jobs,            \* job identifiers passed to PublishJob
  Consumers,       \* processes that call ConsumeJob
  Fallible,        \* consumers that may be cancelled, disconnected or killed
  MaxConcurrency,  \* capacity of the channel sem
  MaxRetries,      \* MaxRetries, 3 in the code
  MaxCopies,       \* bound on the number of messages ever published
  Foreign,         \* whether somebody publishes a message that is no JobMessage
  Garbage,         \* job of a message whose body is not a JobMessage
  Nobody           \* holder of a message that is not out for delivery

ASSUME QueueAssumption ==
  /\ Fallible \subseteq Consumers
  /\ MaxConcurrency \in Nat \ {0}  \* ConsumeJob refuses any other value
  /\ MaxRetries \in Nat
  /\ MaxCopies \in Nat
  /\ Foreign \in BOOLEAN
  /\ Garbage \notin Jobs
  /\ Nobody \notin Consumers

Copies == 1..MaxCopies

VARIABLES
  msg,       \* msg[c]: the JobMessage in copy c
  place,     \* place[c]: where the broker has copy c
  holder,    \* holder[c]: consumer that has an unacknowledged delivery of c
  task,      \* task[k][c]: what consumer k is doing with copy c
  sem,       \* sem[k]: number of slots of k that are taken
  loop,      \* loop[k]: the dispatch loop of k
  cancelled, \* consumers whose context is done
  conn,      \* consumers whose AMQP connection is open
  done,      \* history: jobs on which the handler has returned nil
  failures   \* history: failures[j] counts the handler's errors on j

brokerVars == <<msg, place, holder>>
localVars  == <<task, sem, loop>>
envVars    == <<cancelled, conn>>
history    == <<done, failures>>
vars       == <<brokerVars, localVars, envVars, history>>

Places == {"unused", "queued", "acked", "dead"}
Loops  == {"off", "running", "stopped", "exited"}

\* buffered: in the Go channel msgs; held: received by the loop, which waits
\* for a slot; spawned: goroutine started; handling: inside handler; backoff:
\* in time.After; waiting: wants a slot again; republished: the retry message
\* is published and the old one not acknowledged yet.
Tasks == {"none", "buffered", "held", "spawned", "handling", "backoff",
          "waiting", "republished"}

\* The goroutine states in which the flag `acquired' is true.
SlotTasks == {"spawned", "handling", "republished"}

Message == [job : Jobs \cup {Garbage}, retry : 0..MaxRetries]

Init ==
  /\ msg = [c \in Copies |-> [job |-> Garbage, retry |-> 0]]
  /\ place = [c \in Copies |-> "unused"]
  /\ holder = [c \in Copies |-> Nobody]
  /\ task = [k \in Consumers |-> [c \in Copies |-> "none"]]
  /\ sem = [k \in Consumers |-> 0]
  /\ loop = [k \in Consumers |-> "off"]
  /\ cancelled = {}
  /\ conn = {}
  /\ done = {}
  /\ failures = [j \in Jobs |-> 0]

-----------------------------------------------------------------------------
(* Broker. *)

\* The exchange stores a message in ingestion_jobs.  Copies are numbered in
\* the order of publication; order of delivery is left open, since a
\* requeued message may overtake or be overtaken.
Enqueue(c, j, r) ==
  /\ place[c] = "unused"
  /\ \A d \in 1..(c - 1) : place[d] # "unused"
  /\ msg' = [msg EXCEPT ![c] = [job |-> j, retry |-> r]]
  /\ place' = [place EXCEPT ![c] = "queued"]

\* Ack and Nack of consumer k.  They reach the broker only while it counts
\* the delivery as outstanding on the channel of k; on a closed channel they
\* return an error the code drops.
Settle(k, c, p) ==
  IF holder[c] = k
  THEN /\ place' = [place EXCEPT ![c] = p]
       /\ holder' = [holder EXCEPT ![c] = Nobody]
  ELSE UNCHANGED <<place, holder>>

\* The broker pushes a message to any open consumer: without Qos there is no
\* limit, and a consumer whose loop has stopped is still subscribed.
Deliver(k, c) ==
  /\ k \in conn
  /\ place[c] = "queued"
  /\ holder[c] = Nobody
  /\ holder' = [holder EXCEPT ![c] = k]
  /\ task' = [task EXCEPT ![k][c] = "buffered"]
  /\ UNCHANGED <<msg, place, sem, loop, envVars, history>>

\* The broker takes back every delivery of a channel that closes.
TakeBack(k) ==
  holder' = [c \in Copies |-> IF holder[c] = k THEN Nobody ELSE holder[c]]

-----------------------------------------------------------------------------
(* Producers. *)

\* PublishJob, for a job just created: its identifier is fresh.
PublishJob(j) ==
  /\ \A d \in Copies : place[d] = "unused" \/ msg[d].job # j
  /\ \E c \in Copies : Enqueue(c, j, 0)
  /\ UNCHANGED <<holder, localVars, envVars, history>>

\* Somebody else puts one message on the queue that is no JobMessage.
PublishForeign ==
  /\ Foreign
  /\ \A d \in Copies : place[d] = "unused" \/ msg[d].job # Garbage
  /\ \E c \in Copies : Enqueue(c, Garbage, 0)
  /\ UNCHANGED <<holder, localVars, envVars, history>>

-----------------------------------------------------------------------------
(* The consumer: subscription and dispatch loop. *)

SetTask(k, c, t) == task' = [task EXCEPT ![k][c] = t]
TakeSlot(k) == sem[k] < MaxConcurrency /\ sem' = [sem EXCEPT ![k] = @ + 1]
FreeSlot(k) == sem[k] > 0 /\ sem' = [sem EXCEPT ![k] = @ - 1]

Subscribe(k) ==
  /\ loop[k] = "off"
  /\ loop' = [loop EXCEPT ![k] = "running"]
  /\ conn' = conn \cup {k}
  /\ UNCHANGED <<brokerVars, task, sem, cancelled, history>>

LoopIdle(k) == loop[k] = "running" /\ \A d \in Copies : task[k][d] # "held"

\* case d, ok := <-msgs, possible even when ctx is done: select picks at random.
Receive(k, c) ==
  /\ LoopIdle(k)
  /\ task[k][c] = "buffered"
  /\ SetTask(k, c, "held")
  /\ UNCHANGED <<brokerVars, sem, loop, envVars, history>>

\* Mutation: the loop is written "for d := range msgs", which looks at ctx only
\* while it waits for a slot.
StopLoopOnCloseOnly(k) ==
  /\ LoopIdle(k)
  /\ k \notin conn
  /\ loop' = [loop EXCEPT ![k] = "stopped"]
  /\ UNCHANGED <<brokerVars, task, sem, envVars, history>>

\* case <-ctx.Done(), or msgs closed with the connection.
StopLoop(k) ==
  /\ LoopIdle(k)
  /\ k \in cancelled \/ k \notin conn
  /\ loop' = [loop EXCEPT ![k] = "stopped"]
  /\ UNCHANGED <<brokerVars, task, sem, envVars, history>>

\* ctx is done while the loop waits for a slot: it returns and drops the
\* delivery without Nack, so the broker keeps it outstanding.
DropHeld(k, c) ==
  /\ loop[k] = "running"
  /\ task[k][c] = "held"
  /\ k \in cancelled
  /\ loop' = [loop EXCEPT ![k] = "stopped"]
  /\ SetTask(k, c, "none")
  /\ UNCHANGED <<brokerVars, sem, envVars, history>>

Spawn(k, c) ==
  /\ loop[k] = "running"
  /\ task[k][c] = "held"
  /\ TakeSlot(k)
  /\ SetTask(k, c, "spawned")
  /\ UNCHANGED <<brokerVars, loop, envVars, history>>

-----------------------------------------------------------------------------
(* The consumer: one goroutine per delivery. *)

\* The goroutine of copy c settles its delivery and returns.
Return(k, c, p) ==
  /\ Settle(k, c, p)
  /\ SetTask(k, c, "none")
  /\ UNCHANGED <<msg, loop, envVars>>

\* As Return, with the deferred release of the slot.
ReturnSlot(k, c, p) == Return(k, c, p) /\ FreeSlot(k)

\* Mutation: the retry count is compared before it is incremented.
ExhaustedLate(c) == msg[c].retry > MaxRetries

\* The retry count stands for the failures before this one.
Exhausted(c) == msg[c].retry + 1 > MaxRetries

CountFailure(c) == failures' = [failures EXCEPT ![msg[c].job] = @ + 1]

\* Mutation: Nack without requeue when ctx is done.
RefuseCancelledForGood(k, c) ==
  /\ task[k][c] = "spawned"
  /\ k \in cancelled
  /\ ReturnSlot(k, c, "dead")
  /\ UNCHANGED history

\* ctx is done before the handler is called: Nack with requeue.
RefuseCancelled(k, c) ==
  /\ task[k][c] = "spawned"
  /\ k \in cancelled
  /\ ReturnSlot(k, c, "queued")
  /\ UNCHANGED history

\* The body does not unmarshal: Nack without requeue.
RefuseMalformed(k, c) ==
  /\ task[k][c] = "spawned"
  /\ k \notin cancelled
  /\ msg[c].job = Garbage
  /\ ReturnSlot(k, c, "dead")
  /\ UNCHANGED history

CallHandler(k, c) ==
  /\ task[k][c] = "spawned"
  /\ k \notin cancelled
  /\ msg[c].job # Garbage
  /\ SetTask(k, c, "handling")
  /\ UNCHANGED <<brokerVars, sem, loop, envVars, history>>

\* The handler returns nil: Ack.
HandlerSucceeds(k, c) ==
  /\ task[k][c] = "handling"
  /\ done' = done \cup {msg[c].job}
  /\ ReturnSlot(k, c, "acked")
  /\ UNCHANGED failures

\* The handler returns an error on the last attempt: Nack without requeue.
HandlerFailsForGood(k, c) ==
  /\ task[k][c] = "handling"
  /\ Exhausted(c)
  /\ CountFailure(c)
  /\ ReturnSlot(k, c, "dead")
  /\ UNCHANGED done

\* Mutation: the slot is kept during the backoff.
HandlerFailsKeepingSlot(k, c) ==
  /\ task[k][c] = "handling"
  /\ ~ Exhausted(c)
  /\ CountFailure(c)
  /\ SetTask(k, c, "backoff")
  /\ UNCHANGED <<brokerVars, sem, loop, envVars, done>>

\* The handler returns an error: the slot is given back for the backoff.
HandlerFails(k, c) ==
  /\ task[k][c] = "handling"
  /\ ~ Exhausted(c)
  /\ CountFailure(c)
  /\ FreeSlot(k)
  /\ SetTask(k, c, "backoff")
  /\ UNCHANGED <<brokerVars, loop, envVars, done>>

\* Mutation: the old message is acknowledged before the new one is published.
BackoffElapsesAcking(k, c) ==
  /\ task[k][c] = "backoff"
  /\ Settle(k, c, "acked")
  /\ SetTask(k, c, "waiting")
  /\ UNCHANGED <<msg, sem, loop, envVars, history>>

BackoffElapses(k, c) ==
  /\ task[k][c] = "backoff"
  /\ SetTask(k, c, "waiting")
  /\ UNCHANGED <<brokerVars, sem, loop, envVars, history>>

\* Mutations: the deferred release runs although the slot was given back; the
\* goroutine goes on after its Nack.
RetryCancelledReleasing(k, c) ==
  /\ task[k][c] \in {"backoff", "waiting"}
  /\ k \in cancelled
  /\ ReturnSlot(k, c, "queued")
  /\ UNCHANGED history
RetryCancelledGoingOn(k, c) ==
  /\ task[k][c] \in {"backoff", "waiting"}
  /\ k \in cancelled
  /\ Settle(k, c, "queued")
  /\ SetTask(k, c, "waiting")
  /\ UNCHANGED <<msg, sem, loop, envVars, history>>

\* ctx is done during the backoff or the wait for a slot: Nack with requeue
\* of the old message, whose retry count does not include this failure.
RetryCancelled(k, c) ==
  /\ task[k][c] \in {"backoff", "waiting"}
  /\ k \in cancelled
  /\ Return(k, c, "queued")
  /\ UNCHANGED <<sem, history>>

\* A slot is free and the retry message is published.
Republish(k, c) ==
  /\ task[k][c] = "waiting"
  /\ k \in conn \ cancelled
  /\ \E d \in Copies : Enqueue(d, msg[c].job, msg[c].retry + 1)
  /\ TakeSlot(k)
  /\ SetTask(k, c, "republished")
  /\ UNCHANGED <<holder, loop, envVars, history>>

\* The publication fails, which it does on a closed connection only, and the
\* Nack on that connection has no effect.  The slot is taken and released.
RepublishFails(k, c) ==
  /\ task[k][c] = "waiting"
  /\ k \notin conn \cup cancelled
  /\ sem[k] < MaxConcurrency
  /\ Return(k, c, "queued")
  /\ UNCHANGED <<sem, history>>

\* Mutation: the old message is requeued although its successor is published.
RequeueRepublished(k, c) ==
  /\ task[k][c] = "republished"
  /\ ReturnSlot(k, c, "queued")
  /\ UNCHANGED history

AckRepublished(k, c) ==
  /\ task[k][c] = "republished"
  /\ ReturnSlot(k, c, "acked")
  /\ UNCHANGED history

-----------------------------------------------------------------------------
(* What may happen to a consumer. *)

Cancel(k) ==
  /\ k \in Fallible
  /\ loop[k] \in {"running", "stopped"}
  /\ k \notin cancelled
  /\ cancelled' = cancelled \cup {k}
  /\ UNCHANGED <<brokerVars, localVars, conn, history>>

\* The connection breaks.  The buffered deliveries are gone; goroutines
\* already started go on, and nothing reconnects.
LoseConnection(k) ==
  /\ k \in Fallible
  /\ k \in conn
  /\ conn' = conn \ {k}
  /\ TakeBack(k)
  /\ task' = [task EXCEPT ![k] = [c \in Copies |->
                IF task[k][c] = "buffered" THEN "none" ELSE task[k][c]]]
  /\ UNCHANGED <<msg, place, sem, loop, cancelled, history>>

\* The process ends, by a crash or by main returning: it waits for no
\* goroutine.
Exit(k) ==
  /\ k \in Fallible
  /\ loop[k] \in {"running", "stopped"}
  /\ loop' = [loop EXCEPT ![k] = "exited"]
  /\ conn' = conn \ {k}
  /\ TakeBack(k)
  /\ task' = [task EXCEPT ![k] = [c \in Copies |-> "none"]]
  /\ sem' = [sem EXCEPT ![k] = 0]
  /\ UNCHANGED <<msg, place, cancelled, history>>

-----------------------------------------------------------------------------
Goroutine(k, c) ==
  \/ RefuseCancelled(k, c) \/ RefuseMalformed(k, c) \/ CallHandler(k, c)
  \/ HandlerSucceeds(k, c) \/ HandlerFailsForGood(k, c) \/ HandlerFails(k, c)
  \/ BackoffElapses(k, c) \/ RetryCancelled(k, c)
  \/ Republish(k, c) \/ RepublishFails(k, c) \/ AckRepublished(k, c)

Next ==
  \/ \E j \in Jobs : PublishJob(j)
  \/ PublishForeign
  \/ \E k \in Consumers :
       \/ Subscribe(k) \/ StopLoop(k)
       \/ Cancel(k) \/ LoseConnection(k) \/ Exit(k)
       \/ \E c \in Copies :
            \/ Deliver(k, c) \/ Receive(k, c) \/ DropHeld(k, c) \/ Spawn(k, c)
            \/ Goroutine(k, c)

Spec == Init /\ [][Next]_vars
=============================================================================
