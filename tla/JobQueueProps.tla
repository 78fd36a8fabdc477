--------------------------- MODULE JobQueueProps ---------------------------
(***************************************************************************)
(* What makes the RabbitMQ adapter of JobQueue correct: its slots, the     *)
(* fate of a job while consumers are cancelled, disconnected and killed,   *)
(* the contract of JobDelivery, and progress.                              *)
(***************************************************************************)
EXTENDS JobQueue

(* Safety. *)

\* Type invariant.
TypeOK ==
  /\ msg \in [Copies -> Message]
  /\ place \in [Copies -> Places]
  /\ holder \in [Copies -> Consumers \cup {Nobody}]
  /\ task \in [Consumers -> [Copies -> Tasks]]
  /\ sem \in [Consumers -> 0..MaxConcurrency]
  /\ loop \in [Consumers -> Loops]
  /\ cancelled \subseteq Consumers
  /\ conn \subseteq Consumers
  /\ done \subseteq Jobs
  /\ failures \in [Jobs -> Nat]

SlotHolders(k) == {c \in Copies : task[k][c] \in SlotTasks}

\* The semaphore counts the goroutines whose flag `acquired' is true, on
\* every path: the deferred release, the early release before the backoff
\* and the acquisition after it leave no slot leaked and none released
\* twice, and at most maxConcurrency handlers of a consumer run at a time.
SlotAccounting ==
  \A k \in Consumers :
    /\ sem[k] = Cardinality(SlotHolders(k))
    /\ sem[k] <= MaxConcurrency

\* While its connection is open a consumer works only on deliveries the
\* broker still counts as its own, so no two connected consumers ever run the
\* handler on one message, and every Ack and Nack they send counts.
ChannelOwnsTasks ==
  /\ \A k \in conn, c \in Copies : task[k][c] # "none" => holder[c] = k
  /\ \A c \in Copies : holder[c] # Nobody => place[c] = "queued" /\ holder[c] \in conn

JobCopies(j) == {c \in Copies : place[c] # "unused" /\ msg[c].job = j}
Published(j) == JobCopies(j) # {}
QueuedCopies(j) == {c \in JobCopies(j) : place[c] = "queued"}
DeadCopies(j) == {c \in JobCopies(j) : place[c] = "dead"}

\* A job once published never vanishes: until the handler succeeded on it,
\* one of its messages is in ingestion_jobs or in the dead-letter queue.  It
\* holds across the moment when the retry replaces the old message, whatever
\* consumer is cancelled, disconnected or killed there.
NoJobLost ==
  \A j \in Jobs : Published(j) /\ j \notin done => QueuedCopies(j) \cup DeadCopies(j) # {}

\* A job is dead-lettered only after the handler has failed on it more than
\* MaxRetries times: cancellation, a lost connection or a crash is never
\* taken for a failure of the job.
DeadLettersJustified ==
  \A j \in Jobs : DeadCopies(j) # {} => failures[j] >= MaxRetries + 1

\* Copies a retry has already replaced, and whose Ack is on its way.
Replaced == {c \in Copies : \E k \in Consumers : task[k][c] = "republished"}

\* As long as no connection was lost, at least once is exactly once: a
\* published job has one fate, which is to be queued in one message, to have
\* been handled with success, or to be dead-lettered; cancelled consumers
\* that requeue their deliveries do not change that.
OneFate ==
  (\A k \in Consumers : loop[k] # "off" => k \in conn) =>
    \A j \in Jobs :
      Published(j) =>
        Cardinality(QueuedCopies(j) \ Replaced) + Cardinality(DeadCopies(j))
          + (IF j \in done THEN 1 ELSE 0) = 1

-----------------------------------------------------------------------------
(* The inductive invariant behind these. *)

\* A consumer that is not running has neither tasks nor a connection.
OffIsIdle ==
  \A k \in Consumers :
    loop[k] \in {"off", "exited"} =>
      k \notin conn /\ \A c \in Copies : task[k][c] = "none"

\* Only stored messages are worked on, only well-formed ones handled, and a
\* retry is prepared only where a higher retry count is allowed.
TasksLegal ==
  \A k \in Consumers, c \in Copies :
    /\ task[k][c] # "none" => place[c] # "unused"
    /\ task[k][c] \in {"handling", "backoff", "waiting", "republished"} => msg[c].job # Garbage
    /\ task[k][c] \in {"backoff", "waiting"} => msg[c].retry < MaxRetries

\* What may stand in for copy c once c is gone: success on its job, or a
\* message of the same job with a higher retry count that is not gone.
Covered(c) ==
  \/ msg[c].job \in done
  \/ \E d \in Copies :
       /\ msg[d].job = msg[c].job
       /\ msg[d].retry > msg[c].retry
       /\ place[d] \in {"queued", "dead"}

GoneAreCovered ==
  \A c \in Copies :
    place[c] = "acked" \/ (\E k \in Consumers : task[k][c] = "republished") => Covered(c)

\* The retry count of a message never exceeds the failures of its job, and
\* falls short of them while a retry of this very message is under way.
FailuresCounted ==
  \A c \in Copies :
    place[c] # "unused" /\ msg[c].job # Garbage =>
      /\ failures[msg[c].job] >= msg[c].retry
      /\ (\E k \in Consumers : task[k][c] \in {"backoff", "waiting"})
           => failures[msg[c].job] > msg[c].retry
      /\ place[c] = "dead" => failures[msg[c].job] > MaxRetries

\* Only published jobs were handled.
DoneArePublished == \A j \in done : Published(j)

\* The inductive invariant: together with the properties above, every part of
\* the state of the adapter and of the broker that they depend on.
QueueInv ==
  /\ TypeOK
  /\ SlotAccounting
  /\ OffIsIdle
  /\ ChannelOwnsTasks
  /\ TasksLegal
  /\ GoneAreCovered
  /\ FailuresCounted
  /\ DoneArePublished

-----------------------------------------------------------------------------
(* The contract. *)

owedBar == {j \in Jobs : QueuedCopies(j) # {}}
deadBar == {j \in Jobs : DeadCopies(j) # {}}

Delivery == INSTANCE JobDelivery WITH owed <- owedBar, dead <- deadBar

\* The adapter delivers at least once: every step of producers, broker and
\* consumers, faults included, is a step of JobDelivery or leaves it alone.
ImplementsDelivery == Delivery!DeliverySpec

-----------------------------------------------------------------------------
(* Progress. *)

\* What the dispatch loop and the goroutine of consumer k do with copy c.
Work(k, c) == Receive(k, c) \/ DropHeld(k, c) \/ Spawn(k, c) \/ Goroutine(k, c)

\* The Go scheduler runs the loop and every goroutine, timers fire, a handler
\* returns and the broker delivers.  Strong fairness, because a goroutine or
\* a delivery waits in a queue that others pass in turn: the channels msgs
\* and sem are first in, first out, and the select of the loop picks at random.
Fairness ==
  /\ \A k \in Consumers :
       /\ WF_vars(Subscribe(k))
       /\ SF_vars(StopLoop(k))
       /\ \A c \in Copies : SF_vars(Work(k, c))
  /\ \A c \in Copies : WF_vars(\E k \in Consumers : Deliver(k, c))

FairSpec == Spec /\ Fairness

\* A consumer whose context is done, or whose connection is lost, comes to
\* rest: its loop ends, however many messages the broker still pushes, and
\* every goroutine returns, out of the backoff and out of the wait for a slot
\* too.
StoppedConsumerDrains ==
  \A k \in Consumers :
    k \in cancelled \/ (loop[k] # "off" /\ k \notin conn)
      ~> /\ loop[k] \in {"stopped", "exited"}
         /\ \A c \in Copies : task[k][c] \in {"none", "buffered"}

\* A process whose context is done ends some time after, as main does on
\* SIGTERM.  Until then the broker counts it as a subscriber.
CancelledProcessesExit == \A k \in Consumers : []<>(k \notin cancelled \/ loop[k] = "exited")

\* Every message the broker stores is acknowledged or dead-lettered in the
\* end, provided one consumer stays up: retries wait for slots without
\* deadlock, and what other consumers drop or requeue is picked up again.
EveryMessageSettles ==
  CancelledProcessesExit =>
    \A c \in Copies : place[c] = "queued" ~> place[c] \in {"acked", "dead"}

-----------------------------------------------------------------------------
(* What the documentation says, with MaxRetries = 3. *)

\* "Failed jobs are retried up to 3 times" (wiki/Ingestion-Pipeline.md:56):
\* one first attempt and at most three retries fail.
RetriedUpToThreeTimes == \A j \in Jobs : failures[j] <= 4
=============================================================================
