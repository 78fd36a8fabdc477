---------------------------- MODULE JobDelivery ----------------------------
(***************************************************************************)
(* What the job queue of Kliops promises to its two users, the archive     *)
(* service that publishes jobs and the worker that handles them: delivery  *)
(* at least once.  A job handed to the queue stays owed until the handler  *)
(* has succeeded on it or it has been moved to the dead-letter queue, and  *)
(* it may be handled again at any time before that.  JobQueue, the model   *)
(* of internal/adapters/queue/rabbitmq.go, implements this module.         *)
(***************************************************************************)
CONSTANT Jobs

VARIABLES owed,  \* jobs the queue still has to bring to an end
          done,  \* jobs on which some run of the handler returned nil
          dead   \* jobs with a message in the dead-letter queue

deliveryVars == <<owed, done, dead>>

DeliveryInit == owed = {} /\ done = {} /\ dead = {}

\* A producer hands over a job the queue has never seen.
Submit(j) ==
  /\ j \notin owed \cup done \cup dead
  /\ owed' = owed \cup {j}
  /\ UNCHANGED <<done, dead>>

\* A run of the handler returns nil.  Another message of the same job may
\* still be under way, and then the job remains owed.
Succeed(j) ==
  /\ j \in owed \cup done \cup dead
  /\ done' = done \cup {j}
  /\ owed' \in {owed, owed \ {j}}
  /\ UNCHANGED dead

\* A message of the job goes to the dead-letter queue.
Bury(j) ==
  /\ j \in owed
  /\ dead' = dead \cup {j}
  /\ owed' \in {owed, owed \ {j}}
  /\ UNCHANGED done

\* The last message of a job that already has an outcome is acknowledged.
Discharge(j) ==
  /\ j \in owed
  /\ j \in done \cup dead
  /\ owed' = owed \ {j}
  /\ UNCHANGED <<done, dead>>

DeliveryNext ==
  \E j \in Jobs : Submit(j) \/ Succeed(j) \/ Bury(j) \/ Discharge(j)

DeliverySpec == DeliveryInit /\ [][DeliveryNext]_deliveryVars
=============================================================================
