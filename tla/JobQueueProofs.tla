--------------------------- MODULE JobQueueProofs ---------------------------
(***************************************************************************)
(* Proofs about JobQueue, for every number of jobs, consumers, slots,      *)
(* retries and messages.  Each part of QueueInv is shown to be preserved   *)
(* by a lemma of its own, which names the other parts it needs.            *)
(***************************************************************************)
EXTENDS JobQueueProps, FiniteSetTheorems, TLAPS

-----------------------------------------------------------------------------
(* Types. *)

\* Init establishes the types and the legality of tasks.
LEMMA InitTyped == Init => TypeOK /\ TasksLegal
<1> SUFFICES ASSUME Init PROVE TypeOK /\ TasksLegal OBVIOUS
<1>1. TypeOK
  BY QueueAssumption DEF Init, TypeOK, Message, Places, Tasks, Loops
<1>2. TasksLegal BY DEF Init, TasksLegal
<1> QED BY <1>1, <1>2

\* What the return of a goroutine does to the typed state.
LEMMA ReturnTyped ==
  ASSUME TypeOK, NEW k \in Consumers, NEW c \in Copies, NEW p \in Places, Return(k, c, p)
  PROVE  /\ msg' = msg /\ loop' = loop /\ cancelled' = cancelled /\ conn' = conn
         /\ place' \in [Copies -> Places]
         /\ holder' \in [Copies -> Consumers \cup {Nobody}]
         /\ task' \in [Consumers -> [Copies -> Tasks]]
<1>1. /\ place' \in [Copies -> Places]
      /\ holder' \in [Copies -> Consumers \cup {Nobody}]
  <2>1. CASE holder[c] = k BY <2>1 DEF TypeOK, Return, Settle
  <2>2. CASE holder[c] # k BY <2>2 DEF TypeOK, Return, Settle
  <2> QED BY <2>1, <2>2
<1>2. task' \in [Consumers -> [Copies -> Tasks]]
  BY DEF TypeOK, Return, SetTask, Tasks
<1> QED BY <1>1, <1>2 DEF Return, envVars

\* The release of a slot keeps the semaphore in its range.
LEMMA FreeSlotTyped ==
  ASSUME TypeOK, NEW k \in Consumers, FreeSlot(k)
  PROVE  sem' \in [Consumers -> 0..MaxConcurrency]
BY QueueAssumption DEF TypeOK, FreeSlot

\* The failure counters stay numbers, and only that of the job grows.
LEMMA CountTyped ==
  ASSUME TypeOK, NEW c \in Copies, msg[c].job # Garbage, CountFailure(c)
  PROVE  /\ msg[c].job \in Jobs
         /\ failures' \in [Jobs -> Nat]
         /\ failures'[msg[c].job] = failures[msg[c].job] + 1
         /\ \A j \in Jobs : failures'[j] >= failures[j]
<1>1. msg[c].job \in Jobs BY DEF TypeOK, Message
<1> DEFINE x == msg[c].job
<1>2. failures' = [failures EXCEPT ![x] = failures[x] + 1] BY DEF CountFailure
<1>3. failures \in [Jobs -> Nat] /\ x \in Jobs BY <1>1 DEF TypeOK
<1> HIDE DEF x
<1>4. /\ failures' \in [Jobs -> Nat]
      /\ failures'[x] = failures[x] + 1
      /\ \A j \in Jobs : failures'[j] >= failures[j]
  BY <1>2, <1>3
<1> QED BY <1>1, <1>4 DEF x

\* Every step preserves the types: a retry count stays within 0..MaxRetries,
\* and only the identifiers of jobs reach the histories.
LEMMA TypeStep == TypeOK /\ TasksLegal /\ [Next]_vars => TypeOK'
<1> SUFFICES ASSUME TypeOK, TasksLegal, [Next]_vars PROVE TypeOK' OBVIOUS
<1> USE QueueAssumption DEF TypeOK, vars, brokerVars, localVars, envVars, history
<1>1. CASE UNCHANGED vars BY <1>1
<1>2. ASSUME NEW j \in Jobs, PublishJob(j) PROVE TypeOK'
  BY <1>2 DEF PublishJob, Enqueue, Message, Places
<1>3. CASE PublishForeign
  BY <1>3 DEF PublishForeign, Enqueue, Message, Places
<1>4. ASSUME NEW k \in Consumers,
             Subscribe(k) \/ StopLoop(k) \/ Cancel(k) \/ LoseConnection(k) \/ Exit(k)
      PROVE  TypeOK'
  <2>1. CASE Subscribe(k) \/ StopLoop(k) \/ Cancel(k)
    BY <2>1 DEF Subscribe, StopLoop, Cancel, Loops
  <2>2. CASE LoseConnection(k) BY <2>2 DEF LoseConnection, TakeBack, Tasks
  <2>3. CASE Exit(k) BY <2>3 DEF Exit, TakeBack, Loops, Tasks
  <2> QED BY <1>4, <2>1, <2>2, <2>3
<1>5. ASSUME NEW k \in Consumers, NEW c \in Copies,
             Deliver(k, c) \/ Receive(k, c) \/ DropHeld(k, c) \/ Spawn(k, c)
      PROVE  TypeOK'
  <2>1. CASE Deliver(k, c) BY <2>1 DEF Deliver, Tasks
  <2>2. CASE Receive(k, c) BY <2>2 DEF Receive, SetTask, Tasks
  <2>3. CASE DropHeld(k, c) BY <2>3 DEF DropHeld, SetTask, Loops, Tasks
  <2>4. CASE Spawn(k, c) BY <2>4 DEF Spawn, SetTask, TakeSlot, Tasks
  <2> QED BY <1>5, <2>1, <2>2, <2>3, <2>4
<1>6. ASSUME NEW k \in Consumers, NEW c \in Copies, Goroutine(k, c) PROVE TypeOK'
  <2> USE ReturnTyped, FreeSlotTyped DEF ReturnSlot
  <2>0. {"queued", "acked", "dead"} \subseteq Places BY DEF Places
  <2>1. CASE RefuseCancelled(k, c) BY <2>0, <2>1 DEF RefuseCancelled
  <2>2. CASE RefuseMalformed(k, c) BY <2>0, <2>2 DEF RefuseMalformed
  <2>3. CASE CallHandler(k, c) BY <2>3 DEF CallHandler, SetTask, Tasks
  <2>4. CASE HandlerSucceeds(k, c)
    <3>1. msg[c].job \in Jobs BY <2>4 DEF HandlerSucceeds, TasksLegal, Message
    <3> QED BY <2>0, <2>4, <3>1 DEF HandlerSucceeds
  <2>5. CASE HandlerFailsForGood(k, c)
    <3>1. failures' \in [Jobs -> Nat]
      BY <2>5, CountTyped DEF HandlerFailsForGood, TasksLegal
    <3> QED BY <2>0, <2>5, <3>1 DEF HandlerFailsForGood
  <2>6. CASE HandlerFails(k, c)
    <3>1. failures' \in [Jobs -> Nat] BY <2>6, CountTyped DEF HandlerFails, TasksLegal
    <3> QED BY <2>6, <3>1 DEF HandlerFails, SetTask, Tasks
  <2>7. CASE BackoffElapses(k, c) BY <2>7 DEF BackoffElapses, SetTask, Tasks
  <2>8. CASE RetryCancelled(k, c) BY <2>0, <2>8 DEF RetryCancelled
  <2>9. CASE Republish(k, c)
    <3>1. msg[c].job \in Jobs \cup {Garbage} /\ msg[c].retry + 1 \in 0..MaxRetries
      BY <2>9 DEF Republish, TasksLegal, Message
    <3> QED BY <2>9, <3>1 DEF Republish, Enqueue, Message, Places, TakeSlot, SetTask, Tasks
  <2>10. CASE RepublishFails(k, c) BY <2>0, <2>10 DEF RepublishFails
  <2>11. CASE AckRepublished(k, c) BY <2>0, <2>11 DEF AckRepublished
  <2> QED BY <1>6, <2>1, <2>2, <2>3, <2>4, <2>5, <2>6, <2>7, <2>8, <2>9, <2>10, <2>11 DEF Goroutine
<1> QED BY <1>1, <1>2, <1>3, <1>4, <1>5, <1>6 DEF Next
-----------------------------------------------------------------------------
(* What a step may do to messages and goroutines. *)

\* A stored message is never overwritten and its place never forgotten.
LEMMA MessagesStable ==
  ASSUME TypeOK, [Next]_vars, NEW d \in Copies, place[d] # "unused"
  PROVE  msg'[d] = msg[d] /\ place'[d] # "unused"
<1> USE DEF TypeOK, vars, brokerVars, localVars, envVars, history
<1>1. CASE UNCHANGED vars BY <1>1
<1>2. ASSUME NEW j \in Jobs, PublishJob(j)
      PROVE  msg'[d] = msg[d] /\ place'[d] # "unused"
  BY <1>2 DEF PublishJob, Enqueue
<1>3. CASE PublishForeign BY <1>3 DEF PublishForeign, Enqueue
<1>4. ASSUME NEW k \in Consumers,
             Subscribe(k) \/ StopLoop(k) \/ Cancel(k) \/ LoseConnection(k) \/ Exit(k)
      PROVE  msg'[d] = msg[d] /\ place'[d] # "unused"
  BY <1>4 DEF Subscribe, StopLoop, Cancel, LoseConnection, Exit
<1>5. ASSUME NEW k \in Consumers, NEW c \in Copies,
             Deliver(k, c) \/ Receive(k, c) \/ DropHeld(k, c) \/ Spawn(k, c)
      PROVE  msg'[d] = msg[d] /\ place'[d] # "unused"
  BY <1>5 DEF Deliver, Receive, DropHeld, Spawn
<1>6. ASSUME NEW k \in Consumers, NEW c \in Copies, Goroutine(k, c)
      PROVE  msg'[d] = msg[d] /\ place'[d] # "unused"
  <2>1. ASSUME NEW p \in {"queued", "acked", "dead"}, Return(k, c, p)
        PROVE  msg'[d] = msg[d] /\ place'[d] # "unused"
    BY <2>1 DEF Return, Settle
  <2>2. CASE Republish(k, c) BY <2>2 DEF Republish, Enqueue
  <2>3. CASE CallHandler(k, c) \/ HandlerFails(k, c) \/ BackoffElapses(k, c)
    BY <2>3 DEF CallHandler, HandlerFails, BackoffElapses
  <2> QED
    BY <1>6, <2>1, <2>2, <2>3
    DEF Goroutine, RefuseCancelled, RefuseMalformed, HandlerSucceeds, HandlerFailsForGood,
        RetryCancelled, RepublishFails, AckRepublished, ReturnSlot
<1> QED BY <1>1, <1>2, <1>3, <1>4, <1>5, <1>6 DEF Next

\* How the state of the goroutine of k for d may change.
TaskMoves(k, d) ==
  \/ task'[k][d] \in {task[k][d], "none"}
  \/ task'[k][d] = "buffered" /\ place[d] = "queued" /\ k \in conn
  \/ task[k][d] = "buffered" /\ task'[k][d] = "held"
  \/ task[k][d] = "held" /\ task'[k][d] = "spawned"
  \/ task[k][d] = "spawned" /\ task'[k][d] = "handling" /\ msg[d].job # Garbage
  \/ task[k][d] = "handling" /\ task'[k][d] = "backoff" /\ ~ Exhausted(d)
  \/ task[k][d] = "backoff" /\ task'[k][d] = "waiting"
  \/ task[k][d] = "waiting" /\ task'[k][d] = "republished"

\* Goroutines move along the path of the code and in no other way.
LEMMA TasksMove ==
  ASSUME TypeOK, [Next]_vars, NEW q \in Consumers, NEW d \in Copies
  PROVE  TaskMoves(q, d)
<1> USE DEF TypeOK, vars, brokerVars, localVars, envVars, history, TaskMoves, SetTask
<1>1. CASE UNCHANGED vars BY <1>1
<1>2. ASSUME NEW j \in Jobs, PublishJob(j) PROVE TaskMoves(q, d)
  BY <1>2 DEF PublishJob
<1>3. CASE PublishForeign BY <1>3 DEF PublishForeign
<1>4. ASSUME NEW k \in Consumers,
             Subscribe(k) \/ StopLoop(k) \/ Cancel(k) \/ LoseConnection(k) \/ Exit(k)
      PROVE  TaskMoves(q, d)
  BY <1>4 DEF Subscribe, StopLoop, Cancel, LoseConnection, Exit
<1>5. ASSUME NEW k \in Consumers, NEW c \in Copies,
             Deliver(k, c) \/ Receive(k, c) \/ DropHeld(k, c) \/ Spawn(k, c)
      PROVE  TaskMoves(q, d)
  BY <1>5 DEF Deliver, Receive, DropHeld, Spawn
<1>6. ASSUME NEW k \in Consumers, NEW c \in Copies, Goroutine(k, c)
      PROVE  TaskMoves(q, d)
  <2>1. ASSUME SetTask(k, c, "none") PROVE TaskMoves(q, d) BY <2>1
  <2>2. CASE CallHandler(k, c) BY <2>2 DEF CallHandler
  <2>3. CASE HandlerFails(k, c) BY <2>3 DEF HandlerFails
  <2>4. CASE BackoffElapses(k, c) BY <2>4 DEF BackoffElapses
  <2>5. CASE Republish(k, c) BY <2>5 DEF Republish
  <2> QED
    BY <1>6, <2>1, <2>2, <2>3, <2>4, <2>5
    DEF Goroutine, RefuseCancelled, RefuseMalformed, HandlerSucceeds, HandlerFailsForGood,
        RetryCancelled, RepublishFails, AckRepublished, ReturnSlot, Return
<1> QED BY <1>1, <1>2, <1>3, <1>4, <1>5, <1>6 DEF Next

\* Every step preserves the legality of tasks.
LEMMA LegalStep == TypeOK /\ TasksLegal /\ [Next]_vars => TasksLegal'
<1> SUFFICES ASSUME TypeOK, TasksLegal, [Next]_vars, NEW k \in Consumers, NEW c \in Copies
             PROVE  /\ task'[k][c] # "none" => place'[c] # "unused"
                    /\ task'[k][c] \in {"handling", "backoff", "waiting", "republished"}
                         => msg'[c].job # Garbage
                    /\ task'[k][c] \in {"backoff", "waiting"} => msg'[c].retry < MaxRetries
  BY DEF TasksLegal
<1>1. TaskMoves(k, c) BY TasksMove
<1>2. place[c] # "unused" => msg'[c] = msg[c] /\ place'[c] # "unused"
  BY MessagesStable
<1>3. msg[c].retry \in Nat /\ MaxRetries \in Nat BY QueueAssumption DEF TypeOK, Message
<1>4. ~ Exhausted(c) => msg[c].retry < MaxRetries BY <1>3 DEF Exhausted
<1> QED BY <1>1, <1>2, <1>4 DEF TasksLegal, TaskMoves
-----------------------------------------------------------------------------
(* Slots. *)

\* The goroutines that hold a slot are finite in number.
LEMMA SlotHoldersFinite ==
  ASSUME NEW k \in Consumers
  PROVE  IsFiniteSet(SlotHolders(k)) /\ Cardinality(SlotHolders(k)) \in Nat
<1>1. IsFiniteSet(Copies) BY QueueAssumption, FS_Interval DEF Copies
<1>2. SlotHolders(k) \subseteq Copies BY DEF SlotHolders
<1> QED BY <1>1, <1>2, FS_Subset, FS_CardinalityType

\* A goroutine that takes a slot as it becomes a holder keeps the account.
LEMMA SlotTaken ==
  ASSUME TypeOK, SlotAccounting, NEW k \in Consumers, NEW c \in Copies,
         NEW t \in SlotTasks, task[k][c] \notin SlotTasks, SetTask(k, c, t), TakeSlot(k)
  PROVE  SlotAccounting'
<1>1. SlotHolders(k)' = SlotHolders(k) \cup {c} /\ c \notin SlotHolders(k)
  BY DEF TypeOK, SlotHolders, SetTask
<1>2. Cardinality(SlotHolders(k)') = Cardinality(SlotHolders(k)) + 1
  BY <1>1, SlotHoldersFinite, FS_AddElement
<1>3. \A q \in Consumers : q # k => SlotHolders(q)' = SlotHolders(q)
  BY DEF TypeOK, SlotHolders, SetTask
<1>4. /\ sem'[k] = sem[k] + 1 /\ sem[k] < MaxConcurrency
      /\ sem[k] \in Nat /\ MaxConcurrency \in Nat
      /\ \A q \in Consumers : q # k => sem'[q] = sem[q]
  BY QueueAssumption DEF TypeOK, TakeSlot
<1>5. sem[k] = Cardinality(SlotHolders(k)) BY DEF SlotAccounting
<1>6. sem'[k] = Cardinality(SlotHolders(k)') /\ sem'[k] <= MaxConcurrency
  BY <1>2, <1>4, <1>5 DEF SlotAccounting
<1>7. ASSUME NEW q \in Consumers, q # k
      PROVE  sem'[q] = Cardinality(SlotHolders(q)') /\ sem'[q] <= MaxConcurrency
  BY <1>3, <1>4, <1>7 DEF SlotAccounting
<1> QED BY <1>6, <1>7 DEF SlotAccounting

\* A goroutine that releases its slot as it ceases to be a holder does, too.
LEMMA SlotFreed ==
  ASSUME TypeOK, SlotAccounting, NEW k \in Consumers, NEW c \in Copies,
         NEW t, t \notin SlotTasks, task[k][c] \in SlotTasks, SetTask(k, c, t), FreeSlot(k)
  PROVE  SlotAccounting'
<1>1. SlotHolders(k)' = SlotHolders(k) \ {c} /\ c \in SlotHolders(k)
  BY DEF TypeOK, SlotHolders, SetTask
<1>2. Cardinality(SlotHolders(k)') = Cardinality(SlotHolders(k)) - 1
  BY <1>1, SlotHoldersFinite, FS_RemoveElement
<1>3. \A q \in Consumers : q # k => SlotHolders(q)' = SlotHolders(q)
  BY DEF TypeOK, SlotHolders, SetTask
<1>4. /\ sem'[k] = sem[k] - 1
      /\ sem[k] \in Nat /\ MaxConcurrency \in Nat
      /\ \A q \in Consumers : q # k => sem'[q] = sem[q]
  BY QueueAssumption DEF TypeOK, FreeSlot
<1>5. sem[k] = Cardinality(SlotHolders(k)) BY DEF SlotAccounting
<1>6. sem'[k] = Cardinality(SlotHolders(k)') /\ sem'[k] <= MaxConcurrency
  BY <1>2, <1>4, <1>5 DEF SlotAccounting
<1>7. ASSUME NEW q \in Consumers, q # k
      PROVE  sem'[q] = Cardinality(SlotHolders(q)') /\ sem'[q] <= MaxConcurrency
  BY <1>3, <1>4, <1>7 DEF SlotAccounting
<1> QED BY <1>6, <1>7 DEF SlotAccounting

\* A step that changes neither semaphore nor holders does, too.
LEMMA SlotsKept ==
  ASSUME SlotAccounting, sem' = sem,
         \A k \in Consumers : SlotHolders(k)' = SlotHolders(k)
  PROVE  SlotAccounting'
BY DEF SlotAccounting

\* Every step keeps the account of the slots.
LEMMA SlotStep ==
  TypeOK /\ SlotAccounting /\ ChannelOwnsTasks /\ [Next]_vars => SlotAccounting'
<1> SUFFICES ASSUME TypeOK, SlotAccounting, ChannelOwnsTasks, [Next]_vars PROVE SlotAccounting' OBVIOUS
<1> USE DEF vars, brokerVars, localVars, envVars, history
<1>0. ASSUME sem' = sem, task' = task PROVE SlotAccounting'
  BY <1>0, SlotsKept DEF SlotHolders
<1>1. CASE UNCHANGED vars BY <1>0, <1>1
<1>2. ASSUME NEW j \in Jobs, PublishJob(j) PROVE SlotAccounting' BY <1>0, <1>2 DEF PublishJob
<1>3. CASE PublishForeign BY <1>0, <1>3 DEF PublishForeign
<1>4. ASSUME NEW k \in Consumers,
             Subscribe(k) \/ StopLoop(k) \/ Cancel(k) \/ LoseConnection(k) \/ Exit(k)
      PROVE  SlotAccounting'
  <2>1. CASE Subscribe(k) \/ StopLoop(k) \/ Cancel(k)
    BY <1>0, <2>1 DEF Subscribe, StopLoop, Cancel
  <2>2. CASE LoseConnection(k)
    <3>1. \A q \in Consumers : SlotHolders(q)' = SlotHolders(q)
      BY <2>2 DEF LoseConnection, SlotHolders, SlotTasks, TypeOK
    <3> QED BY <2>2, <3>1, SlotsKept DEF LoseConnection
  <2>3. CASE Exit(k)
    <3>1. /\ SlotHolders(k)' = {}
          /\ \A q \in Consumers : q # k => SlotHolders(q)' = SlotHolders(q)
      BY <2>3 DEF Exit, SlotHolders, SlotTasks, TypeOK
    <3>2. /\ sem'[k] = 0 /\ MaxConcurrency \in Nat
          /\ \A q \in Consumers : q # k => sem'[q] = sem[q]
      BY <2>3, QueueAssumption DEF Exit, TypeOK
    <3> QED BY <3>1, <3>2, FS_EmptySet DEF SlotAccounting
  <2> QED BY <1>4, <2>1, <2>2, <2>3
<1>5. ASSUME NEW k \in Consumers, NEW c \in Copies, NEW t \in Tasks \ SlotTasks,
             SetTask(k, c, t), task[k][c] \notin SlotTasks, sem' = sem
      PROVE  SlotAccounting'
  <2>1. \A q \in Consumers : SlotHolders(q)' = SlotHolders(q)
    BY <1>5 DEF SetTask, SlotHolders, TypeOK
  <2> QED BY <1>5, <2>1, SlotsKept
<1>6. ASSUME NEW k \in Consumers, NEW c \in Copies,
             Deliver(k, c) \/ Receive(k, c) \/ DropHeld(k, c) \/ Spawn(k, c)
      PROVE  SlotAccounting'
  <2>1. CASE Deliver(k, c)
    <3>1. task[k][c] = "none" BY <2>1, QueueAssumption DEF Deliver, ChannelOwnsTasks
    <3>2. \A q \in Consumers : SlotHolders(q)' = SlotHolders(q)
      BY <2>1, <3>1 DEF Deliver, SlotHolders, SlotTasks, TypeOK
    <3> QED BY <2>1, <3>2, SlotsKept DEF Deliver
  <2>2. CASE Receive(k, c) \/ DropHeld(k, c)
    BY <1>5, <2>2 DEF Receive, DropHeld, Tasks, SlotTasks
  <2>3. CASE Spawn(k, c) BY <2>3, SlotTaken DEF Spawn, SlotTasks
  <2> QED BY <1>6, <2>1, <2>2, <2>3
<1>7. ASSUME NEW k \in Consumers, NEW c \in Copies, Goroutine(k, c) PROVE SlotAccounting'
  <2>1. ASSUME NEW p, ReturnSlot(k, c, p), task[k][c] \in SlotTasks PROVE SlotAccounting'
    BY <2>1, SlotFreed DEF ReturnSlot, Return, SlotTasks
  <2>2. CASE CallHandler(k, c)
    <3>1. \A q \in Consumers : SlotHolders(q)' = SlotHolders(q)
      BY <2>2 DEF CallHandler, SetTask, SlotHolders, SlotTasks, TypeOK
    <3> QED BY <2>2, <3>1, SlotsKept DEF CallHandler
  <2>3. CASE HandlerFails(k, c) BY <2>3, SlotFreed DEF HandlerFails, SlotTasks
  <2>4. CASE BackoffElapses(k, c) BY <1>5, <2>4 DEF BackoffElapses, Tasks, SlotTasks
  <2>5. CASE RetryCancelled(k, c) \/ RepublishFails(k, c)
    BY <1>5, <2>5 DEF RetryCancelled, RepublishFails, Return, Tasks, SlotTasks
  <2>6. CASE Republish(k, c) BY <2>6, SlotTaken DEF Republish, SlotTasks
  <2> QED
    BY <1>7, <2>1, <2>2, <2>3, <2>4, <2>5, <2>6
    DEF Goroutine, RefuseCancelled, RefuseMalformed, HandlerSucceeds, HandlerFailsForGood,
        AckRepublished, SlotTasks
<1> QED BY <1>1, <1>2, <1>3, <1>4, <1>6, <1>7 DEF Next
-----------------------------------------------------------------------------
(* Connections. *)

\* Every step leaves a consumer that is off or has exited idle.
LEMMA IdleStep == TypeOK /\ OffIsIdle /\ [Next]_vars => OffIsIdle'
<1> SUFFICES ASSUME TypeOK, OffIsIdle, [Next]_vars, NEW q \in Consumers,
                    loop'[q] \in {"off", "exited"}
             PROVE  q \notin conn' /\ \A d \in Copies : task'[q][d] = "none"
  BY DEF OffIsIdle
<1> DEFINE Moved == loop'[q] = loop[q] /\ (q \in conn' => q \in conn)
           Rest  == q \notin conn' /\ \A d \in Copies : task'[q][d] = "none"
<1> USE DEF TypeOK, vars, brokerVars, localVars, envVars, history
<1>1. Moved \/ Rest
  <2>1. CASE UNCHANGED vars BY <2>1
  <2>2. ASSUME NEW j \in Jobs, PublishJob(j) PROVE Moved BY <2>2 DEF PublishJob
  <2>3. CASE PublishForeign BY <2>3 DEF PublishForeign
  <2>4. ASSUME NEW k \in Consumers,
               Subscribe(k) \/ StopLoop(k) \/ Cancel(k) \/ LoseConnection(k) \/ Exit(k)
        PROVE  Moved \/ Rest
    BY <2>4 DEF Subscribe, StopLoop, Cancel, LoseConnection, Exit
  <2>5. ASSUME NEW k \in Consumers, NEW c \in Copies,
               Deliver(k, c) \/ Receive(k, c) \/ DropHeld(k, c) \/ Spawn(k, c)
        PROVE  Moved
    BY <2>5 DEF Deliver, Receive, DropHeld, Spawn
  <2>6. ASSUME NEW k \in Consumers, NEW c \in Copies, Goroutine(k, c) PROVE Moved
    BY <2>6
    DEF Goroutine, RefuseCancelled, RefuseMalformed, CallHandler, HandlerSucceeds,
        HandlerFailsForGood, HandlerFails, BackoffElapses, RetryCancelled, Republish,
        RepublishFails, AckRepublished, ReturnSlot, Return
  <2> QED BY <2>1, <2>2, <2>3, <2>4, <2>5, <2>6 DEF Next
<1>2. CASE Moved
  <2>1. q \notin conn /\ \A d \in Copies : task[q][d] = "none" BY <1>2 DEF OffIsIdle
  <2>2. ASSUME NEW d \in Copies PROVE task'[q][d] = "none"
    BY <2>1, TasksMove DEF TaskMoves
  <2> QED BY <1>2, <2>1, <2>2
<1> QED BY <1>1, <1>2

\* A step that moves goroutines on, starting none and touching neither the
\* broker nor the connections, keeps the ownership of deliveries.
LEMMA OwnershipKept ==
  ASSUME ChannelOwnsTasks, place' = place, holder' = holder, conn' = conn,
         \A k \in Consumers, c \in Copies : task'[k][c] # "none" => task[k][c] # "none",
         conn \subseteq Consumers
  PROVE  ChannelOwnsTasks'
BY DEF ChannelOwnsTasks

\* So does the storing of a message.
LEMMA OwnershipEnqueue ==
  ASSUME TypeOK, ChannelOwnsTasks, NEW c \in Copies, NEW j, NEW r, Enqueue(c, j, r),
         holder' = holder, conn' = conn,
         \A k \in Consumers, d \in Copies : task'[k][d] # "none" => task[k][d] # "none"
  PROVE  ChannelOwnsTasks'
BY DEF ChannelOwnsTasks, Enqueue, TypeOK

\* And the return of a goroutine, whether its Ack or Nack counts or not.
LEMMA OwnershipReturn ==
  ASSUME TypeOK, ChannelOwnsTasks, NEW k \in Consumers, NEW c \in Copies, NEW p,
         Return(k, c, p)
  PROVE  ChannelOwnsTasks'
<1>1. /\ conn' = conn /\ task'[k][c] = "none"
      /\ \A q \in Consumers, d \in Copies : task'[q][d] # "none" => task[q][d] # "none"
  BY DEF Return, SetTask, TypeOK, envVars
<1>2. CASE holder[c] = k
  <2>1. /\ holder'[c] = Nobody
        /\ \A d \in Copies : d # c => holder'[d] = holder[d] /\ place'[d] = place[d]
    BY <1>2 DEF Return, Settle, TypeOK
  <2>2. ASSUME NEW q \in conn, NEW d \in Copies, task'[q][d] # "none" PROVE holder'[d] = q
    <3>1. q \in Consumers /\ task[q][d] # "none" BY <1>1, <2>2 DEF TypeOK
    <3>2. holder[d] = q BY <3>1 DEF ChannelOwnsTasks
    <3>3. d # c BY <1>1, <1>2, <2>2, <3>2
    <3> QED BY <2>1, <3>2, <3>3
  <2>3. ASSUME NEW d \in Copies, holder'[d] # Nobody
        PROVE  place'[d] = "queued" /\ holder'[d] \in conn
    <3>1. d # c BY <2>1, <2>3
    <3> QED BY <2>1, <2>3, <3>1 DEF ChannelOwnsTasks
  <2> QED BY <1>1, <2>2, <2>3 DEF ChannelOwnsTasks
<1>3. CASE holder[c] # k
  BY <1>1, <1>3, OwnershipKept DEF Return, Settle, TypeOK
<1> QED BY <1>2, <1>3

\* The broker takes back the deliveries of a consumer whose connection closes.
LEMMA OwnershipTakeBack ==
  ASSUME TypeOK, ChannelOwnsTasks, NEW k \in Consumers, TakeBack(k), conn' = conn \ {k},
         place' = place,
         \A q \in Consumers, c \in Copies : task'[q][c] # "none" => task[q][c] # "none"
  PROVE  ChannelOwnsTasks'
<1>1. \A c \in Copies : holder'[c] = IF holder[c] = k THEN Nobody ELSE holder[c]
  BY DEF TakeBack
<1>2. \A q \in conn', c \in Copies : task'[q][c] # "none" => holder'[c] = q
  BY <1>1 DEF ChannelOwnsTasks, TypeOK
<1>3. \A c \in Copies : holder'[c] # Nobody => place'[c] = "queued" /\ holder'[c] \in conn'
  BY <1>1 DEF ChannelOwnsTasks
<1> QED BY <1>2, <1>3 DEF ChannelOwnsTasks

\* Every step keeps the ownership of deliveries.
LEMMA OwnershipStep ==
  TypeOK /\ OffIsIdle /\ ChannelOwnsTasks /\ [Next]_vars => ChannelOwnsTasks'
<1> SUFFICES ASSUME TypeOK, OffIsIdle, ChannelOwnsTasks, [Next]_vars PROVE ChannelOwnsTasks'
  OBVIOUS
<1> USE DEF vars, brokerVars, localVars, envVars, history
<1>0. conn \subseteq Consumers BY DEF TypeOK
<1>1. CASE UNCHANGED vars BY <1>0, <1>1, OwnershipKept
<1>2. ASSUME NEW j \in Jobs, PublishJob(j) PROVE ChannelOwnsTasks'
  BY <1>2, OwnershipEnqueue DEF PublishJob
<1>3. CASE PublishForeign BY <1>3, OwnershipEnqueue DEF PublishForeign
<1>4. ASSUME NEW k \in Consumers,
             Subscribe(k) \/ StopLoop(k) \/ Cancel(k) \/ LoseConnection(k) \/ Exit(k)
      PROVE  ChannelOwnsTasks'
  <2>1. CASE Subscribe(k)
    <3>1. \A c \in Copies : task'[k][c] = "none" BY <2>1 DEF Subscribe, OffIsIdle
    <3> QED BY <2>1, <3>1 DEF Subscribe, ChannelOwnsTasks
  <2>2. CASE StopLoop(k) \/ Cancel(k) BY <1>0, <2>2, OwnershipKept DEF StopLoop, Cancel
  <2>3. CASE LoseConnection(k)
    <3>1. \A q \in Consumers, c \in Copies : task'[q][c] # "none" => task[q][c] # "none"
      BY <2>3 DEF LoseConnection, TypeOK
    <3> QED BY <2>3, <3>1, OwnershipTakeBack DEF LoseConnection
  <2>4. CASE Exit(k)
    <3>1. \A q \in Consumers, c \in Copies : task'[q][c] # "none" => task[q][c] # "none"
      BY <2>4 DEF Exit, TypeOK
    <3> QED BY <2>4, <3>1, OwnershipTakeBack DEF Exit
  <2> QED BY <1>4, <2>1, <2>2, <2>3, <2>4
<1>5. ASSUME NEW k \in Consumers, NEW c \in Copies,
             Deliver(k, c) \/ Receive(k, c) \/ DropHeld(k, c) \/ Spawn(k, c)
      PROVE  ChannelOwnsTasks'
  <2>1. CASE Deliver(k, c)
    <3>1. /\ holder' = [holder EXCEPT ![c] = k] /\ holder[c] = Nobody /\ k \in conn
          /\ task' = [task EXCEPT ![k][c] = "buffered"]
          /\ place' = place /\ conn' = conn /\ place[c] = "queued" /\ k # Nobody
      BY <2>1, QueueAssumption DEF Deliver
    <3>2. ASSUME NEW q \in conn, NEW d \in Copies, task'[q][d] # "none" PROVE holder'[d] = q
      <4>1. CASE q = k /\ d = c BY <3>1, <4>1 DEF TypeOK
      <4>2. CASE ~ (q = k /\ d = c)
        <5>1. task[q][d] # "none" BY <3>1, <3>2, <4>2, <1>0 DEF TypeOK
        <5>2. holder[d] = q /\ q # Nobody
          BY <5>1, <1>0, QueueAssumption DEF ChannelOwnsTasks
        <5> QED BY <3>1, <5>2 DEF TypeOK
      <4> QED BY <4>1, <4>2
    <3>3. \A d \in Copies : holder'[d] # Nobody => place'[d] = "queued" /\ holder'[d] \in conn
      BY <3>1 DEF ChannelOwnsTasks, TypeOK
    <3> QED BY <3>1, <3>2, <3>3 DEF ChannelOwnsTasks
  <2>2. CASE Receive(k, c) \/ DropHeld(k, c) \/ Spawn(k, c)
    <3>1. \A q \in Consumers, d \in Copies : task'[q][d] # "none" => task[q][d] # "none"
      BY <2>2 DEF Receive, DropHeld, Spawn, SetTask, TypeOK
    <3> QED BY <1>0, <2>2, <3>1, OwnershipKept DEF Receive, DropHeld, Spawn
  <2> QED BY <1>5, <2>1, <2>2
<1>6. ASSUME NEW k \in Consumers, NEW c \in Copies, Goroutine(k, c) PROVE ChannelOwnsTasks'
  <2>1. ASSUME NEW p, Return(k, c, p) PROVE ChannelOwnsTasks' BY <2>1, OwnershipReturn
  <2>2. CASE CallHandler(k, c) \/ HandlerFails(k, c) \/ BackoffElapses(k, c)
    <3>1. \A q \in Consumers, d \in Copies : task'[q][d] # "none" => task[q][d] # "none"
      BY <2>2 DEF CallHandler, HandlerFails, BackoffElapses, SetTask, TypeOK
    <3> QED BY <1>0, <2>2, <3>1, OwnershipKept DEF CallHandler, HandlerFails, BackoffElapses
  <2>3. CASE Republish(k, c)
    <3>1. \A q \in Consumers, d \in Copies : task'[q][d] # "none" => task[q][d] # "none"
      BY <2>3 DEF Republish, SetTask, TypeOK
    <3> QED BY <2>3, <3>1, OwnershipEnqueue DEF Republish
  <2> QED
    BY <1>6, <2>1, <2>2, <2>3
    DEF Goroutine, RefuseCancelled, RefuseMalformed, HandlerSucceeds, HandlerFailsForGood,
        RetryCancelled, RepublishFails, AckRepublished, ReturnSlot
<1> QED BY <1>1, <1>2, <1>3, <1>4, <1>5, <1>6 DEF Next
-----------------------------------------------------------------------------
(* Messages and the history of their jobs. *)

\* How the place of copy d may change, and what that says of its job.
PlaceMoves(d) ==
  \/ place'[d] = place[d]
  \/ place[d] = "unused" /\ place'[d] = "queued"
  \/ /\ place[d] = "queued" /\ place'[d] = "dead"
     /\ \/ msg[d].job = Garbage
        \/ Exhausted(d) /\ failures'[msg[d].job] = failures[msg[d].job] + 1
  \/ /\ place[d] = "queued" /\ place'[d] = "acked"
     /\ msg[d].job \in done' \/ \E k \in Consumers : task[k][d] = "republished"

\* A goroutine that returns settles its own copy, and only a queued one.
LEMMA ReturnMoves ==
  ASSUME TypeOK, ChannelOwnsTasks, NEW k \in Consumers, NEW c \in Copies, NEW p, Return(k, c, p),
         NEW d \in Copies
  PROVE  place'[d] = place[d] \/ (d = c /\ place[c] = "queued" /\ place'[c] = p)
<1>1. CASE holder[c] = k
  <2>1. place[c] = "queued" BY <1>1, QueueAssumption DEF ChannelOwnsTasks
  <2> QED BY <1>1, <2>1 DEF Return, Settle, TypeOK
<1>2. CASE holder[c] # k BY <1>2 DEF Return, Settle
<1> QED BY <1>1, <1>2

\* A message is acknowledged once its job is done or its retry published, and
\* dead-lettered once it is unreadable or its job has failed once more.
LEMMA PlacesMove ==
  ASSUME TypeOK, TasksLegal, ChannelOwnsTasks, [Next]_vars, NEW d \in Copies
  PROVE  PlaceMoves(d)
<1> USE DEF vars, brokerVars, localVars, envVars, history
<1>0. ASSUME place' = place PROVE PlaceMoves(d) BY <1>0 DEF PlaceMoves
<1>1. CASE UNCHANGED vars BY <1>0, <1>1
<1>2. ASSUME NEW c \in Copies, NEW j, NEW r, Enqueue(c, j, r) PROVE PlaceMoves(d)
  BY <1>2 DEF Enqueue, TypeOK, PlaceMoves
<1>3. ASSUME NEW j \in Jobs, PublishJob(j) PROVE PlaceMoves(d) BY <1>2, <1>3 DEF PublishJob
<1>4. CASE PublishForeign BY <1>2, <1>4 DEF PublishForeign
<1>5. ASSUME NEW k \in Consumers,
             Subscribe(k) \/ StopLoop(k) \/ Cancel(k) \/ LoseConnection(k) \/ Exit(k)
      PROVE  PlaceMoves(d)
  BY <1>0, <1>5 DEF Subscribe, StopLoop, Cancel, LoseConnection, Exit
<1>6. ASSUME NEW k \in Consumers, NEW c \in Copies,
             Deliver(k, c) \/ Receive(k, c) \/ DropHeld(k, c) \/ Spawn(k, c)
      PROVE  PlaceMoves(d)
  BY <1>0, <1>6 DEF Deliver, Receive, DropHeld, Spawn
<1>7. ASSUME NEW k \in Consumers, NEW c \in Copies, Goroutine(k, c) PROVE PlaceMoves(d)
  <2>1. CASE RefuseCancelled(k, c) \/ RetryCancelled(k, c) \/ RepublishFails(k, c)
    <3>1. place'[d] = place[d]
      BY <2>1, ReturnMoves DEF RefuseCancelled, RetryCancelled, RepublishFails, ReturnSlot
    <3> QED BY <3>1 DEF PlaceMoves
  <2>2. CASE RefuseMalformed(k, c)
    BY <2>2, ReturnMoves DEF RefuseMalformed, ReturnSlot, PlaceMoves
  <2>3. CASE CallHandler(k, c) \/ HandlerFails(k, c) \/ BackoffElapses(k, c)
    BY <1>0, <2>3 DEF CallHandler, HandlerFails, BackoffElapses
  <2>4. CASE HandlerSucceeds(k, c)
    BY <2>4, ReturnMoves DEF HandlerSucceeds, ReturnSlot, PlaceMoves
  <2>5. CASE HandlerFailsForGood(k, c)
    <3>1. failures'[msg[c].job] = failures[msg[c].job] + 1
      BY <2>5, CountTyped DEF HandlerFailsForGood, TasksLegal
    <3> QED BY <2>5, <3>1, ReturnMoves DEF HandlerFailsForGood, ReturnSlot, PlaceMoves
  <2>6. CASE Republish(k, c) BY <1>2, <2>6 DEF Republish
  <2>7. CASE AckRepublished(k, c)
    BY <2>7, ReturnMoves DEF AckRepublished, ReturnSlot, PlaceMoves
  <2> QED BY <1>7, <2>1, <2>2, <2>3, <2>4, <2>5, <2>6, <2>7 DEF Goroutine
<1> QED BY <1>1, <1>3, <1>4, <1>5, <1>6, <1>7 DEF Next

\* What a step may add to the messages and to the history.
NewMessages ==
  \A d \in Copies :
    msg'[d] # msg[d] \/ (place[d] = "unused" /\ place'[d] # "unused") =>
      \/ msg'[d].retry = 0
      \/ \E k \in Consumers, c \in Copies :
           /\ task[k][c] = "waiting"
           /\ msg'[d].job = msg[c].job /\ msg'[d].retry = msg[c].retry + 1

NewHistory ==
  /\ done \subseteq done'
  /\ \A j \in Jobs : failures'[j] >= failures[j]
  /\ \A j \in done' \ done : \E c \in Copies : place[c] # "unused" /\ msg[c].job = j

\* A goroutine that enters the backoff has counted a failure, and one that has
\* published a retry has stored it.
NewTasks ==
  \A k \in Consumers, c \in Copies :
    /\ task'[k][c] = "backoff" /\ task[k][c] # "backoff" =>
         failures'[msg[c].job] = failures[msg[c].job] + 1
    /\ task'[k][c] = "republished" /\ task[k][c] # "republished" =>
         \E d \in Copies : /\ place[d] = "unused" /\ place'[d] = "queued"
                          /\ msg'[d].job = msg[c].job
                          /\ msg'[d].retry = msg[c].retry + 1

\* What any step does to messages, histories and goroutines.
LEMMA StepEffects == TypeOK /\ TasksLegal /\ [Next]_vars => NewMessages /\ NewHistory /\ NewTasks
<1> SUFFICES ASSUME TypeOK, TasksLegal, [Next]_vars PROVE NewMessages /\ NewHistory /\ NewTasks
  OBVIOUS
<1> USE DEF vars, brokerVars, localVars, envVars, history
<1>a. ASSUME done' = done, failures' = failures PROVE NewHistory
  BY <1>a DEF NewHistory, TypeOK
<1>b. ASSUME msg' = msg, place' = place PROVE NewMessages BY <1>b DEF NewMessages
<1>c. ASSUME NEW k \in Consumers, NEW c \in Copies, NEW t, t \notin {"backoff", "republished"},
             SetTask(k, c, t)
      PROVE  NewTasks
  BY <1>c DEF NewTasks, SetTask, TypeOK
<1>d. ASSUME task' = task PROVE NewTasks BY <1>d DEF NewTasks
<1>1. CASE UNCHANGED vars BY <1>1, <1>a, <1>b, <1>d
<1>2. ASSUME NEW c \in Copies, NEW j, Enqueue(c, j, 0) PROVE NewMessages
  BY <1>2 DEF Enqueue, TypeOK, NewMessages
<1>3. ASSUME NEW j \in Jobs, PublishJob(j) PROVE NewMessages /\ NewHistory /\ NewTasks
  BY <1>3, <1>2, <1>a, <1>d DEF PublishJob
<1>4. CASE PublishForeign BY <1>4, <1>2, <1>a, <1>d DEF PublishForeign
<1>5. ASSUME NEW k \in Consumers,
             Subscribe(k) \/ StopLoop(k) \/ Cancel(k) \/ LoseConnection(k) \/ Exit(k)
      PROVE  NewMessages /\ NewHistory /\ NewTasks
  <2>1. msg' = msg /\ place' = place /\ done' = done /\ failures' = failures
    BY <1>5 DEF Subscribe, StopLoop, Cancel, LoseConnection, Exit
  <2>2. NewTasks
    BY <1>5, <1>d DEF Subscribe, StopLoop, Cancel, LoseConnection, Exit, NewTasks, TypeOK
  <2> QED BY <2>1, <2>2, <1>a, <1>b
<1>6. ASSUME NEW k \in Consumers, NEW c \in Copies,
             Deliver(k, c) \/ Receive(k, c) \/ DropHeld(k, c) \/ Spawn(k, c)
      PROVE  NewMessages /\ NewHistory /\ NewTasks
  <2>1. msg' = msg /\ place' = place /\ done' = done /\ failures' = failures
    BY <1>6 DEF Deliver, Receive, DropHeld, Spawn
  <2>2. NewTasks
    BY <1>6, <1>c DEF Deliver, Receive, DropHeld, Spawn, SetTask
  <2> QED BY <2>1, <2>2, <1>a, <1>b
<1>7. ASSUME NEW k \in Consumers, NEW c \in Copies, Goroutine(k, c)
      PROVE  NewMessages /\ NewHistory /\ NewTasks
  <2>1. ASSUME NEW p \in {"queued", "acked", "dead"}, Return(k, c, p)
        PROVE  NewTasks /\ (task[k][c] # "none" => NewMessages)
    <3>1. NewTasks BY <2>1, <1>c DEF Return
    <3>2. task[k][c] # "none" => place[c] # "unused" BY DEF TasksLegal
    <3>3. task[k][c] # "none" => NewMessages
      BY <2>1, <3>2 DEF Return, Settle, NewMessages, TypeOK
    <3> QED BY <3>1, <3>3
  <2>2. CASE \/ RefuseCancelled(k, c) \/ RefuseMalformed(k, c) \/ RetryCancelled(k, c)
             \/ RepublishFails(k, c) \/ AckRepublished(k, c)
    BY <2>2, <2>1, <1>a
    DEF RefuseCancelled, RefuseMalformed, RetryCancelled, RepublishFails, AckRepublished, ReturnSlot
  <2>3. CASE CallHandler(k, c) \/ BackoffElapses(k, c)
    BY <2>3, <1>a, <1>b, <1>c DEF CallHandler, BackoffElapses
  <2>4. CASE HandlerSucceeds(k, c)
    <3>1. place[c] # "unused" BY <2>4 DEF HandlerSucceeds, TasksLegal
    <3>2. NewHistory BY <2>4, <3>1 DEF HandlerSucceeds, NewHistory, TypeOK
    <3> QED BY <2>4, <3>2, <2>1 DEF HandlerSucceeds, ReturnSlot
  <2>5. CASE HandlerFailsForGood(k, c)
    <3>1. NewHistory
      BY <2>5, CountTyped DEF HandlerFailsForGood, TasksLegal, NewHistory
    <3> QED BY <2>5, <3>1, <2>1 DEF HandlerFailsForGood, ReturnSlot
  <2>6. CASE HandlerFails(k, c)
    <3>1. failures'[msg[c].job] = failures[msg[c].job] + 1 /\ NewHistory
      BY <2>6, CountTyped DEF HandlerFails, TasksLegal, NewHistory
    <3>2. NewTasks BY <2>6, <3>1 DEF HandlerFails, NewTasks, SetTask, TypeOK
    <3> QED BY <2>6, <3>1, <3>2, <1>b DEF HandlerFails
  <2>7. CASE Republish(k, c)
    <3>1. PICK d \in Copies : Enqueue(d, msg[c].job, msg[c].retry + 1) BY <2>7 DEF Republish
    <3>2. /\ place[d] = "unused" /\ place'[d] = "queued"
          /\ msg'[d].job = msg[c].job /\ msg'[d].retry = msg[c].retry + 1
          /\ \A e \in Copies : e # d => msg'[e] = msg[e] /\ place'[e] = place[e]
      BY <3>1 DEF Enqueue, TypeOK
    <3>3. NewTasks BY <2>7, <3>2 DEF Republish, NewTasks, SetTask, TypeOK
    <3>4. NewMessages BY <2>7, <3>2 DEF Republish, NewMessages
    <3> QED BY <2>7, <3>3, <3>4, <1>a DEF Republish
  <2> QED BY <1>7, <2>2, <2>3, <2>4, <2>5, <2>6, <2>7 DEF Goroutine
<1> QED BY <1>1, <1>3, <1>4, <1>5, <1>6, <1>7 DEF Next

\* A step moves at most one message.
LEMMA OneMoves ==
  ASSUME TypeOK, [Next]_vars, NEW d \in Copies, NEW e \in Copies,
         place'[d] # place[d], place'[e] # place[e]
  PROVE  d = e
<1> USE DEF vars, brokerVars, localVars, envVars, history
<1>0. place' # place OBVIOUS
<1>1. CASE UNCHANGED vars BY <1>0, <1>1
<1>2. ASSUME NEW c \in Copies, NEW j, NEW r, Enqueue(c, j, r) PROVE d = e
  BY <1>2 DEF Enqueue, TypeOK
<1>3. ASSUME NEW j \in Jobs, PublishJob(j) PROVE d = e BY <1>2, <1>3 DEF PublishJob
<1>4. CASE PublishForeign BY <1>2, <1>4 DEF PublishForeign
<1>5. ASSUME NEW k \in Consumers,
             Subscribe(k) \/ StopLoop(k) \/ Cancel(k) \/ LoseConnection(k) \/ Exit(k)
      PROVE  d = e
  BY <1>0, <1>5 DEF Subscribe, StopLoop, Cancel, LoseConnection, Exit
<1>6. ASSUME NEW k \in Consumers, NEW c \in Copies,
             Deliver(k, c) \/ Receive(k, c) \/ DropHeld(k, c) \/ Spawn(k, c)
      PROVE  d = e
  BY <1>0, <1>6 DEF Deliver, Receive, DropHeld, Spawn
<1>7. ASSUME NEW k \in Consumers, NEW c \in Copies, Goroutine(k, c) PROVE d = e
  <2>1. ASSUME NEW p, Return(k, c, p) PROVE d = e BY <2>1 DEF Return, Settle, TypeOK
  <2>2. CASE CallHandler(k, c) \/ HandlerFails(k, c) \/ BackoffElapses(k, c)
    BY <1>0, <2>2 DEF CallHandler, HandlerFails, BackoffElapses
  <2>3. CASE Republish(k, c) BY <1>2, <2>3 DEF Republish
  <2> QED
    BY <1>7, <2>1, <2>2, <2>3
    DEF Goroutine, RefuseCancelled, RefuseMalformed, HandlerSucceeds, HandlerFailsForGood,
        RetryCancelled, RepublishFails, AckRepublished, ReturnSlot
<1> QED BY <1>1, <1>3, <1>4, <1>5, <1>6, <1>7 DEF Next

\* Retry counts are numbers, and so are the failures of a job.
LEMMA Numbers ==
  ASSUME TypeOK, NEW c \in Copies
  PROVE  /\ msg[c].retry \in Nat /\ MaxRetries \in Nat /\ msg[c].retry <= MaxRetries
         /\ msg[c].job # Garbage => msg[c].job \in Jobs /\ failures[msg[c].job] \in Nat
BY QueueAssumption DEF TypeOK, Message

\* Every step keeps the retry counts below the failures they stand for.
LEMMA FailuresStep ==
  TypeOK /\ TypeOK' /\ TasksLegal /\ ChannelOwnsTasks /\ FailuresCounted /\ [Next]_vars
    => FailuresCounted'
<1> SUFFICES ASSUME TypeOK, TypeOK', TasksLegal, ChannelOwnsTasks, FailuresCounted, [Next]_vars,
                    NEW c \in Copies, place'[c] # "unused", msg'[c].job # Garbage
             PROVE  /\ failures'[msg'[c].job] >= msg'[c].retry
                    /\ (\E k \in Consumers : task'[k][c] \in {"backoff", "waiting"})
                         => failures'[msg'[c].job] > msg'[c].retry
                    /\ place'[c] = "dead" => failures'[msg'[c].job] > MaxRetries
  BY DEF FailuresCounted
<1>1. NewMessages /\ NewHistory /\ NewTasks BY StepEffects
<1>2. PlaceMoves(c) BY PlacesMove
<1>3. \A k \in Consumers : TaskMoves(k, c) BY TasksMove
<1>4. msg'[c].job \in Jobs /\ msg'[c].retry \in Nat BY DEF TypeOK, Message
<1>5. \A j \in Jobs : failures[j] \in Nat /\ failures'[j] \in Nat BY DEF TypeOK
<1>6. CASE place[c] = "unused"
  <2>1. place'[c] # "dead" BY <1>2, <1>6 DEF PlaceMoves
  <2>2. \A k \in Consumers : task'[k][c] \notin {"backoff", "waiting"}
    BY <1>3, <1>6 DEF TaskMoves, TasksLegal
  <2>3. CASE msg'[c].retry = 0 BY <1>4, <1>5, <2>1, <2>2, <2>3
  <2>4. ASSUME NEW k \in Consumers, NEW d \in Copies, task[k][d] = "waiting",
               msg'[c].job = msg[d].job, msg'[c].retry = msg[d].retry + 1
        PROVE  failures'[msg'[c].job] >= msg'[c].retry
    <3>1. failures[msg[d].job] > msg[d].retry
      BY <2>4 DEF FailuresCounted, TasksLegal
    <3>2. failures'[msg[d].job] >= failures[msg[d].job] BY <1>1, <1>4, <2>4 DEF NewHistory
    <3> QED BY <1>4, <1>5, <2>4, <3>1, <3>2, Numbers
  <2> QED BY <1>1, <1>6, <2>1, <2>2, <2>3, <2>4 DEF NewMessages
<1>7. CASE place[c] # "unused"
  <2>1. msg'[c] = msg[c] BY <1>7, MessagesStable
  <2> DEFINE f == failures[msg[c].job]
             g == failures'[msg[c].job]
  <2>2. f \in Nat /\ g \in Nat /\ g >= f /\ f >= msg[c].retry
    BY <1>1, <1>4, <1>5, <1>7, <2>1 DEF NewHistory, FailuresCounted
  <2>3. ASSUME NEW k \in Consumers, task'[k][c] \in {"backoff", "waiting"}
        PROVE  g > msg[c].retry
    <3>1. CASE task[k][c] \in {"backoff", "waiting"}
      <4>1. f > msg[c].retry BY <3>1, <1>7, <2>1 DEF FailuresCounted
      <4> QED BY <4>1, <2>2, Numbers
    <3>2. CASE task[k][c] \notin {"backoff", "waiting"}
      <4>1. task'[k][c] = "backoff" BY <1>3, <2>3, <3>2 DEF TaskMoves
      <4>2. g = f + 1 BY <1>1, <3>2, <4>1 DEF NewTasks
      <4> QED BY <4>2, <2>2, Numbers
    <3> QED BY <3>1, <3>2
  <2>4. ASSUME place'[c] = "dead" PROVE g > MaxRetries
    <3>1. CASE place[c] = "dead"
      <4>1. f > MaxRetries BY <3>1, <1>7, <2>1 DEF FailuresCounted
      <4> QED BY <4>1, <2>2, Numbers
    <3>2. CASE place[c] # "dead"
      <4>1. Exhausted(c) /\ g = f + 1 BY <1>2, <1>7, <2>1, <2>4, <3>2 DEF PlaceMoves
      <4> QED BY <4>1, <2>2, Numbers DEF Exhausted
    <3> QED BY <3>1, <3>2
  <2>5. g >= msg[c].retry BY <2>2, Numbers
  <2> QED BY <2>1, <2>3, <2>4, <2>5
<1> QED BY <1>6, <1>7

\* Every step keeps the handled jobs published.
LEMMA DoneStep ==
  TypeOK /\ TasksLegal /\ DoneArePublished /\ [Next]_vars => DoneArePublished'
<1> SUFFICES ASSUME TypeOK, TasksLegal, DoneArePublished, [Next]_vars, NEW j \in done'
             PROVE  Published(j)'
  BY DEF DoneArePublished
<1>1. PICK c \in Copies : place[c] # "unused" /\ msg[c].job = j
  BY StepEffects DEF NewHistory, DoneArePublished, Published, JobCopies
<1>2. place'[c] # "unused" /\ msg'[c].job = j BY <1>1, MessagesStable
<1> QED BY <1>2 DEF Published, JobCopies

\* What stands in for a message that is gone survives every step, or is
\* itself replaced.
LEMMA CoverKept ==
  ASSUME TypeOK, TasksLegal, ChannelOwnsTasks, GoneAreCovered, [Next]_vars,
         NEW c \in Copies, place[c] # "unused", Covered(c)
  PROVE  Covered(c)'
<1> DEFINE Stands(d, n) == /\ msg[d].job = msg[c].job /\ msg[d].retry > n
                           /\ place[d] \in {"queued", "dead"}
<1>1. done \subseteq done' BY StepEffects DEF NewHistory
<1>2. msg'[c] = msg[c] BY MessagesStable
<1>3. CASE msg[c].job \in done BY <1>1, <1>2, <1>3 DEF Covered
<1>4. ASSUME NEW d \in Copies, Stands(d, msg[c].retry), place'[d] # "acked" PROVE Covered(c)'
  <2>1. msg'[d] = msg[d] /\ place'[d] # "unused" BY <1>4, MessagesStable
  <2>2. place'[d] \in {"queued", "dead"} BY <1>4, PlacesMove DEF PlaceMoves
  <2> QED BY <1>2, <1>4, <2>1, <2>2 DEF Covered
<1>5. ASSUME NEW d \in Copies, Stands(d, msg[c].retry), place'[d] = "acked" PROVE Covered(c)'
  <2>1. msg[d].job \in done' \/ \E k \in Consumers : task[k][d] = "republished"
    BY <1>5, PlacesMove DEF PlaceMoves
  <2>2. CASE msg[d].job \in done' BY <1>2, <1>5, <2>2 DEF Covered
  <2>3. CASE \E k \in Consumers : task[k][d] = "republished"
    <3>1. Covered(d) BY <2>3 DEF GoneAreCovered
    <3>2. CASE msg[d].job \in done BY <1>1, <1>2, <1>5, <3>2 DEF Covered
    <3>3. ASSUME NEW e \in Copies, msg[e].job = msg[d].job, msg[e].retry > msg[d].retry,
                 place[e] \in {"queued", "dead"}
          PROVE  Covered(c)'
      <4>1. d # e BY <3>3, Numbers
      <4>2. place'[e] # "acked" BY <1>5, <3>3, <4>1, OneMoves
      <4>3. Stands(e, msg[c].retry) BY <1>5, <3>3, Numbers
      <4> QED BY <1>4, <4>2, <4>3
    <3> QED BY <3>1, <3>2, <3>3 DEF Covered
  <2> QED BY <2>1, <2>2, <2>3
<1> QED BY <1>3, <1>4, <1>5 DEF Covered

\* Every step keeps what is gone covered.
LEMMA GoneStep ==
  TypeOK /\ TasksLegal /\ ChannelOwnsTasks /\ GoneAreCovered /\ [Next]_vars => GoneAreCovered'
<1> SUFFICES ASSUME TypeOK, TasksLegal, ChannelOwnsTasks, GoneAreCovered, [Next]_vars,
                    NEW c \in Copies,
                    place'[c] = "acked" \/ \E k \in Consumers : task'[k][c] = "republished"
             PROVE  Covered(c)'
  BY DEF GoneAreCovered
<1>1. ASSUME Covered(c), place[c] # "unused" PROVE Covered(c)' BY <1>1, CoverKept
<1>2. CASE place[c] = "acked" BY <1>1, <1>2 DEF GoneAreCovered
<1>3. ASSUME NEW k \in Consumers, task[k][c] = "republished" PROVE Covered(c)'
  BY <1>1, <1>3 DEF GoneAreCovered, TasksLegal
<1>4. CASE place'[c] = "acked" /\ place[c] # "acked"
  <2>1. place[c] = "queued" /\ (msg[c].job \in done' \/ \E k \in Consumers : task[k][c] = "republished")
    BY <1>4, PlacesMove DEF PlaceMoves
  <2>2. msg'[c] = msg[c] BY <2>1, MessagesStable
  <2> QED BY <1>3, <2>1, <2>2 DEF Covered
<1>5. ASSUME NEW k \in Consumers, task'[k][c] = "republished", task[k][c] # "republished"
      PROVE  Covered(c)'
  <2>1. PICK d \in Copies : /\ place[d] = "unused" /\ place'[d] = "queued"
                            /\ msg'[d].job = msg[c].job /\ msg'[d].retry = msg[c].retry + 1
    BY <1>5, StepEffects DEF NewTasks
  <2>2. place[c] # "unused" BY <1>5, TasksMove DEF TaskMoves, TasksLegal
  <2>3. msg'[c] = msg[c] BY <2>2, MessagesStable
  <2> QED BY <2>1, <2>3, Numbers DEF Covered
<1> QED BY <1>2, <1>3, <1>4, <1>5
-----------------------------------------------------------------------------
(* The theorems. *)

\* The invariant holds before anything is published.
LEMMA InitInv == Init => QueueInv
<1> SUFFICES ASSUME Init PROVE QueueInv OBVIOUS
<1>1. TypeOK /\ TasksLegal BY InitTyped
<1>2. SlotAccounting
  <2>1. \A k \in Consumers : SlotHolders(k) = {} BY DEF Init, SlotHolders, SlotTasks
  <2>2. Cardinality({}) = 0 BY FS_EmptySet
  <2>3. \A k \in Consumers : sem[k] = 0 /\ 0 <= MaxConcurrency BY QueueAssumption DEF Init
  <2> QED BY <2>1, <2>2, <2>3 DEF SlotAccounting
<1>3. OffIsIdle /\ ChannelOwnsTasks BY DEF Init, OffIsIdle, ChannelOwnsTasks
<1>4. GoneAreCovered /\ FailuresCounted /\ DoneArePublished
  BY DEF Init, GoneAreCovered, FailuresCounted, DoneArePublished
<1> QED BY <1>1, <1>2, <1>3, <1>4 DEF QueueInv

\* It is inductive: every step of the code and of the broker keeps it.
LEMMA StepInv == QueueInv /\ [Next]_vars => QueueInv'
BY TypeStep, LegalStep, SlotStep, IdleStep, OwnershipStep, GoneStep, FailuresStep, DoneStep
DEF QueueInv

\* QueueInv is an invariant of the adapter: it is inductive.
THEOREM QueueInvariant == Spec => []QueueInv
BY InitInv, StepInv, PTL DEF Spec

\* Type correctness.
THEOREM TypeCorrect == Spec => []TypeOK
<1>1. QueueInv => TypeOK BY DEF QueueInv
<1> QED BY <1>1, QueueInvariant, PTL

\* No path through ConsumeJob leaks a slot or releases one twice, and no
\* consumer runs more than maxConcurrency handlers.
THEOREM SlotsAccounted == Spec => []SlotAccounting
<1>1. QueueInv => SlotAccounting BY DEF QueueInv
<1> QED BY <1>1, QueueInvariant, PTL

\* Two connected consumers never work on one message.
THEOREM OwnershipExclusive == Spec => []ChannelOwnsTasks
<1>1. QueueInv => ChannelOwnsTasks BY DEF QueueInv
<1> QED BY <1>1, QueueInvariant, PTL

\* A published job is handled, queued or dead-lettered at any time, whatever
\* consumers fail: a message is acknowledged only when its job is done or a
\* message with a higher retry count has taken its place.
LEMMA InvNoJobLost == QueueInv => NoJobLost
<1> SUFFICES ASSUME QueueInv, NEW j \in Jobs, Published(j), j \notin done
             PROVE  QueuedCopies(j) \cup DeadCopies(j) # {}
  BY DEF NoJobLost
<1>1. PICK c \in Copies : place[c] # "unused" /\ msg[c].job = j BY DEF Published, JobCopies
<1>2. CASE place[c] \in {"queued", "dead"}
  BY <1>1, <1>2 DEF QueuedCopies, DeadCopies, JobCopies
<1>3. CASE place[c] = "acked"
  <2>1. Covered(c) BY <1>3 DEF QueueInv, GoneAreCovered
  <2>2. PICK d \in Copies : msg[d].job = j /\ place[d] \in {"queued", "dead"}
    BY <1>1, <2>1 DEF Covered
  <2> QED BY <2>2 DEF QueuedCopies, DeadCopies, JobCopies
<1> QED BY <1>1, <1>2, <1>3 DEF QueueInv, TypeOK, Places

\* A published job never vanishes before its handler has succeeded, in the
\* retry of ConsumeJob least of all.
THEOREM JobsNeverLost == Spec => []NoJobLost
BY InvNoJobLost, QueueInvariant, PTL

\* Only the handler's own failures dead-letter a job.
LEMMA InvDeadLettersJustified == QueueInv => DeadLettersJustified
<1> SUFFICES ASSUME QueueInv, NEW j \in Jobs, DeadCopies(j) # {}
             PROVE  failures[j] >= MaxRetries + 1
  BY DEF DeadLettersJustified
<1>1. PICK c \in Copies : place[c] = "dead" /\ msg[c].job = j BY DEF DeadCopies, JobCopies
<1>2. failures[j] > MaxRetries /\ failures[j] \in Nat /\ MaxRetries \in Nat
  BY <1>1, QueueAssumption DEF QueueInv, FailuresCounted, TypeOK
<1> QED BY <1>2

\* A job is dead-lettered only when its handler has failed on it more than
\* MaxRetries times: Nack without requeue is for these only.
THEOREM DeadLettersAreJustified == Spec => []DeadLettersJustified
BY InvDeadLettersJustified, QueueInvariant, PTL

-----------------------------------------------------------------------------
(* The adapter implements JobDelivery. *)

\* The abstract state, before and after a step.
LEMMA Bars ==
  /\ owedBar = {j \in Jobs : \E c \in Copies : place[c] = "queued" /\ msg[c].job = j}
  /\ deadBar = {j \in Jobs : \E c \in Copies : place[c] = "dead" /\ msg[c].job = j}
  /\ owedBar' = {j \in Jobs : \E c \in Copies : place'[c] = "queued" /\ msg'[c].job = j}
  /\ deadBar' = {j \in Jobs : \E c \in Copies : place'[c] = "dead" /\ msg'[c].job = j}
BY DEF owedBar, deadBar, QueuedCopies, DeadCopies, JobCopies

\* The adapter starts where the contract starts.
LEMMA DeliveryInitial == Init => Delivery!DeliveryInit
BY Bars DEF Init, Delivery!DeliveryInit

AbstractStep == Delivery!DeliveryNext \/ UNCHANGED <<owedBar, done, deadBar>>

\* The storing of a message of job j adds j to what is owed, if it is a job.
LEMMA EnqueueBars ==
  ASSUME TypeOK, NEW c \in Copies, NEW j, NEW r, Enqueue(c, j, r)
  PROVE  deadBar' = deadBar /\ owedBar' = owedBar \cup ({j} \cap Jobs)
<1>1. /\ place[c] = "unused" /\ place'[c] = "queued" /\ msg'[c].job = j
      /\ \A d \in Copies : d # c => msg'[d] = msg[d] /\ place'[d] = place[d]
  BY DEF Enqueue, TypeOK
<1> QED BY <1>1, Bars

\* The return of a goroutine takes at most its own job off what is owed, and
\* dead-letters at most its own job.
LEMMA ReturnBars ==
  ASSUME TypeOK, ChannelOwnsTasks, NEW k \in Consumers, NEW c \in Copies,
         NEW p \in {"queued", "acked", "dead"}, Return(k, c, p)
  PROVE  \/ owedBar' = owedBar /\ deadBar' = deadBar
         \/ /\ p # "queued" /\ place[c] = "queued"
            /\ owedBar' \in {owedBar, owedBar \ {msg[c].job}}
            /\ deadBar' = IF p = "dead" THEN deadBar \cup ({msg[c].job} \cap Jobs) ELSE deadBar
<1>1. msg' = msg /\ \A d \in Copies : d # c => place'[d] = place[d]
  BY ReturnMoves DEF Return
<1>2. CASE place'[c] = place[c] BY <1>1, <1>2, Bars
<1>3. CASE place'[c] # place[c]
  <2>1. place[c] = "queued" /\ place'[c] = p /\ p # "queued" BY <1>3, ReturnMoves
  <2>2. \A j \in owedBar : j # msg[c].job => j \in owedBar' BY <1>1, Bars
  <2>3. owedBar' \subseteq owedBar BY <1>1, <2>1, Bars
  <2>4. owedBar' \in {owedBar, owedBar \ {msg[c].job}} BY <2>2, <2>3
  <2>5. deadBar' = IF p = "dead" THEN deadBar \cup ({msg[c].job} \cap Jobs) ELSE deadBar
    BY <1>1, <2>1, Bars
  <2> QED BY <2>1, <2>4, <2>5
<1> QED BY <1>2, <1>3

\* Every step of the adapter is a step of the contract or leaves it alone.
LEMMA DeliveryStep == QueueInv /\ [Next]_vars => AbstractStep
<1> SUFFICES ASSUME QueueInv, [Next]_vars PROVE AbstractStep OBVIOUS
<1> USE DEF vars, brokerVars, localVars, envVars, history
<1>0. TypeOK /\ TasksLegal /\ ChannelOwnsTasks BY DEF QueueInv
<1>a. ASSUME msg' = msg, place' = place, done' = done PROVE AbstractStep
  BY <1>a, Bars DEF AbstractStep
<1>b. \A c \in Copies : msg[c].job # Garbage => msg[c].job \in Jobs BY <1>0, Numbers
<1>1. CASE UNCHANGED vars BY <1>1, <1>a
<1>2. ASSUME NEW j \in Jobs, PublishJob(j) PROVE AbstractStep
  <2>1. deadBar' = deadBar /\ owedBar' = owedBar \cup {j} /\ done' = done
    BY <1>0, <1>2, EnqueueBars DEF PublishJob
  <2>2. ~ Published(j) BY <1>2 DEF PublishJob, Published, JobCopies
  <2>3. j \notin done BY <2>2 DEF QueueInv, DoneArePublished
  <2>4. j \notin owedBar \cup deadBar BY <2>2 DEF owedBar, deadBar, QueuedCopies, DeadCopies, Published
  <2>5. Delivery!Submit(j) BY <2>1, <2>3, <2>4 DEF Delivery!Submit
  <2> QED BY <2>5 DEF AbstractStep, Delivery!DeliveryNext
<1>3. CASE PublishForeign
  <2>1. deadBar' = deadBar /\ owedBar' = owedBar /\ done' = done
    BY <1>0, <1>3, EnqueueBars, QueueAssumption DEF PublishForeign
  <2> QED BY <2>1 DEF AbstractStep
<1>4. ASSUME NEW k \in Consumers,
             Subscribe(k) \/ StopLoop(k) \/ Cancel(k) \/ LoseConnection(k) \/ Exit(k)
      PROVE  AbstractStep
  BY <1>a, <1>4 DEF Subscribe, StopLoop, Cancel, LoseConnection, Exit
<1>5. ASSUME NEW k \in Consumers, NEW c \in Copies,
             Deliver(k, c) \/ Receive(k, c) \/ DropHeld(k, c) \/ Spawn(k, c)
      PROVE  AbstractStep
  BY <1>a, <1>5 DEF Deliver, Receive, DropHeld, Spawn
<1>6. ASSUME NEW k \in Consumers, NEW c \in Copies, Goroutine(k, c) PROVE AbstractStep
  <2> DEFINE j == msg[c].job
  <2>1. CASE CallHandler(k, c) \/ HandlerFails(k, c) \/ BackoffElapses(k, c)
    BY <1>a, <2>1 DEF CallHandler, HandlerFails, BackoffElapses
  <2>2. CASE RefuseCancelled(k, c) \/ RetryCancelled(k, c) \/ RepublishFails(k, c)
    <3>1. Return(k, c, "queued") /\ done' = done
      BY <2>2 DEF RefuseCancelled, RetryCancelled, RepublishFails, ReturnSlot
    <3> QED BY <1>0, <3>1, ReturnBars DEF AbstractStep
  <2>3. CASE RefuseMalformed(k, c)
    <3>1. Return(k, c, "dead") /\ j = Garbage /\ done' = done
      BY <2>3 DEF RefuseMalformed, ReturnSlot
    <3>2. owedBar' = owedBar /\ deadBar' = deadBar
      <4>1. owedBar \ {Garbage} = owedBar /\ deadBar \cup ({Garbage} \cap Jobs) = deadBar
        BY QueueAssumption, Bars
      <4>2. /\ owedBar' \in {owedBar, owedBar \ {j}}
            /\ deadBar' \in {deadBar, deadBar \cup ({j} \cap Jobs)}
        BY <1>0, <3>1, ReturnBars
      <4> QED BY <3>1, <4>1, <4>2
    <3> QED BY <3>1, <3>2 DEF AbstractStep
  <2>4. CASE HandlerSucceeds(k, c)
    <3>1. Return(k, c, "acked") /\ done' = done \cup {j} /\ j \in Jobs /\ place[c] # "unused"
      BY <1>0, <1>b, <2>4 DEF HandlerSucceeds, ReturnSlot, TasksLegal
    <3>2. deadBar' = deadBar /\ owedBar' \in {owedBar, owedBar \ {j}}
      BY <1>0, <3>1, ReturnBars
    <3>3. Published(j) BY <3>1 DEF Published, JobCopies
    <3>4. j \in owedBar \cup done \cup deadBar
      BY <3>1, <3>3, InvNoJobLost DEF NoJobLost, owedBar, deadBar
    <3>5. Delivery!Succeed(j) BY <3>1, <3>2, <3>4 DEF Delivery!Succeed
    <3> QED BY <3>1, <3>5 DEF AbstractStep, Delivery!DeliveryNext
  <2>5. CASE HandlerFailsForGood(k, c)
    <3>1. Return(k, c, "dead") /\ done' = done /\ j \in Jobs
      BY <1>0, <1>b, <2>5 DEF HandlerFailsForGood, ReturnSlot, TasksLegal
    <3>2. CASE owedBar' = owedBar /\ deadBar' = deadBar BY <3>1, <3>2 DEF AbstractStep
    <3>3. CASE /\ place[c] = "queued" /\ owedBar' \in {owedBar, owedBar \ {j}}
               /\ deadBar' = deadBar \cup {j}
      <4>1. j \in owedBar BY <3>1, <3>3, Bars
      <4>2. Delivery!Bury(j) BY <3>1, <3>3, <4>1 DEF Delivery!Bury
      <4> QED BY <3>1, <4>2 DEF AbstractStep, Delivery!DeliveryNext
    <3> QED BY <1>0, <3>1, <3>2, <3>3, ReturnBars
  <2>6. CASE Republish(k, c)
    <3>1. /\ done' = done /\ j \in Jobs /\ task[k][c] = "waiting" /\ k \in conn
          /\ \E d \in Copies : Enqueue(d, j, msg[c].retry + 1)
      BY <1>0, <1>b, <2>6 DEF Republish, TasksLegal
    <3>2. holder[c] = k /\ k # Nobody BY <1>0, <3>1, QueueAssumption DEF ChannelOwnsTasks
    <3>3. j \in owedBar BY <1>0, <3>1, <3>2, Bars DEF ChannelOwnsTasks
    <3>4. owedBar' = owedBar /\ deadBar' = deadBar BY <1>0, <3>1, <3>3, EnqueueBars
    <3> QED BY <3>1, <3>4 DEF AbstractStep
  <2>7. CASE AckRepublished(k, c)
    <3>1. Return(k, c, "acked") /\ done' = done /\ j \in Jobs /\ task[k][c] = "republished"
      BY <1>0, <1>b, <2>7 DEF AckRepublished, ReturnSlot, TasksLegal
    <3>2. deadBar' = deadBar /\ owedBar' \in {owedBar, owedBar \ {j}}
      BY <1>0, <3>1, ReturnBars
    <3>3. CASE owedBar' = owedBar BY <3>1, <3>2, <3>3 DEF AbstractStep
    <3>4. CASE owedBar' # owedBar
      <4>1. j \in owedBar /\ j \notin owedBar' BY <3>2, <3>4
      <4>2. j \in done \cup deadBar
        <5>1. Covered(c) BY <3>1 DEF QueueInv, GoneAreCovered
        <5>2. CASE j \in done BY <5>2
        <5>3. ASSUME NEW d \in Copies, msg[d].job = j, msg[d].retry > msg[c].retry,
                     place[d] \in {"queued", "dead"}
              PROVE  j \in deadBar
          <6>1. d # c BY <1>0, <5>3, Numbers
          <6>2. msg' = msg /\ place'[d] = place[d]
            BY <1>0, <3>1, <6>1, ReturnMoves DEF Return
          <6>3. place[d] # "queued" BY <3>1, <4>1, <5>3, <6>2, Bars
          <6> QED BY <3>1, <5>3, <6>3, Bars
        <5> QED BY <5>1, <5>2, <5>3 DEF Covered
      <4>3. Delivery!Discharge(j) BY <3>1, <3>2, <4>1, <4>2 DEF Delivery!Discharge
      <4> QED BY <3>1, <4>3 DEF AbstractStep, Delivery!DeliveryNext
    <3> QED BY <3>3, <3>4
  <2> QED BY <1>6, <2>1, <2>2, <2>3, <2>4, <2>5, <2>6, <2>7 DEF Goroutine
<1> QED BY <1>1, <1>2, <1>3, <1>4, <1>5, <1>6 DEF Next

\* The adapter delivers at least once.
THEOREM DeliversAtLeastOnce == Spec => ImplementsDelivery
<1>1. QueueInv /\ [Next]_vars => [Delivery!DeliveryNext]_(Delivery!deliveryVars)
  BY DeliveryStep DEF AbstractStep, Delivery!deliveryVars
<1> QED
  BY <1>1, DeliveryInitial, QueueInvariant, PTL
  DEF Spec, ImplementsDelivery, Delivery!DeliverySpec
=============================================================================
