---------------------------- MODULE JobFateProofs ----------------------------
(***************************************************************************)
(* Proof that the adapter of JobQueue handles a job exactly once as long   *)
(* as no connection was lost, for every number of jobs, consumers, slots,  *)
(* retries and messages.  It rests on the invariant of JobQueueProofs: a   *)
(* connected consumer owns the messages it works on.                       *)
(***************************************************************************)
EXTENDS JobQueueProofs

\* No connection was lost and no process ended.
Connected == \A k \in Consumers : loop[k] # "off" => k \in conn

\* Message c stands for its job: it is dead-lettered, or queued and not yet
\* replaced by a retry.
Bears(c) ==
  \/ place[c] = "dead"
  \/ place[c] = "queued" /\ \A k \in Consumers : task[k][c] # "republished"
Bearers(j) == {c \in Copies : msg[c].job = j /\ Bears(c)}

\* The fate of a job: one message stands for it until it is done, and none
\* from then on.
Fate(j) ==
  Published(j) => IF j \in done THEN Bearers(j) = {} ELSE \E c \in Copies : Bearers(j) = {c}

\* The inductive invariant.
FateInv == Connected => \A j \in Jobs : Fate(j)

-----------------------------------------------------------------------------
\* While no connection is lost, whoever works on a message is its only holder.
LEMMA WorkIsExclusive ==
  ASSUME QueueInv, Connected, NEW k \in Consumers, NEW c \in Copies, task[k][c] # "none"
  PROVE  /\ k \in conn /\ holder[c] = k /\ place[c] = "queued"
         /\ \A q \in Consumers : task[q][c] # "none" => q = k
<1>1. \A q \in Consumers : task[q][c] # "none" => q \in conn /\ holder[c] = q
  BY DEF QueueInv, OffIsIdle, Connected, ChannelOwnsTasks
<1>2. holder[c] # Nobody BY <1>1, QueueAssumption
<1> QED BY <1>1, <1>2 DEF QueueInv, ChannelOwnsTasks

\* Connections come and go but those that are lost stay lost.
LEMMA StillConnected == TypeOK /\ OffIsIdle /\ [Next]_vars /\ Connected' => Connected
<1> SUFFICES ASSUME TypeOK, OffIsIdle, [Next]_vars, NEW q \in Consumers,
                    loop'[q] # "off" => q \in conn'
             PROVE  loop[q] # "off" => q \in conn
  BY DEF Connected
<1> USE DEF TypeOK, vars, brokerVars, localVars, envVars, history
<1>1. CASE UNCHANGED vars BY <1>1
<1>2. ASSUME NEW j \in Jobs, PublishJob(j) PROVE loop' = loop /\ conn' = conn
  BY <1>2 DEF PublishJob
<1>3. CASE PublishForeign BY <1>3 DEF PublishForeign
<1>4. ASSUME NEW k \in Consumers,
             Subscribe(k) \/ StopLoop(k) \/ Cancel(k) \/ LoseConnection(k) \/ Exit(k)
      PROVE  loop[q] # "off" => q \in conn
  BY <1>4 DEF Subscribe, StopLoop, Cancel, LoseConnection, Exit, OffIsIdle
<1>5. ASSUME NEW k \in Consumers, NEW c \in Copies,
             Deliver(k, c) \/ Receive(k, c) \/ DropHeld(k, c) \/ Spawn(k, c) \/ Goroutine(k, c)
      PROVE  conn' = conn /\ (loop[q] # "off" => loop'[q] # "off")
  BY <1>5
  DEF Deliver, Receive, DropHeld, Spawn, Goroutine, RefuseCancelled, RefuseMalformed, CallHandler,
      HandlerSucceeds, HandlerFailsForGood, HandlerFails, BackoffElapses, RetryCancelled, Republish,
      RepublishFails, AckRepublished, ReturnSlot, Return
<1> QED BY <1>1, <1>2, <1>3, <1>4, <1>5 DEF Next

\* A step that changes no bearer of j and does not handle j keeps its fate.
LEMMA FateKept ==
  ASSUME NEW j \in Jobs, Fate(j), Bearers(j)' = Bearers(j), j \in done' <=> j \in done,
         Published(j)' => Published(j)
  PROVE  Fate(j)'
BY DEF Fate

LEMMA PublishedMeans ==
  /\ \A j \in Jobs : Published(j) <=> \E c \in Copies : place[c] # "unused" /\ msg[c].job = j
  /\ \A j \in Jobs : Published(j)' <=> \E c \in Copies : place'[c] # "unused" /\ msg'[c].job = j
BY DEF Published, JobCopies

\* So does one after which the same messages are stored and stand for their jobs.
LEMMA BearersKept ==
  ASSUME TypeOK, msg' = msg, done' = done, NEW j \in Jobs, Fate(j),
         \A c \in Copies : (place'[c] = "unused" <=> place[c] = "unused") /\ (Bears(c)' <=> Bears(c))
  PROVE  Fate(j)'
<1>1. Bearers(j)' = Bearers(j) BY DEF Bearers
<1>2. Published(j)' => Published(j) BY PublishedMeans
<1> QED BY <1>1, <1>2, FateKept

\* A new message stands for its job, and changes nothing for the others.
LEMMA EnqueueBears ==
  ASSUME QueueInv, NEW d \in Copies, NEW x, NEW r, Enqueue(d, x, r),
         \A k \in Consumers : task'[k][d] = task[k][d]
  PROVE  /\ Bears(d)' /\ ~ Bears(d) /\ place'[d] # "unused" /\ msg'[d].job = x
         /\ \A c \in Copies \ {d} : place'[c] = place[c] /\ msg'[c] = msg[c]
<1>1. place[d] = "unused" /\ \A k \in Consumers : task[k][d] = "none"
  BY DEF QueueInv, TasksLegal, Enqueue
<1>2. /\ place'[d] = "queued" /\ msg'[d].job = x
      /\ \A c \in Copies \ {d} : place'[c] = place[c] /\ msg'[c] = msg[c]
  BY DEF Enqueue, QueueInv, TypeOK
<1> QED BY <1>1, <1>2 DEF Bears

\* Every step of a goroutine keeps the fate of every job.
LEMMA GoroutineFate ==
  ASSUME QueueInv, Connected, NEW k \in Consumers, NEW c \in Copies, Goroutine(k, c),
         NEW j \in Jobs, \A i \in Jobs : Fate(i)
  PROVE  Fate(j)'
<1> USE DEF QueueInv, TypeOK
<1>1. task[k][c] # "none"
  BY DEF Goroutine, RefuseCancelled, RefuseMalformed, CallHandler, HandlerSucceeds,
         HandlerFailsForGood, HandlerFails, BackoffElapses, RetryCancelled, Republish,
         RepublishFails, AckRepublished
<1>2. /\ k \in conn /\ holder[c] = k /\ place[c] = "queued"
      /\ \A q \in Consumers : task[q][c] # "none" => q = k
  BY <1>1, WorkIsExclusive
<1>3. task[k][c] # "republished" <=> Bears(c) BY <1>2 DEF Bears
<1>4. ASSUME NEW i \in Jobs, msg[c].job = i, Bears(c)
      PROVE  i \notin done /\ Bearers(i) = {c}
  <2>1. Published(i) BY <1>2, <1>4, PublishedMeans
  <2>2. c \in Bearers(i) BY <1>4 DEF Bearers
  <2> QED BY <2>1, <2>2 DEF Fate
<1>5. ASSUME NEW p \in Places, Return(k, c, p)
      PROVE  /\ msg' = msg /\ place' = [place EXCEPT ![c] = p]
             /\ \A q \in Consumers : task'[q][c] = "none"
             /\ \A d \in Copies \ {c}, q \in Consumers : task'[q][d] = task[q][d]
  BY <1>2, <1>5 DEF Return, Settle, SetTask
<1>6. ASSUME NEW p \in {"queued", "dead"}, Return(k, c, p), done' = done,
             task[k][c] # "republished"
      PROVE  Fate(j)'
  <2>1. \A d \in Copies : /\ place'[d] = "unused" <=> place[d] = "unused"
                          /\ Bears(d)' <=> Bears(d)
    BY <1>2, <1>3, <1>5, <1>6 DEF Bears, Places
  <2> QED BY <1>5, <1>6, <2>1, BearersKept DEF Places
<1>7. CASE \/ RefuseCancelled(k, c) \/ RefuseMalformed(k, c) \/ HandlerFailsForGood(k, c)
           \/ RetryCancelled(k, c)
  BY <1>6, <1>7
  DEF RefuseCancelled, RefuseMalformed, HandlerFailsForGood, RetryCancelled, ReturnSlot, history
<1>8. CASE CallHandler(k, c) \/ HandlerFails(k, c) \/ BackoffElapses(k, c)
  <2>1. /\ msg' = msg /\ place' = place /\ done' = done /\ task[k][c] # "republished"
        /\ \E t \in Tasks \ {"republished"} : SetTask(k, c, t)
    BY <1>8 DEF CallHandler, HandlerFails, BackoffElapses, brokerVars, history, Tasks
  <2>2. \A d \in Copies : Bears(d)' <=> Bears(d) BY <2>1 DEF Bears, SetTask
  <2> QED BY <2>1, <2>2, BearersKept
<1>9. CASE HandlerSucceeds(k, c)
  <2>1. Return(k, c, "acked") /\ done' = done \cup {msg[c].job} /\ msg[c].job \in Jobs
    BY <1>9 DEF HandlerSucceeds, ReturnSlot, TasksLegal, Message
  <2>2. /\ msg' = msg /\ place' = [place EXCEPT ![c] = "acked"]
        /\ \A d \in Copies \ {c}, q \in Consumers : task'[q][d] = task[q][d]
    BY <1>5, <2>1 DEF Places
  <2>3. ~ Bears(c)' /\ \A d \in Copies \ {c} : Bears(d)' <=> Bears(d) BY <2>2 DEF Bears
  <2>4. \A i \in Jobs : Bearers(i)' = Bearers(i) \ {c} BY <2>2, <2>3 DEF Bearers
  <2>5. CASE msg[c].job = j
    <3>1. Bearers(j) = {c} BY <1>3, <1>4, <1>9, <2>5 DEF HandlerSucceeds
    <3> QED BY <2>1, <2>4, <2>5, <3>1 DEF Fate
  <2>6. CASE msg[c].job # j
    <3>1. Bearers(j)' = Bearers(j) BY <2>4, <2>6 DEF Bearers
    <3>2. Published(j)' => Published(j) BY <1>2, <2>2, PublishedMeans
    <3> QED BY <2>1, <2>6, <3>1, <3>2, FateKept
  <2> QED BY <2>5, <2>6
<1>10. CASE Republish(k, c)
  <2>1. PICK d \in Copies : Enqueue(d, msg[c].job, msg[c].retry + 1) BY <1>10 DEF Republish
  <2>2. /\ done' = done /\ SetTask(k, c, "republished") /\ task[k][c] = "waiting"
    BY <1>10 DEF Republish, history
  <2>3. d # c BY <1>2, <2>1 DEF Enqueue
  <2>4. \A q \in Consumers, e \in Copies \ {c} : task'[q][e] = task[q][e]
    BY <2>2 DEF SetTask
  <2>5. /\ Bears(d)' /\ ~ Bears(d) /\ msg'[d].job = msg[c].job
        /\ \A e \in Copies \ {d} : place'[e] = place[e] /\ msg'[e] = msg[e]
    BY <2>1, <2>3, <2>4, EnqueueBears
  <2>6. ~ Bears(c)' /\ \A e \in Copies \ {c, d} : Bears(e)' <=> Bears(e)
    <3>1. task'[k][c] = "republished" BY <2>2 DEF SetTask
    <3>2. place'[c] = "queued" BY <1>2, <2>3, <2>5
    <3> QED BY <2>4, <2>5, <3>1, <3>2 DEF Bears
  <2>7. CASE msg[c].job = j
    <3>1. j \notin done /\ Bearers(j) = {c} BY <1>3, <1>4, <2>2, <2>7
    <3>2. Bearers(j)' = {d}
      <4>1. \A e \in Copies : msg'[e].job = j /\ Bears(e)' <=> e = d
        BY <2>3, <2>5, <2>6, <2>7, <3>1 DEF Bearers
      <4> QED BY <4>1 DEF Bearers
    <3> QED BY <2>2, <3>1, <3>2 DEF Fate
  <2>8. CASE msg[c].job # j
    <3>1. Bearers(j)' = Bearers(j) BY <2>5, <2>6, <2>8 DEF Bearers
    <3>2. Published(j)' => Published(j) BY <2>5, <2>8, PublishedMeans
    <3> QED BY <2>2, <3>1, <3>2, FateKept
  <2> QED BY <2>7, <2>8
<1>11. CASE AckRepublished(k, c)
  <2>1. Return(k, c, "acked") /\ done' = done /\ task[k][c] = "republished"
    BY <1>11 DEF AckRepublished, ReturnSlot, history
  <2>2. \A d \in Copies : /\ place'[d] = "unused" <=> place[d] = "unused"
                          /\ Bears(d)' <=> Bears(d)
    BY <1>2, <1>3, <1>5, <2>1 DEF Bears, Places
  <2> QED BY <1>5, <2>1, <2>2, BearersKept DEF Places
<1>12. CASE RepublishFails(k, c) BY <1>2, <1>12 DEF RepublishFails
<1> QED BY <1>7, <1>8, <1>9, <1>10, <1>11, <1>12 DEF Goroutine

-----------------------------------------------------------------------------
\* Every step keeps the fate of every job, unless it loses a connection.
LEMMA FateStep == QueueInv /\ FateInv /\ [Next]_vars => FateInv'
<1> SUFFICES ASSUME QueueInv, FateInv, [Next]_vars, Connected', NEW j \in Jobs
             PROVE  Fate(j)'
  BY DEF FateInv
<1> USE DEF vars, brokerVars, localVars, envVars, history
<1>1. Connected BY StillConnected DEF QueueInv
<1>2. \A i \in Jobs : Fate(i) BY <1>1 DEF FateInv
<1>3. ASSUME msg' = msg, place' = place, done' = done,
             \A k \in Consumers, c \in Copies :
               task'[k][c] = "republished" <=> task[k][c] = "republished"
      PROVE  Fate(j)'
  <2>1. \A c \in Copies : Bears(c)' <=> Bears(c) BY <1>3 DEF Bears
  <2> QED BY <1>2, <1>3, <2>1, BearersKept DEF QueueInv
<1>4. CASE UNCHANGED vars BY <1>3, <1>4
<1>5. ASSUME NEW d \in Copies, NEW x, Enqueue(d, x, 0), task' = task, done' = done,
             \A c \in Copies : place[c] = "unused" \/ msg[c].job # x
      PROVE  Fate(j)'
  <2>1. /\ Bears(d)' /\ ~ Bears(d) /\ msg'[d].job = x
        /\ \A c \in Copies \ {d} : place'[c] = place[c] /\ msg'[c] = msg[c]
    BY <1>5, EnqueueBears
  <2>2. \A c \in Copies \ {d} : Bears(c)' <=> Bears(c) BY <1>5, <2>1 DEF Bears
  <2>3. CASE j = x
    <3>1. ~ Published(j) BY <1>5, <2>3, PublishedMeans
    <3>2. j \notin done BY <3>1 DEF QueueInv, DoneArePublished
    <3>3. \A c \in Copies : Bears(c) => place[c] # "unused" BY DEF Bears
    <3>4. Bearers(j)' = {d} BY <1>5, <2>1, <2>2, <2>3, <3>3 DEF Bearers
    <3> QED BY <1>5, <3>2, <3>4 DEF Fate
  <2>4. CASE j # x
    <3>1. Bearers(j)' = Bearers(j) BY <2>1, <2>2, <2>4 DEF Bearers
    <3>2. Published(j)' => Published(j) BY <2>1, <2>4, PublishedMeans
    <3> QED BY <1>2, <1>5, <3>1, <3>2, FateKept
  <2> QED BY <2>3, <2>4
<1>6. ASSUME NEW i \in Jobs, PublishJob(i) PROVE Fate(j)' BY <1>5, <1>6 DEF PublishJob
<1>7. CASE PublishForeign BY <1>5, <1>7 DEF PublishForeign
<1>8. ASSUME NEW k \in Consumers,
             Subscribe(k) \/ StopLoop(k) \/ Cancel(k) \/ LoseConnection(k) \/ Exit(k)
      PROVE  Fate(j)'
  <2>1. CASE Subscribe(k) \/ StopLoop(k) \/ Cancel(k)
    BY <1>3, <2>1 DEF Subscribe, StopLoop, Cancel
  <2>2. CASE LoseConnection(k)
    BY <2>2 DEF LoseConnection, Connected, QueueInv, OffIsIdle, TypeOK
  <2>3. CASE Exit(k) BY <2>3 DEF Exit, Connected, QueueInv, TypeOK
  <2> QED BY <1>8, <2>1, <2>2, <2>3
<1>9. ASSUME NEW k \in Consumers, NEW c \in Copies,
             Deliver(k, c) \/ Receive(k, c) \/ DropHeld(k, c) \/ Spawn(k, c)
      PROVE  Fate(j)'
  <2>1. task[k][c] # "republished"
    <3>1. CASE Deliver(k, c)
      BY <1>1, <3>1, WorkIsExclusive, QueueAssumption DEF Deliver
    <3> QED BY <1>9, <3>1 DEF Receive, DropHeld, Spawn
  <2>2. /\ msg' = msg /\ place' = place /\ done' = done
        /\ \E t \in Tasks \ {"republished"} : SetTask(k, c, t)
    BY <1>9 DEF Deliver, Receive, DropHeld, Spawn, SetTask, Tasks
  <2>3. \A q \in Consumers, d \in Copies :
          task'[q][d] = "republished" <=> task[q][d] = "republished"
    BY <2>1, <2>2 DEF SetTask, QueueInv, TypeOK
  <2> QED BY <1>3, <2>2, <2>3
<1>10. ASSUME NEW k \in Consumers, NEW c \in Copies, Goroutine(k, c) PROVE Fate(j)'
  BY <1>1, <1>2, <1>10, GoroutineFate
<1> QED BY <1>4, <1>6, <1>7, <1>8, <1>9, <1>10 DEF Next

\* Nothing is published at first.
LEMMA FateInitial == Init => FateInv
<1> SUFFICES ASSUME Init, NEW j \in Jobs PROVE Fate(j) BY DEF FateInv
<1>1. ~ Published(j) BY PublishedMeans DEF Init
<1> QED BY <1>1 DEF Fate

\* What the fate of a job means for the numbers of its messages.
LEMMA OneFateHolds == QueueInv /\ FateInv => OneFate
<1> SUFFICES ASSUME QueueInv, FateInv, Connected, NEW j \in Jobs, Published(j)
             PROVE  Cardinality(QueuedCopies(j) \ Replaced) + Cardinality(DeadCopies(j))
                      + (IF j \in done THEN 1 ELSE 0) = 1
  BY DEF OneFate, Connected
<1>1. Fate(j) BY DEF FateInv
<1>2. /\ QueuedCopies(j) \ Replaced =
           {c \in Copies : /\ place[c] = "queued" /\ msg[c].job = j
                          /\ \A k \in Consumers : task[k][c] # "republished"}
      /\ DeadCopies(j) = {c \in Copies : place[c] = "dead" /\ msg[c].job = j}
  BY DEF QueuedCopies, DeadCopies, JobCopies, Replaced
<1>3. /\ Bearers(j) = (QueuedCopies(j) \ Replaced) \cup DeadCopies(j)
      /\ (QueuedCopies(j) \ Replaced) \cap DeadCopies(j) = {}
  BY <1>2 DEF Bearers, Bears
<1>4. Cardinality({}) = 0 BY FS_EmptySet
<1>5. CASE j \in done
  <2>1. QueuedCopies(j) \ Replaced = {} /\ DeadCopies(j) = {} BY <1>1, <1>3, <1>5 DEF Fate
  <2> QED BY <1>4, <1>5, <2>1
<1>6. CASE j \notin done
  <2>1. PICK c \in Copies : Bearers(j) = {c} BY <1>1, <1>6 DEF Fate
  <2>2. \/ QueuedCopies(j) \ Replaced = {c} /\ DeadCopies(j) = {}
        \/ QueuedCopies(j) \ Replaced = {} /\ DeadCopies(j) = {c}
    BY <1>3, <2>1
  <2>3. Cardinality({c}) = 1 BY FS_Singleton
  <2> QED BY <1>4, <1>6, <2>2, <2>3
<1> QED BY <1>5, <1>6

\* As long as no connection is lost, a published job is queued in one message,
\* handled with success or dead-lettered, and only one of these: cancellation,
\* retries and any number of consumers never multiply it.
THEOREM ExactlyOneFate == Spec => []OneFate
<1>1. QueueInv /\ FateInv /\ [Next]_vars => FateInv' BY FateStep
<1> QED BY <1>1, FateInitial, OneFateHolds, QueueInvariant, PTL DEF Spec
=============================================================================
