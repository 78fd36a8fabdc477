---------------------------- MODULE ServerProofs ----------------------------
(***************************************************************************)
(* Proofs about Server, for any number of API processes and requests.      *)
(***************************************************************************)
EXTENDS ServerProps, TLAPS

\* The stages in which the adapter is complete and handlers may run.
Up == {"listening", "serving", "draining"}
All == {"pool", "connection", "channel"}

\* What is declared stays: the declarations a process has come past are at the
\* broker.
DeclaredInOrder ==
  \A p \in Processes : \A i \in 1..6 : i < next[p] => Declarations[i] \in topology

\* What a process has opened follows from where its main is.
OpenedInOrder ==
  \A p \in Processes :
    /\ stage[p] \in {"off", "pool"} => opened[p] = {}
    /\ stage[p] = "dial" => opened[p] = {"pool"}
    /\ stage[p] = "channel" => opened[p] = {"pool", "connection"}
    /\ stage[p] \in Up \cup {"declare"} => opened[p] = All

\* Handlers run in processes that have declared everything.
HandlersAreLate ==
  \A p \in Processes :
    /\ active[p] # {} => stage[p] \in Up
    /\ stage[p] \in Up => next[p] = 7

\* A request has one handler.
OneHandler ==
  \A p, q \in Processes : \A r \in Requests :
    r \in active[p] /\ r \in active[q] => p = q

\* A message that is queued can be dead-lettered.
QueuedHasFallback == \A r \in Requests : jobs[r] = "queued" => DeadLettering \subseteq topology

\* The inductive invariant.
ServerInv ==
  /\ TypeOK /\ DeclaredInOrder /\ OpenedInOrder /\ HandlersAreLate /\ OneHandler
  /\ QueuedHasFallback /\ NoMessageDropped /\ DeadLetteringFirst

-----------------------------------------------------------------------------
\* The six declarations.
LEMMA DeclarationsKnown ==
  /\ Len(Declarations) = 6
  /\ Declarations[1] = "dlq exchange" /\ Declarations[2] = "dlq queue"
  /\ Declarations[3] = "dlq binding" /\ Declarations[4] = "exchange"
  /\ Declarations[5] = "queue" /\ Declarations[6] = "binding"
<1>1. Len(Declarations) = 6 BY DEF Declarations
<1>2. Declarations[1] = "dlq exchange" /\ Declarations[2] = "dlq queue"
  BY DEF Declarations
<1>3. Declarations[3] = "dlq binding" /\ Declarations[4] = "exchange"
  BY DEF Declarations
<1>4. Declarations[5] = "queue" /\ Declarations[6] = "binding"
  BY DEF Declarations
<1> QED BY <1>1, <1>2, <1>3, <1>4

\* Where main may be among them, and how to know a declaration by its place.
LEMMA DeclarationPlaces ==
  /\ Len(Declarations) = 6 /\ 1..(Len(Declarations) + 1) = 1..7
  /\ \A n \in 1..6 : /\ Declarations[n] \in Routing \cup DeadLettering
                     /\ Declarations[n] = "queue" => n = 5
<1>1. ASSUME NEW n \in 1..6
      PROVE  /\ Declarations[n] \in Routing \cup DeadLettering
             /\ Declarations[n] = "queue" => n = 5
  <2>1. n = 1 \/ n = 2 \/ n = 3 \/ n = 4 \/ n = 5 \/ n = 6 OBVIOUS
  <2> QED BY <2>1, DeclarationsKnown DEF Routing, DeadLettering
<1>2. Len(Declarations) = 6 BY DeclarationsKnown
<1> QED BY <1>1, <1>2

\* A process that has come past them all finds them all at the broker.
LEMMA AllDeclared ==
  ASSUME DeclaredInOrder, NEW p \in Processes, next[p] = 7
  PROVE  Routing \cup DeadLettering \subseteq topology
<1>1. \A i \in 1..6 : Declarations[i] \in topology BY DEF DeclaredInOrder
<1>2. /\ Declarations[1] \in topology /\ Declarations[2] \in topology
      /\ Declarations[3] \in topology /\ Declarations[4] \in topology
      /\ Declarations[5] \in topology /\ Declarations[6] \in topology
  BY <1>1
<1> QED BY <1>2, DeclarationsKnown DEF Routing, DeadLettering

\* Initially nothing runs and nothing is declared.
LEMMA ServerInitial == Init => ServerInv
<1> SUFFICES ASSUME Init PROVE ServerInv OBVIOUS
<1>1. TypeOK BY DeclarationPlaces DEF Init, TypeOK, Stages
<1>2. DeclaredInOrder BY DEF Init, DeclaredInOrder
<1> QED
  BY <1>1, <1>2
  DEF Init, ServerInv, OpenedInOrder, HandlersAreLate, OneHandler, QueuedHasFallback,
      NoMessageDropped, DeadLetteringFirst, Up

\* The parts that concern the broker are kept by a step that leaves it alone.
LEMMA BrokerUntouched ==
  ASSUME ServerInv, topology' = topology, jobs' = jobs, next' = next
  PROVE  /\ DeclaredInOrder' /\ QueuedHasFallback'
         /\ NoMessageDropped' /\ DeadLetteringFirst'
BY DEF ServerInv, DeclaredInOrder, QueuedHasFallback, NoMessageDropped, DeadLetteringFirst

\* The end of a process cuts its own requests off and no others.
LEMMA ExitPreserves ==
  ASSUME ServerInv, NEW p \in Processes, Exit(p), signalled' \subseteq Processes
  PROVE  ServerInv'
<1> USE DEF ServerInv
<1>1. /\ stage' \in [Processes -> Stages]
      /\ \A q \in Processes : stage'[q] = IF q = p THEN "exited" ELSE stage[q]
      /\ \A q \in Processes : opened'[q] = IF q = p THEN {} ELSE opened[q]
      /\ \A q \in Processes : active'[q] = IF q = p THEN {} ELSE active[q]
      /\ opened' \in [Processes -> SUBSET All]
      /\ DOMAIN active' = Processes /\ active' = [q \in Processes |-> active'[q]]
  BY DEF Exit, Goto, TypeOK, Stages, All
<1>2. next' = next /\ topology' = topology /\ jobs' = jobs BY DEF Exit
<1>3. ended' \in [Requests -> {"no", "answered", "cut"}] BY DEF Exit, TypeOK
<1>4. \A q \in Processes : active'[q] \in SUBSET {r \in Requests : ended'[r] = "no"}
  <2> SUFFICES ASSUME NEW q \in Processes, NEW r \in active'[q]
               PROVE  r \in Requests /\ ended'[r] = "no"
    OBVIOUS
  <2>1. q # p /\ r \in active[q] BY <1>1
  <2>2. r \in Requests /\ ended[r] = "no" BY <2>1 DEF TypeOK
  <2>3. r \notin active[p] BY <2>1, <2>2 DEF OneHandler
  <2> QED BY <2>2, <2>3 DEF Exit
<1>5. active' \in [Processes -> SUBSET {r \in Requests : ended'[r] = "no"}] BY <1>1, <1>4
<1>6. TypeOK' BY <1>1, <1>2, <1>3, <1>5 DEF TypeOK, All
<1>7. OpenedInOrder' /\ HandlersAreLate' BY <1>1, <1>2 DEF OpenedInOrder, HandlersAreLate, Up
<1>8. OneHandler' BY <1>1 DEF OneHandler
<1> QED BY <1>2, <1>6, <1>7, <1>8, BrokerUntouched

-----------------------------------------------------------------------------
\* Every step preserves the invariant.
LEMMA ServerPreserved == ServerInv /\ [Next]_vars => ServerInv'
<1> SUFFICES ASSUME ServerInv, [Next]_vars PROVE ServerInv' OBVIOUS
<1> USE DEF ServerInv
<1>1. CASE UNCHANGED vars
  BY <1>1 DEF vars, TypeOK, DeclaredInOrder, OpenedInOrder, HandlersAreLate, OneHandler,
              QueuedHasFallback, NoMessageDropped, DeadLetteringFirst
<1>2. ASSUME NEW p \in Processes,
             Boot(p) \/ OpenPool(p) \/ Dial(p) \/ OpenChannel(p) \/ Serve(p) \/ Notify(p)
             \/ Shutdown(p) \/ Drained(p) \/ CloseNext(p)
      PROVE  ServerInv'
  <2> USE DEF Goto, Open
  <2>1. next' = next /\ topology' = topology /\ jobs' = jobs /\ active' = active /\ ended' = ended
        /\ signalled' = signalled
    BY <1>2 DEF Boot, OpenPool, Dial, OpenChannel, Serve, Notify, Shutdown, Drained, CloseNext
  <2>2. stage' \in [Processes -> Stages]
    BY <1>2 DEF TypeOK, Stages, Boot, OpenPool, Dial, OpenChannel, Serve, Notify, Shutdown,
                Drained, CloseNext
  <2>3. opened' \in [Processes -> SUBSET All]
    BY <1>2 DEF TypeOK, All, Boot, OpenPool, Dial, OpenChannel, Serve, Notify, Shutdown,
                Drained, CloseNext
  <2>4. TypeOK' BY <2>1, <2>2, <2>3 DEF TypeOK, All
  <2>5. OpenedInOrder'
    <3> USE DEF TypeOK, OpenedInOrder, Up, All
    <3>1. CASE Boot(p) \/ Serve(p) \/ Notify(p) \/ Shutdown(p) \/ Drained(p)
      BY <3>1 DEF Boot, Serve, Notify, Shutdown, Drained
    <3>2. CASE OpenPool(p)
      <4>1. opened[p] = {} BY <3>2 DEF OpenPool
      <4> QED BY <3>2, <4>1 DEF OpenPool
    <3>3. CASE Dial(p) BY <3>3 DEF Dial
    <3>4. CASE OpenChannel(p) BY <3>4 DEF OpenChannel
    <3>5. CASE CloseNext(p) BY <3>5 DEF CloseNext
    <3> QED BY <1>2, <3>1, <3>2, <3>3, <3>4, <3>5
  <2>6. \A q \in Processes : stage'[q] \in Up => next[q] = 7
    <3>1. \A q \in Processes : next[q] \in 1..7 BY DeclarationPlaces DEF TypeOK
    <3> QED
      BY <1>2, <3>1, DeclarationPlaces
      DEF TypeOK, HandlersAreLate, Up, Boot, OpenPool, Dial, OpenChannel, Serve, Notify,
          Shutdown, Drained, CloseNext
  <2>7. \A q \in Processes : active[q] # {} => stage'[q] \in Up
    BY <1>2
    DEF TypeOK, HandlersAreLate, Up, Boot, OpenPool, Dial, OpenChannel, Serve, Notify,
        Shutdown, Drained, CloseNext
  <2>8. HandlersAreLate' BY <2>1, <2>6, <2>7 DEF HandlersAreLate
  <2>9. OneHandler' BY <2>1 DEF OneHandler
  <2> QED BY <2>1, <2>4, <2>5, <2>8, <2>9, BrokerUntouched
<1>3. ASSUME NEW p \in Processes, Declare(p) PROVE ServerInv'
  <2> DEFINE n == next[p]
  <2>1. /\ stage[p] = "declare" /\ n \in 1..6
        /\ topology' = topology \cup {Declarations[n]}
        /\ next' \in [Processes -> 1..7]
        /\ \A q \in Processes : next'[q] = IF q = p THEN n + 1 ELSE next[q]
        /\ UNCHANGED <<stage, opened, active, signalled, jobs, ended>>
    BY <1>3, DeclarationPlaces DEF Declare, TypeOK
  <2>2. Declarations[n] \in Routing \cup DeadLettering
    BY <2>1, DeclarationPlaces DEF Routing, DeadLettering
  <2>3. TypeOK' BY <2>1, <2>2, DeclarationPlaces DEF TypeOK
  <2>4. DeclaredInOrder' BY <2>1 DEF DeclaredInOrder, TypeOK
  <2>5. DeadLetteringFirst'
    <3>1. CASE "queue" \in topology BY <2>1, <3>1 DEF DeadLetteringFirst
    <3>2. CASE "queue" = Declarations[n]
      <4>1. next[p] = 5 BY <2>1, <3>2, DeclarationPlaces
      <4>2. Declarations[1] \in topology /\ Declarations[2] \in topology
            /\ Declarations[3] \in topology
        BY <4>1 DEF DeclaredInOrder
      <4>3. DeadLettering \subseteq topology BY <4>2, DeclarationsKnown DEF DeadLettering
      <4> QED BY <2>1, <4>3 DEF DeadLetteringFirst
    <3>3. CASE "queue" \notin topology' BY <3>3 DEF DeadLetteringFirst
    <3> QED BY <2>1, <3>1, <3>2, <3>3
  <2>6. HandlersAreLate' BY <2>1 DEF HandlersAreLate, Up
  <2> QED
    BY <2>1, <2>3, <2>4, <2>5, <2>6
    DEF OpenedInOrder, OneHandler, QueuedHasFallback, NoMessageDropped
<1>4. ASSUME NEW p \in Processes,
             ConfigFails(p) \/ SetupFails(p) \/ ListenFails(p) \/ DrainTimesOut(p)
             \/ Return(p) \/ Kill(p)
      PROVE  ServerInv'
  <2>1. Exit(p) /\ signalled' = signalled
    BY <1>4 DEF ConfigFails, SetupFails, ListenFails, DrainTimesOut, Return, Kill
  <2> QED BY <2>1, ExitPreserves DEF TypeOK
<1>5. ASSUME NEW p \in Processes, Signal(p) PROVE ServerInv'
  <2>1. signalled' \subseteq Processes BY <1>5 DEF Signal, TypeOK
  <2>2. CASE Exit(p) BY <2>1, <2>2, ExitPreserves
  <2>3. CASE UNCHANGED <<stage, opened, next, active, topology, jobs, ended>>
    BY <2>1, <2>3, BrokerUntouched DEF TypeOK, OpenedInOrder, HandlersAreLate, OneHandler
  <2> QED BY <1>5, <2>2, <2>3 DEF Signal
<1>6. ASSUME NEW p \in Processes, NEW r \in Requests, Accept(p, r) PROVE ServerInv'
  <2>1. \A q \in Processes : active'[q] = IF q = p THEN active[q] \cup {r} ELSE active[q]
    BY <1>6 DEF Accept, TypeOK
  <2>2. UNCHANGED <<stage, opened, next, signalled, topology, jobs, ended>> BY <1>6 DEF Accept
  <2>3. TypeOK' BY <1>6 DEF Accept, TypeOK
  <2>4. HandlersAreLate' BY <1>6, <2>1, <2>2 DEF Accept, HandlersAreLate, Up
  <2>5. OneHandler' BY <1>6, <2>1 DEF Accept, OneHandler
  <2> QED BY <2>2, <2>3, <2>4, <2>5, BrokerUntouched DEF OpenedInOrder
<1>7. ASSUME NEW p \in Processes, NEW r \in Requests, Publish(p, r) PROVE ServerInv'
  <2>1. UNCHANGED <<stage, opened, next, active, signalled, topology, ended>>
    BY <1>7 DEF Publish
  <2>2. Routing \cup DeadLettering \subseteq topology
    BY <1>7, AllDeclared DEF Publish, HandlersAreLate
  <2>3. jobs' = [jobs EXCEPT ![r] = "queued"] BY <1>7, <2>2 DEF Publish
  <2>4. TypeOK' BY <2>1, <2>3 DEF TypeOK
  <2>5. QueuedHasFallback' BY <2>1, <2>2 DEF QueuedHasFallback
  <2>6. NoMessageDropped' BY <2>3 DEF NoMessageDropped, TypeOK
  <2> QED
    BY <2>1, <2>4, <2>5, <2>6
    DEF DeclaredInOrder, OpenedInOrder, HandlersAreLate, OneHandler, DeadLetteringFirst
<1>8. ASSUME NEW p \in Processes, NEW r \in Requests, Respond(p, r) PROVE ServerInv'
  <2>1. /\ r \in active[p]
        /\ UNCHANGED <<stage, opened, next, signalled, topology, jobs>>
        /\ \A q \in Processes : active'[q] = IF q = p THEN active[q] \ {r} ELSE active[q]
        /\ \A s \in Requests : ended'[s] = IF s = r THEN "answered" ELSE ended[s]
        /\ ended' \in [Requests -> {"no", "answered", "cut"}]
        /\ DOMAIN active' = Processes /\ active' = [q \in Processes |-> active'[q]]
    BY <1>8 DEF Respond, TypeOK
  <2>2. \A q \in Processes : active'[q] \in SUBSET {s \in Requests : ended'[s] = "no"}
    BY <2>1 DEF TypeOK, OneHandler
  <2>3. active' \in [Processes -> SUBSET {s \in Requests : ended'[s] = "no"}]
    BY <2>1, <2>2
  <2>4. TypeOK' BY <2>1, <2>3 DEF TypeOK
  <2>5. HandlersAreLate' /\ OneHandler' BY <2>1 DEF HandlersAreLate, OneHandler
  <2> QED BY <2>1, <2>4, <2>5, BrokerUntouched DEF OpenedInOrder
<1>9. ASSUME NEW r \in Requests, Reject(r) PROVE ServerInv'
  <2>1. UNCHANGED <<stage, opened, next, active, signalled, topology, ended>>
    BY <1>9 DEF Reject
  <2>2. jobs' = [jobs EXCEPT ![r] = "dead"] BY <1>9 DEF Reject, QueuedHasFallback
  <2>3. TypeOK' BY <2>1, <2>2 DEF TypeOK
  <2>4. QueuedHasFallback' /\ NoMessageDropped'
    BY <2>1, <2>2 DEF QueuedHasFallback, NoMessageDropped, TypeOK
  <2> QED
    BY <2>1, <2>3, <2>4
    DEF DeclaredInOrder, OpenedInOrder, HandlersAreLate, OneHandler, DeadLetteringFirst
<1> QED
  BY <1>1, <1>2, <1>3, <1>4, <1>5, <1>6, <1>7, <1>8, <1>9 DEF Next, Startup, Ending

\* ServerInv holds in every reachable state of every instance.
THEOREM ServerInvariant == Spec => []ServerInv
BY ServerInitial, ServerPreserved, PTL DEF Spec

\* Every variable keeps its type.
THEOREM ServerTypeCorrect == Spec => []TypeOK
<1>1. ServerInv => TypeOK BY DEF ServerInv
<1> QED BY <1>1, ServerInvariant, PTL

\* No handler runs on a pool, connection or channel that is closed.
THEOREM HandlersFindResources == Spec => []ResourcesOutliveRequests
<1>1. ServerInv => ResourcesOutliveRequests
  BY DEF ServerInv, ResourcesOutliveRequests, HandlersAreLate, OpenedInOrder, All
<1> QED BY <1>1, ServerInvariant, PTL

\* The broker drops no message, however many processes declare the queues and
\* die half way.
THEOREM MessagesNeverDropped == Spec => []NoMessageDropped
<1>1. ServerInv => NoMessageDropped BY DEF ServerInv
<1> QED BY <1>1, ServerInvariant, PTL

\* The main queue never exists without its dead-letter queue.
THEOREM DeadLetteringPrecedes == Spec => []DeadLetteringFirst
<1>1. ServerInv => DeadLetteringFirst BY DEF ServerInv
<1> QED BY <1>1, ServerInvariant, PTL
=============================================================================
