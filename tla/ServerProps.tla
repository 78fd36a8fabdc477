----------------------------- MODULE ServerProps -----------------------------
(***************************************************************************)
(* What makes the life of the API processes correct: handlers find open    *)
(* what they use, the broker can route what they publish, and a signal     *)
(* ends a process.                                                         *)
(***************************************************************************)
EXTENDS Server

\* Type invariant.
TypeOK ==
  /\ stage \in [Processes -> Stages]
  /\ opened \in [Processes -> SUBSET {"pool", "connection", "channel"}]
  /\ next \in [Processes -> 1..(Len(Declarations) + 1)]
  /\ active \in [Processes -> SUBSET {r \in Requests : ended[r] = "no"}]
  /\ signalled \subseteq Processes
  /\ topology \subseteq Routing \cup DeadLettering
  /\ jobs \in [Requests -> {"none", "queued", "dead", "dropped"}]
  /\ ended \in [Requests -> {"no", "answered", "cut"}]

\* As long as a handler runs, the pool, the connection and the channel it
\* uses have been opened and not been closed: the deferred Close calls come
\* after the last handler, in a shutdown that times out too.
ResourcesOutliveRequests ==
  \A p \in Processes :
    active[p] # {} => opened[p] = {"pool", "connection", "channel"}

\* A published message is never dropped by the broker, neither on its way to
\* the queue nor when it is rejected, whatever process died half way through
\* its declarations: from the first publication on the broker has them all.
NoMessageDropped == \A r \in Requests : jobs[r] # "dropped"

\* Processes that die while they set up the queues leave no main queue whose
\* rejected messages have nowhere to go: dead-lettering is complete before
\* the main queue exists.
DeadLetteringFirst == "queue" \in topology => DeadLettering \subseteq topology

-----------------------------------------------------------------------------
\* The main goroutine runs, and the timer of Shutdown fires; handlers need
\* not end.
FairSpec == Spec /\ \A p \in Processes : WF_vars(Startup(p)) /\ WF_vars(Ending(p))

\* A process that is told to end does so, even if a handler hangs.
SignalledProcessExits == \A p \in Processes : p \in signalled ~> stage[p] = "exited"
=============================================================================
