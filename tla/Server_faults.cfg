\* Two processes that share the queues; every fault, and handlers that may hang.
CONSTANTS
  Processes = {p1, p2}
  Requests = {r1, r2}
  Faults = {"config", "broker", "listen", "kill"}
SPECIFICATION FairSpec
INVARIANTS
  ResourcesOutliveRequests
  NoMessageDropped
  DeadLetteringFirst
PROPERTY SignalledProcessExits
CHECK_DEADLOCK FALSE
