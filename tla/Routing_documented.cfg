\* Every documented route, with the key and without.
SPECIFICATION Spec
CONSTANTS
  Requests <- MCRequests
  Secrets = {"secret"}
INVARIANT DocumentedRoutesAreServed
CHECK_DEADLOCK FALSE
