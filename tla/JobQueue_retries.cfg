\* The documented number of retries, when one of two consumers is shut down.
CONSTANTS
  Jobs = {j1}
  Consumers = {k1, k2}
  Fallible = {k1}
  MaxConcurrency = 1
  MaxRetries = 3
  MaxCopies = 4
  Foreign = FALSE
  Garbage = garbage
  Nobody = nobody
SPECIFICATION Spec
INVARIANT RetriedUpToThreeTimes
CHECK_DEADLOCK FALSE
