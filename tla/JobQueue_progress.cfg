\* One job; k2 stays up, k1 may fail.  Three copies are all that can be
\* published: the job, and a retry by each consumer.
CONSTANTS
  Jobs = {j1}
  Consumers = {k1, k2}
  Fallible = {k1}
  MaxConcurrency = 1
  MaxRetries = 1
  MaxCopies = 3
  Foreign = FALSE
  Garbage = garbage
  Nobody = nobody
SPECIFICATION FairSpec
PROPERTIES
  EveryMessageSettles
  StoppedConsumerDrains
CHECK_DEADLOCK FALSE
