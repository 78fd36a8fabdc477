\* One job and one malformed message between two consumers of two slots, which may
\* both be cancelled, disconnected and killed at any step.
CONSTANTS
  Jobs = {j1}
  Consumers = {k1, k2}
  Fallible = {k1, k2}
  MaxConcurrency = 2
  MaxRetries = 1
  MaxCopies = 3
  Foreign = TRUE
  Garbage = garbage
  Nobody = nobody
SPECIFICATION Spec
SYMMETRY ConsumerSymmetry
INVARIANTS
  SlotAccounting
  ChannelOwnsTasks
  QueueInv
  NoJobLost
  DeadLettersJustified
  OneFate
PROPERTY ImplementsDelivery
CHECK_DEADLOCK FALSE
