\* Every fault; texts of up to three chunks, the last one possibly shorter.
CONSTANTS
  MaxLen = 5
  ChunkSize = 2
  K = 2
  Vectors <- MCVectors
  MaxPairs = 1
  NoPrompt = NoPrompt
  Faults = {"embed", "gemma", "cancel"}
SPECIFICATION FairSpec
INVARIANTS
  TypeOK
  ChunksPartition
  PromptIsBest
  NoAnswerLost
PROPERTY CancelledExtractionEnds
CHECK_DEADLOCK FALSE
