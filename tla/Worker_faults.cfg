\* Every fault, three runs of which any may be of the same job.
CONSTANTS
  j1 = j1
  j2 = j2
  Runs = {w1, w2, w3}
  Jobs = {j1, j2}
  DocTypes <- MCDocTypes
  MaxPairs = 2
  Nothing = nothing
  Faults = {"db", "doubt", "parse", "llm", "qdrant", "late", "cancel", "crash"}
SPECIFICATION Spec
SYMMETRY RunSymmetry
INVARIANTS
  TypeOK
  RowsHavePoints
  CompletedIsStored
  RestingJobHasOutcome
CHECK_DEADLOCK FALSE
