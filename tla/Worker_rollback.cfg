\* A failure of the vector store.
CONSTANTS
  j1 = j1
  j2 = j2
  Runs = {w1}
  Jobs = {j1, j2}
  DocTypes <- MCDocTypes
  MaxPairs = 2
  Nothing = nothing
  Faults = {"qdrant"}
SPECIFICATION Spec
SYMMETRY RunSymmetry
INVARIANT FailedRunsLeaveNoPoints
CHECK_DEADLOCK FALSE
