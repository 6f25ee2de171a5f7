SPECIFICATION Spec
SYMMETRY ValueSymmetry
CONSTANTS
  k1 = k1
  k2 = k2
  Keys = {k1, k2}
  Values = {v1, v2}
  None = None
  PageKeys <- SharedPages
  MaxRuns = 2
  MaxActive = 1
  Kinds <- LlmFull
  FaultPhases <- LateFaults
INVARIANTS
  TypeOK
  PartialRunsStayPending
  ChangesMatchRuns
CHECK_DEADLOCK FALSE
