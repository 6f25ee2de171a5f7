SPECIFICATION Spec
SYMMETRY ValueSymmetry
CONSTANTS
  k1 = k1
  k2 = k2
  Keys = {k1}
  Values = {v1, v2}
  None = None
  PageKeys <- OnePage
  MaxRuns = 3
  MaxActive = 2
  Kinds <- WithSmoke
  FaultPhases <- LateFaults
INVARIANTS
  ActiveFactsAreAccepted
  ComparedBaselineIsComplete
  RemovalIsProven
PROPERTIES
  TerminalRunsFrozen
CHECK_DEADLOCK FALSE
