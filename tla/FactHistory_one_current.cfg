SPECIFICATION Spec
CONSTANTS
  k1 = k1
  k2 = k2
  Keys = {k1, k2}
  Values = {v1, v2}
  None = None
  PageKeys <- TwoPages
  MaxRuns = 3
  MaxActive = 1
  Kinds <- FixtureFull
  FaultPhases <- NoFaults
INVARIANTS
  OneCurrentVersion
CHECK_DEADLOCK FALSE
