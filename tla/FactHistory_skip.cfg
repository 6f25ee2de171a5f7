SPECIFICATION Spec
CONSTANTS
  k1 = k1
  k2 = k2
  Keys = {k1}
  Values = {v1, v2}
  None = None
  PageKeys <- OnePage
  MaxRuns = 2
  MaxActive = 1
  Kinds <- WithSkip
  FaultPhases <- NoFaults
PROPERTIES
  LossNeedsExtraction
CHECK_DEADLOCK FALSE
