CONSTANTS
  Requests <- SameKey
  Workflows <- OnlyFlow
  Keys <- SameKeyKeys
  Key <- KeyOfSame
  MaxWorkers = 2
  Faults <- AllFaults
SPECIFICATION Spec
INVARIANTS TypeOK OneTaskPerKey SlotsAreHeld RunsAreOwned
PROPERTIES SlotsReturn
CHECK_DEADLOCK FALSE
