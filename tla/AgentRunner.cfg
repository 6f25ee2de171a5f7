SPECIFICATION Spec
CONSTANTS
  MaxToolCalls = 7
  MaxProviderCalls = 2
  MaxDuplicates = 2
  Args = {a1}
  RetryableTools <- WrappedTools
  SkipExtraction = FALSE
INVARIANTS
  TypeOK
  CallsWithinBudget
  OpenRowsBelongToRunningRuns
  EffectsFollowMode
PROPERTIES
  SettledRowsAreFinal
  ImplementsLifecycle
  Termination
CHECK_DEADLOCK FALSE
