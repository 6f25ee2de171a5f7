SPECIFICATION Spec
CONSTANTS
  MaxToolCalls = 7
  MaxProviderCalls = 2
  MaxDuplicates = 2
  Args = {a1}
  RetryableTools <- NoTools
  SkipExtraction = FALSE
PROPERTIES
  EndsDeterministically
CHECK_DEADLOCK FALSE
