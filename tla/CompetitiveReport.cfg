CONSTANTS
  flow = flow
  w1 = w1
  w2 = w2
  t1 = t1
  t2 = t2
  compared = compared
  rewritten = rewritten
  older = older
  Callers <- AllCallers
  Writers <- AllWriters
  Clients <- AllClients
  Tasks <- AllTasks
  Scopes <- AllScopes
  Targets <- TwoTargets
  Target <- TargetOf
SPECIFICATION ReportSpec
INVARIANTS ReportTypeOK  PaidOnce  ClaimsAreOwned
SYMMETRY CallSymmetry
CHECK_DEADLOCK FALSE
