CONSTANTS
  Callers <- OneCaller
  Writers <- OwnWriter
  Clients <- NoClients
  Tasks <- OneTask
  Scopes <- OneScope
  Targets <- OneTarget
  Target <- TargetOf
  Flow = "flow"
  FlowTask = "budget"
  FlowScope = "compared"
  Main = "Acme"
  Rivals <- ThreeRivals
  MaxSelected = 2
  Unfolded <- Fullwidth
SPECIFICATION Spec
INVARIANTS TypeOK CompleteMeansComplete ChildrenSettle
PROPERTIES WorkflowEnds
CHECK_DEADLOCK FALSE
