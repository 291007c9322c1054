SPECIFICATION Spec
CONSTANTS
  c1 = c1
  c2 = c2
  None = None
  Callers <- TwoCallers
  Owner = c1
  Modes <- AllModes
  Wanted = {1, 2}
  Workloads <- RequestsAndDeliveries
INVARIANTS
  TypeOK
  RepliesAreExpected
  ClearIsFinal
  DisconnectIsComplete
PROPERTIES
  ImplementsPipe
CHECK_DEADLOCK FALSE
