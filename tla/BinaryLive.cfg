SPECIFICATION FairSpec
CONSTANTS
  c1 = c1
  c2 = c2
  None = None
  Callers <- TwoCallers
  Owner = c1
  Modes <- AllModes
  Wanted = {1}
  Workloads <- JustMixed
PROPERTIES
  CallsReturn
  LossNoticed
  RawRequestsEnd
CHECK_DEADLOCK FALSE
