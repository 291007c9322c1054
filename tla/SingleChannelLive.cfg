SPECIFICATION FairSpec
CONSTANTS
  c1 = c1
  c2 = c2
  W = W
  None = None
  Callers <- OneCaller
  Owner = c1
  Wanted <- OddEvents
  MaxCalls <- TwoCalls
  MaxEvents = 1
  MaxBad = 1
PROPERTIES
  FailureNoticed
  CallsReturn
CHECK_DEADLOCK FALSE
