SPECIFICATION Spec
CONSTANTS
  c1 = c1
  c2 = c2
  W = W
  None = None
  Callers <- OneCaller
  Owner = c1
  Wanted <- OddEvents
  MaxCalls <- ThreeCalls
  MaxEvents = 1
  MaxBad = 0
INVARIANT NothingAfterDisconnect
CHECK_DEADLOCK FALSE
