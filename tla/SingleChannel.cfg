SPECIFICATION Spec
CONSTANTS
  c1 = c1
  c2 = c2
  W = W
  None = None
  Callers <- TwoCallers
  Owner = c1
  Wanted <- OddEvents
  MaxCalls <- TwoAndOne
  MaxEvents = 3
  MaxBad = 0
INVARIANTS
  ReplyIsOwn
  ReaderJoinedOnce
  ClearIsFinal
  NoLostDispatchWakeup
  DisconnectIsComplete
PROPERTY ImplementsPipe
CHECK_DEADLOCK FALSE
