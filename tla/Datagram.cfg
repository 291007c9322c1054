SPECIFICATION LiveSpec
CONSTANTS
  Callers = {a, b}
  W = w
  None = none
  NoAuth = noauth
  Policies = {noauth, key}
  MaxCalls = 2
  MaxEvents = 1
INVARIANTS
  UsedSocketIsOpen
  NoSocketLeak
  ConnectedIsServed
  JoinOnce
  QueuePolicy
  NoLostWakeup
PROPERTY
  CallsReturn
CHECK_DEADLOCK FALSE
