SPECIFICATION Spec
CONSTANTS
  PageSize = 5
  Values = {0, 1, 2}
  Chunk = 2
  Nickname = 1
  PageByte = 0
  Foreign <- Others
  Calls <- SomeCalls
  Weight <- CallWeight
  MaxCalls = 6
  MaxLost = 2
  MaxNoise = 1
  MaxResends = 1
INVARIANTS
  ReadIsPossible
  WriteIsDone
  BlockIsComplete
CHECK_DEADLOCK FALSE
