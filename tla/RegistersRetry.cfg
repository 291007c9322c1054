SPECIFICATION Spec
CONSTANTS
  PageSize = 5
  Values = {0, 1, 2}
  Chunk = 2
  Nickname = 1
  PageByte = 0
  Foreign <- Others
  Calls <- OneBlock
  Weight <- CallWeight
  MaxCalls = 6
  MaxLost = 0
  MaxNoise = 0
  MaxResends = 0
INVARIANTS
  OnlyAskedValues
CHECK_DEADLOCK FALSE
