SPECIFICATION Spec
CONSTANTS
  Loads <- TwoLoads
  ChunkSize = 8
  FullLevel2 = TRUE
  MaxRestarts = 1
INVARIANTS
  OnlyImageData
  PassedIsProgrammed
PROPERTIES
  LoadReturns
CHECK_DEADLOCK FALSE
