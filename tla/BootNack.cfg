SPECIFICATION Spec
CONSTANTS
  Loads <- OneLoad
  ChunkSize = 8
  FullLevel2 = FALSE
  MaxRestarts = 1
PROPERTIES
  NackIsReported
CHECK_DEADLOCK FALSE
