SPECIFICATION Spec
CONSTANTS
  Now <- Ns1
  Events <- SomeEvents
  Filters <- SomeFilters
  Damages <- SomeDamages
  Dates <- SomeDates
  Times <- SomeTimes
  Values <- SomeValues
  Codes <- SomeCodes
  Readings <- SomeReadings
  Images <- SomeImages
INVARIANTS
  CanalRoundTrip
  FilterSelects
  FrameRoundTrip
  DamageIsNoticed
  MomentRoundTrip
  
  
  ImageIsComplete
CHECK_DEADLOCK FALSE
