SPECIFICATION FairSpec
CONSTANTS
  MaxServices = 2
  MaxBreaks = 4
INVARIANTS
  TypeOK
  CompleteIsReal
  LastWord
PROPERTIES
  StopEnds
  Completes
CHECK_DEADLOCK FALSE
