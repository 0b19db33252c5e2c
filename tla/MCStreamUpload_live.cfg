SPECIFICATION FairSpec
CONSTANTS
  Row <- Rows2
  AlertRow <- Row1
  BatchRow <- Row2
  Uploader <- BothThreads
  BatchSize = 1
  MaxMid = 5
  Topics = 1
  Faults <- NoFaults
  MaxBreak = 1
INVARIANTS
  NoMarkLost
PROPERTIES
  EventuallyDelivered
CONSTRAINT Intact
