SPECIFICATION Spec
CONSTANTS
  Row <- Rows2
  AlertRow <- Row1
  BatchRow <- Row2
  Uploader <- BothThreads
  BatchSize = 1
  MaxMid = 4
  Topics = 1
  Faults <- AllFaults
  MaxBreak = 1
INVARIANTS
  TypeOK
  MidInOnePlace
  NoLoss
  SafeBooking
  OnlyLossesRepeat
  NoRowInFlightTwice
PROPERTIES
  Refines
CONSTRAINT Intact
