SPECIFICATION Spec
CONSTANTS
  Row <- Rows2
  AlertRow <- NoRows
  BatchRow <- NoRows
  Uploader <- EventThread
  BatchSize = 2
  MaxMid = 4
  Topics = 1
  Faults <- NoFaults
  MaxBreak = 1
INVARIANT StaleEntryHarmless
