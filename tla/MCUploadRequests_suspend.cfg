SPECIFICATION Spec
CONSTANTS
  Tries = 2
  Batch = 1
  MaxRows = 2
  MaxBreaks = 1
  MaxFaults = 1
  MaxReductions = 1
INVARIANTS
  TypeOK
  SuspensionHolds
  ShutdownIsBrief
  NoAlertForgotten
CHECK_DEADLOCK FALSE
