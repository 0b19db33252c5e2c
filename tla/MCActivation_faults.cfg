SPECIFICATION MCSpec
CONSTANTS
  Device = {a, b}
  InitialAttempts = 1
  HighAttempts = 1
  NormalAttempts = 1
  OverAttempts = 1
  IgnitionThreshold = 0
  MaxFaults = 1
  MaxChanges = 1
INVARIANTS TypeOK NoForeignRows StatusShown UpIsActive AttemptsBounded
PROPERTY ComesBack
