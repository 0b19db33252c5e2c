SPECIFICATION FairSpec
CONSTANTS
  Tries = 2
  Batch = 1
  MaxRows = 1
  MaxBreaks = 1
  MaxFaults = 1
  MaxReductions = 1
PROPERTIES
  AllUploaded
  EndsOnShutdown
CHECK_DEADLOCK FALSE
