SPECIFICATION FairSpec
CONSTANTS
  MaxCycles = 1
  MaxStops = 1
  MaxConfirms = 1
  MaxDrops = 0
  Blocks <- OneBlock
  Lookups = {"propose"}
  Faults = {}
  Patient = FALSE
  WriteThrough = TRUE
  MaxAttempts = 3
PROPERTY StopClosesBatch
CHECK_DEADLOCK FALSE
