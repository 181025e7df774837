SPECIFICATION Spec
CONSTANTS
  MaxCycles = 2
  MaxStops = 1
  MaxConfirms = 1
  MaxDrops = 0
  Blocks <- OneBlock
  Lookups = {"propose"}
  Faults = {}
  Patient = FALSE
  WriteThrough = TRUE
  MaxAttempts = 3
PROPERTY RunsOwnBatch
CHECK_DEADLOCK FALSE
