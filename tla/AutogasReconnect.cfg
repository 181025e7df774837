SPECIFICATION Spec
CONSTANTS
  MaxCycles = 1
  MaxStops = 0
  MaxConfirms = 1
  MaxDrops = 1
  Blocks <- OneBlock
  Lookups = {"propose"}
  Faults = {}
  Patient = TRUE
  WriteThrough = TRUE
  MaxAttempts = 3
PROPERTY ReconnectFiresPending
CHECK_DEADLOCK FALSE
