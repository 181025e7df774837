\* An operator in a hurry: stops, confirms twice, starts the next cycle while
\* tasks and writes of the last one are under way; workers die.
SPECIFICATION Spec
CONSTANTS
  MaxCycles = 2
  MaxStops = 1
  MaxConfirms = 2
  MaxDrops = 0
  Blocks <- OneBlock
  Lookups = {"unknown_type"}
  Faults = {"crash", "expire"}
  Patient = FALSE
  WriteThrough = TRUE
  MaxAttempts = 1
INVARIANT TypeOK OneActiveBatch ActivationsAreBacked
PROPERTY ClosedBatchesStay
CHECK_DEADLOCK FALSE
