\* The session is lost, the bridge restarted, tasks and writes are lost.
SPECIFICATION FairSpec
CONSTANTS
  MaxCycles = 2
  MaxStops = 0
  MaxConfirms = 1
  MaxDrops = 1
  Blocks <- OneBlock
  Lookups = {"propose", "empty_list"}
  Faults = {"restart", "send", "database", "refused", "unconfirmed"}
  Patient = TRUE
  WriteThrough = TRUE
  MaxAttempts = 1
PROPERTY RunsOwnBatch  SnapshotCatchesUp
CHECK_DEADLOCK FALSE
