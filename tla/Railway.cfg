\* Three weighings of two tanks, one kind of mishap at a time.
SPECIFICATION FairSpec
CONSTANTS
  Plan <- ThreeWeighings
  MishapSets <- Mishaps
  MaxSlips = 1
  MaxQueries = 1
  WriteThrough = TRUE
  MaxAttempts = 1
INVARIANT TypeOK OneActiveRow 
PROPERTY KeepsVisits  
CHECK_DEADLOCK FALSE
