\* A carousel behind its reader, one mishap at a time.
SPECIFICATION FairSpec
CONSTANTS
  Last = 2
  Memory = 1
  MaxTags = 2
  MaxReads = 1
  MaxDrops = 1
  MishapSets <- Mishaps
  Posts <- TwoPosts
  MaxSends = 2
  MaxWire = 1
  Weight <- Weights
  Passport <- Passports
  Scenarios <- AllScenarios
INVARIANT TypeOK CountedOnce  PassportsInOrder PassportOnce AnswerIsRecorded FullBelongs
PROPERTY KeepsPairing PassportArrives AskedIsStored
CHECK_DEADLOCK FALSE
