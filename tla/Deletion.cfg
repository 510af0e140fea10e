SPECIFICATION FairSpec
CONSTANTS
  e1 = e1
  w1 = w1
  w2 = w2
  Exports <- OneExport
  Asset = Asset
  Workers <- TwoWorkers
  Nobody = Nobody
  MaxAttempts = 2
  StoreFailures = TRUE
INVARIANTS PlanIsComplete ErasedAsPlanned
PROPERTIES DoneStands CleaningEnds
CHECK_DEADLOCK FALSE
