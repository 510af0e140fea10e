SPECIFICATION DeletionSpec
CONSTANTS
  e1 = e1
  w1 = w1
  w2 = w2
  Exports <- OneExport
  Asset = Asset
  Workers <- OneWorker
  Nobody = Nobody
  MaxAttempts = 2
  StoreFailures = TRUE
INVARIANT OldExportsAreRefused
CHECK_DEADLOCK FALSE
