SPECIFICATION FairSpec
CONSTANTS
  NParts = 2
  Purgers = {p1}
  Finalizers = {f1}
  Nobody = Nobody
  MaxAttempts = 2
  MaxEpoch = 1
  FailuresStop = TRUE
PROPERTIES RetentionIsEnforced
CHECK_DEADLOCK FALSE
