SPECIFICATION ProgressSpec
CONSTANTS
  p1 = p1
  f1 = f1
  r1 = r1
  v1 = v1
  JobIds = {j1}
  Workers = {w1, w2}
  NoJob = NoJob
  NRows = 2
  MaxAttempts = 3
  NoRun = NoRun
  Nobody = Nobody
PROPERTIES JobsAnswerOnce JobsEnd PurgesEnd RunsMoveOn
CHECK_DEADLOCK FALSE
