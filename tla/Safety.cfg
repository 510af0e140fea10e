SPECIFICATION SafetySpec
CONSTANTS
  r1 = r1
  r2 = r2
  w1 = w1
  w2 = w2
  p = p
  p1 = w1
  p2 = w2
  f1 = f1
  u1 = u1
  v1 = w1
  v2 = w2
  NoUpload = NoUpload
  Nobody = Nobody
  Runs = {r1, r2}
  TestRuns = {r2}
  Workers = {w1, w2}
  NoRun = NoRun
  PerTask <- TwoPrices
  Daily <- TwoLimits
  Charges = {3}
  MaxUnits = 6
  MaxAttempts = 2
  Timeout = 1
  SweepAge = 2
  MaxDay = 1
  MaxRev = 2
  MaxEpoch = 2
SYMMETRY Symmetry
INVARIANTS DispatchInv MoneyAddsUp ResponseRulesOutNonexecution
  ReadyIsComplete BytesAsRecorded ReadableIsStored GoneAsRecorded OneDeleter
PROPERTIES SendOnlyWhileUndecided SentAtMostOnce FenceHolds
CHECK_DEADLOCK FALSE
