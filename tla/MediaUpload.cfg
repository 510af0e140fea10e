SPECIFICATION FairSpec
CONSTANTS
  Uploads = {u1}
  Workers = {w1}
  NoUpload = NoUpload
  NParts = 2
  MaxRenewals = 1
  MaxAttempts = 2
  MaxActive = 1
  MaxStored = 1
PROPERTIES UploadsEnd LeftoversGo
CHECK_DEADLOCK FALSE
