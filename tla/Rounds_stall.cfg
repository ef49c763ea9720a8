SPECIFICATION FairSpec
CONSTANTS
  BUCKET_NO_MIN = 2
  BUCKET_NO_MAX = 8
  BATCH_SIZE = 3
  MaxErrors = 1
  MaxThrows = 0
  MaxRestarts = 0
PROPERTY SweepsGoOn
CHECK_DEADLOCK FALSE
