SPECIFICATION FairSpec
CONSTANTS
  BUCKET_NO_MIN = 2
  BUCKET_NO_MAX = 12
  BATCH_SIZE = 3
  MaxErrors = 3
  MaxThrows = 2
  MaxRestarts = 3
INVARIANTS
  TypeOK
  SingleLoop
  EachBucketOncePerSweep
  QueriesStayInRange
PROPERTIES
  RoundsArePaced
  SweepsGoOnUnlessFailed
CHECK_DEADLOCK FALSE
