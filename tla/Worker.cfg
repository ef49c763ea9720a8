SPECIFICATION FairSpec
CONSTANTS
  Job = {j1, j2, j3, j4}
  NUM_TO_PROCESS = 2
  DATASET_SIZE = 3
INVARIANTS
  TypeOK
  ResultsReachTheirSite
  ParallelismBound
  NoJobAbandonedAtExit
  NeverStuck
PROPERTIES
  ImplementsContract
  EveryJobReported
CHECK_DEADLOCK FALSE
