SPECIFICATION Spec
CONSTANTS
  p1 = p1
  p2 = p2
  Pid = {p1, p2}
  Job = {1, 2}
  site <- OneSite
  DATASET_SIZE = 1
  NUM_TO_PROCESS = 1
  NumWorkers = {1, 2}
  MaxRows = 2
  MaxIncidents = 1
INVARIANTS
  TypeOK
  JobInOnePlace
  FreeListIsExact
PROPERTIES
  JobLostInKnownWays
SYMMETRY PidSymmetry
