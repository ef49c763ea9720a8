SPECIFICATION FairSpec
CONSTANTS
  p1 = p1
  p2 = p2
  Pid = {p1, p2}
  Job = {1, 2}
  site <- OwnSites
  DATASET_SIZE = 2
  NUM_TO_PROCESS = 1
  NumWorkers = {2}
  MaxRows = 1
  MaxIncidents = 0
PROPERTY WorkKeepsFlowing
