SPECIFICATION FairSpec
CONSTANTS
  c1 = c1
  c2 = c2
  Check = {c1, c2}
  Threads = 1
  MaxAddresses = 2
INVARIANTS
  TypeOK
  ResourcesReleased
  OwnSession
  UpWasAnswered
PROPERTIES
  EveryCheckCallsBack
