SPECIFICATION FairSpec
CONSTANTS
  NUM_OF_CHECKS = 2
  MaxConfirms = 2
  MaxCalls = 2
  MaxObjects = 2
  MaxPosts = 2
  MaxFlips = 1
  MaxLosses = 1
INVARIANTS
  TypeOK
PROPERTIES
  RowFollowsFlows
  SiteSettles
