SPECIFICATION FairSpec
CONSTANTS
  s1 = s1
  s2 = s2
  s3 = s3
  a = a
  b = b
  c1 = c1
  c2 = c2
  c3 = c3
  again = again
  other = other
  Site = {s1, s2, s3}
  JetmonServer = {a, b}
  HealthCheck <- MCHealthCheck
  site <- MCsite
  jetmon_server <- MCjetmon_server
  MAX_RUNNERS = 2
  MAX_CHECKS = 1
  MaxBatch = 2
INVARIANTS
  TypeOK
  NoDanglingCheck
  WaitsOnlyWhenFull
PROPERTIES
  ImplementsVeriflier
  EveryCheckAnswered
CHECK_DEADLOCK FALSE
