SPECIFICATION FairSpec
CONSTANTS
  Query = {q1, q2}
  Check = {k1, k2}
  ConnectionLimit = 2
  MaxVersion = 3
INVARIANTS
  TypeOK
  ChangeNoticed
PROPERTY QueriesAnswered
