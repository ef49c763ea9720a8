SPECIFICATION Spec
CONSTANTS
  Query = {q1, q2, q3}
  Check = {k1, k2}
  ConnectionLimit = 1
  MaxVersion = 2
INVARIANT ReloadTakesEffect
