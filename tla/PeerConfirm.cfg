SPECIFICATION Spec
CONSTANTS
  s1 = s1
  s2 = s2
  a = a
  b = b
  Site = {s1, s2}
  Peer = {a, b}
  PEER_OFFLINE_LIMIT = 2
  VERIFLIER_BATCH_SIZE = 2
  Timeout = 2
  MaxRequests = 2
  MaxReloads = 2
INVARIANTS
  TypeOK
  CountsAreExact
  ResidenceBound
PROPERTIES
  NoEarlyPurge
  PeersAreVerifliers
SYMMETRY Symmetry
CHECK_DEADLOCK FALSE
