\* One KDN with two blocks; no request fails and no block is deleted.
SPECIFICATION FairSpec
CONSTANTS
  k1 = k1
  k2 = k2
  x1 = x1
  x2 = x2
  NoKdn = NoKdn
  Kdn <- OneKdn
  Kid <- TwoKids
  Deletable <- NoKids
  MaxVersion = 3
  MaxFailures = 0
  RRPeriod = 2
INVARIANTS
  TypeOK
PROPERTIES
  TableConverges
  RefreshMirrors
