\* One request fails: one KDN, one block.
SPECIFICATION FairSpec
CONSTANTS
  k1 = k1
  k2 = k2
  x1 = x1
  x2 = x2
  NoKdn = NoKdn
  Kdn <- OneKdn
  Kid <- OneKid
  Deletable <- NoKids
  MaxVersion = 1
  MaxFailures = 1
  RRPeriod = 2
PROPERTIES
  RefreshMirrors
