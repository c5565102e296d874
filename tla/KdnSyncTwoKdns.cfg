\* Two KDNs with different blocks.
SPECIFICATION FairSpec
CONSTANTS
  k1 = k1
  k2 = k2
  x1 = x1
  x2 = x2
  NoKdn = NoKdn
  Kdn <- TwoKdns
  Kid <- OneKid
  Deletable <- NoKids
  MaxVersion = 1
  MaxFailures = 0
  RRPeriod = 2
PROPERTIES
  NewItemsAppear
