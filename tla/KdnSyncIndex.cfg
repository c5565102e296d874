\* Requests fail and blocks are deleted: two KDNs, one block.
SPECIFICATION FairSpec
CONSTANTS
  k1 = k1
  k2 = k2
  x1 = x1
  x2 = x2
  NoKdn = NoKdn
  Kdn <- TwoKdns
  Kid <- OneKid
  Deletable <- OneKid
  MaxVersion = 1
  MaxFailures = 1
  RRPeriod = 2
PROPERTIES
  IndexConverges
