\* The Proxy restarts under an Instance that runs.
SPECIFICATION FairSpec
CONSTANTS
  i1 = i1
  r1 = r1
  r2 = r2
  c1 = c1
  c2 = c2
  NoInstance = NoInstance
  NoCapability = NoCapability
  Instance <- OneInstance
  Request <- NoRequests
  Capability <- TwoCapabilities
  MaxStarts = 1
  MaxStops = 0
  MaxFailures = 0
  MaxProxyRestarts = 1
PROPERTIES
  RegisteredIsAlive
CHECK_DEADLOCK FALSE
