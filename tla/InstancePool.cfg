\* One id, two processes under it one after the other, with two capabilities.
SPECIFICATION FairSpec
CONSTANTS
  i1 = i1
  r1 = r1
  r2 = r2
  c1 = c1
  c2 = c2
  NoInstance = NoInstance
  NoCapability = NoCapability
  Instance <- OneInstance
  Request <- TwoRequests
  Capability <- TwoCapabilities
  MaxStarts = 2
  MaxStops = 1
  MaxFailures = 2
  MaxProxyRestarts = 1
INVARIANTS
  TypeOK
  CountsAreTrue
PROPERTIES
  CapabilityConverges
  PoolFollowsInstances
CHECK_DEADLOCK FALSE
