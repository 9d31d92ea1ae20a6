SPECIFICATION FairSpec
CONSTANTS
  dev = dev
  prod = prod
  Agent = {a1}
  Service = {s1}
  Env = {dev, prod}
  Development = dev
  Pipeline <- OwnNamespace
  Job = {1, 2}
  Slot = {1, 2}
  MaxBuilds = 1
  MaxRequests = 1
  MaxFaults = 1
INVARIANT PlacedAsBuilt
PROPERTIES
  StatusCatchesUp
  OldNamespacesGo
CHECK_DEADLOCK FALSE
