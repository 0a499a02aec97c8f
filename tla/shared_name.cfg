SPECIFICATION Spec
CONSTANTS
  Services = {"a", "b"}
  NameOf <- ELBNames
  EIPServices = {}
  HealthChecks <- DefaultChecks
  ServicePorts <- AllPorts
  PortSets <- OnePort
  Nodes = {"n1"}
  NodesWithIP = {"n1"}
  NodeSets = {}
  InitNodes <- N1
  MaxRetries = 1
  MaxFaults = 0
  MaxEdits = 2
  MaxNodeChanges = 0
  MaxCrashes = 0
  BoundEIPReleasable = TRUE
  NameLimit = 64
  PrefixLength = 55
  HashModulus = 65535
  IntBits = 24
INVARIANTS
  OneELBPerService
CHECK_DEADLOCK FALSE
