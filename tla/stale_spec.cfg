SPECIFICATION Spec
CONSTANTS
  Services = {"a"}
  NameOf <- OneName
  EIPServices = {"a"}
  HealthChecks <- DefaultChecks
  ServicePorts <- AllPorts
  PortSets <- SwapPorts
  Nodes = {"n1", "n2"}
  NodesWithIP = {"n1", "n2"}
  NodeSets <- NodePairs
  InitNodes <- N1
  MaxRetries = 1
  MaxFaults = 0
  MaxEdits = 2
  MaxNodeChanges = 1
  MaxCrashes = 0
  BoundEIPReleasable = TRUE
INVARIANTS
  SettledIsServed
CHECK_DEADLOCK FALSE
