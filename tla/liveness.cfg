SPECIFICATION FairSpec
CONSTANTS
  Services = {"a"}
  NameOf <- OneName
  EIPServices = {"a"}
  HealthChecks <- DefaultChecks
  ServicePorts <- AllPorts
  PortSets <- SwapPorts
  Nodes = {"n1"}
  NodesWithIP = {"n1"}
  NodeSets <- NodeSetsEmpty
  InitNodes <- N1
  MaxRetries = 1
  MaxFaults = 1
  MaxEdits = 2
  MaxNodeChanges = 1
  MaxCrashes = 0
  BoundEIPReleasable = TRUE
PROPERTIES
  EventuallyReleased ComesToRest
CHECK_DEADLOCK FALSE
