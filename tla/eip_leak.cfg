SPECIFICATION Spec
CONSTANTS
  Services = {"a"}
  NameOf <- OneName
  EIPServices = {"a"}
  HealthChecks <- DefaultChecks
  ServicePorts <- AllPorts
  PortSets <- OnePort
  Nodes = {"n1", "n2"}
  NodesWithIP = {"n1", "n2"}
  NodeSets = {}
  InitNodes <- N1
  MaxRetries = 1
  MaxFaults = 2
  MaxEdits = 2
  MaxNodeChanges = 0
  MaxCrashes = 0
  BoundEIPReleasable = TRUE
INVARIANTS
  NoLeakedEIP
CHECK_DEADLOCK FALSE
