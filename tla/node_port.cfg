SPECIFICATION Spec
CONSTANTS
  Services = {"a"}
  NameOf <- OneName
  EIPServices = {"a"}
  HealthChecks <- DefaultChecks
  ServicePorts <- MovedPorts
  PortSets <- MovedService
  Nodes = {"n1", "n2"}
  NodesWithIP = {"n1", "n2"}
  NodeSets = {}
  InitNodes <- N1
  MaxRetries = 1
  MaxFaults = 0
  MaxEdits = 2
  MaxNodeChanges = 0
  MaxCrashes = 0
  BoundEIPReleasable = TRUE
INVARIANTS
  MembersOnNodePort
CHECK_DEADLOCK FALSE
