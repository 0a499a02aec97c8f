SPECIFICATION Spec
CONSTANTS
  Services = {"a"}
  NameOf <- OneName
  EIPServices = {"a"}
  HealthChecks <- WrongChecks
  ServicePorts <- AllPorts
  PortSets <- TwoPorts
  Nodes = {"n1", "n2"}
  NodesWithIP = {"n1"}
  NodeSets = {}
  InitNodes <- AllNodes
  MaxRetries = 1
  MaxFaults = 2
  MaxEdits = 3
  MaxNodeChanges = 0
  MaxCrashes = 0
  BoundEIPReleasable = FALSE
INVARIANTS
  SettledIsServed SettledIsGone FaultFreeBackends FaultFreeEIPs MembersOnNodePort
CHECK_DEADLOCK FALSE
