SPECIFICATION Spec
CONSTANTS
  Services = {"a"}
  NameOf <- OneName
  EIPServices = {"a"}
  HealthChecks <- DefaultChecks
  ServicePorts <- AllPorts
  PortSets <- OnePort
  Nodes = {"n1", "n2"}
  NodesWithIP = {"n1", "n2"}
  NodeSets <- NodeSetsN1
  InitNodes <- AllNodes
  MaxRetries = 1
  MaxFaults = 1
  MaxEdits = 2
  MaxNodeChanges = 2
  MaxCrashes = 1
  BoundEIPReleasable = TRUE
INVARIANTS
  TypeOK NoDuplicateELB NoLeakedELB NoLeakedEIP LifecycleInv SettledIsServed
PROPERTIES
  ImplementsServiceELB StableMembersKept
CHECK_DEADLOCK FALSE
