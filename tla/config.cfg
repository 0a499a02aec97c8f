SPECIFICATION Spec
CONSTANTS
  ELBWorkers = {"sync", "node"}
  ECSWorkers = {"ecs"}
  NoOne = "none"
  Configs <- ExampleConfig
  AllowUntagged = FALSE
  Lifetime = 6
  Fallback = 4
  Margin = 3
  MaxDelay = 1
INVARIANTS
  ConfigSuffices
CHECK_DEADLOCK FALSE
