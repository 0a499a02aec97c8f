SPECIFICATION Spec
CONSTANTS
  ELBWorkers = {"sync", "node"}
  ECSWorkers = {"ecs"}
  NoOne = "none"
  Configs <- PasswordOnly
  AllowUntagged = TRUE
  Lifetime = 6
  Fallback = 4
  Margin = 3
  MaxDelay = 1
INVARIANTS
  TokenIsValid
CHECK_DEADLOCK FALSE
