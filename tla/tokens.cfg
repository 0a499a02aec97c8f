SPECIFICATION FairSpec
CONSTANTS
  ELBWorkers = {"sync", "node"}
  ECSWorkers = {"ecs"}
  NoOne = "none"
  Configs <- SomeConfigs
  AllowUntagged = TRUE
  Lifetime = 6
  Fallback = 4
  Margin = 3
  MaxDelay = 1
INVARIANTS
  TypeOK NoExpiredToken ELBRequestsHaveSecrets TokenInv
PROPERTIES
  UnusableTokenIsRenewed
CHECK_DEADLOCK FALSE
