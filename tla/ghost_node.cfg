SPECIFICATION FairSpec
CONSTANTS
  Servers = {1}
  Addrs = {"ip"}
  Nodes = {"n1"}
  NoServer = 0
  Basic = 3
  NoOne = "noone"
  TTL = 1
  MaxDelay = 1
  MaxFaults = 0
  MaxChanges = 1
PROPERTIES
  GoneNodeIsRemoved
CHECK_DEADLOCK FALSE
