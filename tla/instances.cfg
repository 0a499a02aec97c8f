SPECIFICATION FairSpec
CONSTANTS
  Servers = {1, 2}
  Addrs = {"ip"}
  Nodes = {"n1"}
  NoServer = 0
  Basic = 3
  NoOne = "noone"
  TTL = 1
  MaxDelay = 1
  MaxFaults = 2
  MaxChanges = 1
INVARIANTS
  TypeOK RecentInv
PROPERTIES
  DecisionsAreRecent DeletedNodeIsRemoved
CHECK_DEADLOCK FALSE
