SPECIFICATION FairSpec
CONSTANTS
  c1 = c1
  c2 = c2
  c3 = c3
  Clients <- MCClients
  MaxFds = 3
  Addrs = 2
  MaxFaults = 2
  None = None
INVARIANTS
  UsesItsOwn
  LeftBehind
  EndsOnlyBy
PROPERTIES
  ClientIsServed
CHECK_DEADLOCK FALSE
