SPECIFICATION FairSpec
CONSTANTS
  h1 = h1
  h2 = h2
  u1 = u1
  Hosts = {h1, h2}
  Addrs <- MCAddrs
  Ufrags = {u1}
  None = None
  MaxSessions = 2
  Capacity = 1
INVARIANTS
  OwnersMatchClaims
  NoTraceOfDropped
  NewestHoldsUfrag
PROPERTIES
  FreedHostIsReclaimed
CHECK_DEADLOCK FALSE
