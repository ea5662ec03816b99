SPECIFICATION FairSpec
CONSTANTS
  k1 = k1
  n1 = n1
  None = None
  Keys = {k1}
  Networks = {n1}
  NetworkOf <- MCNetworkOf
  MaxPending = 2
  MaxPendingOfNetwork = 2
  MaxSessions = 2
INVARIANTS
  SlotsMatch
  NewestIsSignaled
PROPERTIES
  SlotsAreFreed
  NoSessionIsLeft
CHECK_DEADLOCK FALSE
