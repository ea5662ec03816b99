SPECIFICATION Spec
CONSTANTS
  k1 = k1
  a1 = a1
  n1 = n1
  None = None
  Keys = {k1}
  Addrs = {a1}
  Reports = {"Message"}
  MaxSessions = 2
  MaxQueued = 1
  NetworkOf <- MCNetworkOf
  MaxPending = 2
  MaxPendingOfNetwork = 1
  Establish = 1
INVARIANT ConnectedIsOpen
