SPECIFICATION MCSpec
CONSTANTS
  k1 = k1
  k2 = k2
  a1 = a1
  n1 = n1
  client = client
  None = None
  Keys = {k1, k2}
  Addrs = {a1}
  Reports = {"Message"}
  MaxSessions = 2
  MaxQueued = 1
  NetworkOf <- MCNetworkOf
  MaxPending = 2
  MaxPendingOfNetwork = 1
  Establish = 1
  Connections = {1, 2}
  MaxPerAddress = 1
  MaxPendingJoins = 1
  AnswerTimeout = 1
  MaxJoins = 2
  IdleTimeout = 1
  MaxReads = 1
INVARIANTS
  RouterNamesTheLiving
  SessionsAreAccounted
  SessionsAreTold
  ConnectionsAgree
PROPERTIES
  DeadSessionsLeave
  ConnectionsEnd
CHECK_DEADLOCK FALSE
