SPECIFICATION FairSpec
CONSTANTS
  client = client
  proxy = proxy
  Connections = {1, 2}
  Peers = {client, proxy}
  TrustedProxies = {proxy}
  None = None
  MaxPerAddress = 1
  MaxPendingJoins = 1
  AnswerTimeout = 1
  ServeMotd = TRUE
  MaxJoins = 2
  MaxCommands = 2
  MaxRequests = 2
  AppReasons = {"Rejected"}
  RequestKinds <- MCRequestKinds
INVARIANTS
  CountsMatch
  RepliesMatchRequests
  EndedLeavesNothing
PROPERTIES
  RequestsAreAnswered
CHECK_DEADLOCK FALSE
