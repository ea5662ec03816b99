SPECIFICATION MCSpec
CONSTANTS
  client = client
  server = server
  other = other
  a1 = a1
  a2 = a2
  a3 = a3
  Nodes = {client}
  Ids = {client, server, other}
  Addrs = {a1, a2, a3}
  Home <- MCHome
  Broadcasts = {client}
  Signals <- ClientSignals
  After <- MCAfter
  None = None
  AddressTimeout = 2
  BroadcastInterval = 1
  RetryInterval = 1
  OfferInterval = 2
  Retries = 2
  MaxDiscovered = 1
  Foreign <- ForeignHosts
INVARIANTS
  DiscoveredReachable
PROPERTIES
  PinnedUntilQuiet
  RetransmissionEnds
  PairServersAreFound
CHECK_DEADLOCK FALSE
