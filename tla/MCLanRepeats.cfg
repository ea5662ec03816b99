SPECIFICATION Spec
CONSTANTS
  client = client
  server = server
  a1 = a1
  a2 = a2
  Nodes = {client, server}
  Ids = {client, server}
  Addrs = {a1, a2}
  Home <- MCHome
  Broadcasts = {client}
  Signals <- PairSignals
  After <- MCAfter
  None = None
  AddressTimeout = 1
  BroadcastInterval = 1
  RetryInterval = 1
  OfferInterval = 1
  Retries = 1
  MaxDiscovered = 1
  Foreign = {}
PROPERTY RepeatsUntilReply
CHECK_DEADLOCK FALSE
