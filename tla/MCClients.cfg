SPECIFICATION MCSpec
CONSTANTS
  MaxAttempts = 2
  Negotiation = 2
  None = None
  MaxWrites = 2
  Key = k1
  Addrs = {a1}
  MaxSessions = 3
  GameAttempts = 2
  GameNegotiation = 1
  Establish = 1
INVARIANTS
  RefusedIsOwn
  OneSession
  WritesAreAccounted
  ConnectedIsOwn
PROPERTIES
  ClientsEnd
CHECK_DEADLOCK FALSE
