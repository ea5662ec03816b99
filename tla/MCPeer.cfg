SPECIFICATION MCSpec
CONSTANTS
  None = None
  k1 = k1
  k2 = k2
  Messages <- MCMessages
  MaxBody = 8
  ReadChunk = 3
  Records <- MCRecords
  MaxBytes = 80
  TokenTrust = TRUE
  ServerTrust = TRUE
  MaxAttempts = 2
  MaxSessions = 2
  Keys = {k1, k2}
  MinInterval = 2
  MaxAge = 3
  WatchInterval = 1
  MaxRotations = 1
INVARIANTS
  MessagesAreRead
  ReadIsSaid
  PairsMatch
  RemoteIsTrusted
PROPERTIES
  FetchesAreSpaced
  KeysConverge
CHECK_DEADLOCK FALSE
