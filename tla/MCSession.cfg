SPECIFICATION MCSpec
CONSTANTS
  MaxEarly = 2
  Deadline = 2
  MaxMessageSize = 2
  U8Max = 3
  Lengths = {0, 1, 2, 3, 4, 6, 7}
  ForeignLengths = {0, 1, 5}
  MaxSent = 4
  None = None
  t1 = t1
  t2 = t2
  Tasks = {t1, t2}
  Capacity = 1
  MaxCalls = 2
  MaxPackets = 2
  MaxBatch = 2
INVARIANTS
  EventsAreTrue
  NoEarlyPacketStranded
  DeliveredWhole
  ReliableInOrder
PROPERTIES
  DeadlineCounts
  ImplementsChannel
  CallsReturn
CHECK_DEADLOCK FALSE
