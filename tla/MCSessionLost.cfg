SPECIFICATION FairSpec
CONSTANTS
  MaxEarly = 2
  Deadline = 2
PROPERTY LossIsReported
