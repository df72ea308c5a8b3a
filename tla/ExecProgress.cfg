SPECIFICATION Spec
CHECK_DEADLOCK FALSE
CONSTANTS
  Streams = {"stdout"}
  MaxOutput = 0
  MaxRetained = 1
  MaxPending = 2
  MaxConn = 2
  MaxWrite = 2
INVARIANTS StdinIsWrittenOnce
PROPERTIES CloseIsDelivered FailedStartIsCleanedUp
