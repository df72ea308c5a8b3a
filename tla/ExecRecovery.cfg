SPECIFICATION Spec
CHECK_DEADLOCK FALSE
CONSTANTS
  Streams = {"stdout"}
  MaxOutput = 2
  MaxRetained = 1
  MaxPending = 2
  MaxConn = 2
  MaxWrite = 0
INVARIANTS FailedStartLeavesNoProcess
PROPERTIES ImplementsEventStream
