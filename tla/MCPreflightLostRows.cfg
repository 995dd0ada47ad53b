SPECIFICATION Spec
CONSTANTS
  MaxRows = 3
  PipeSize = 1
  QueueSize = 1
  MaxStderr = 2
  StderrLimit = 1
INVARIANT EveryPacketIsCounted
CHECK_DEADLOCK FALSE
