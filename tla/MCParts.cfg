SPECIFICATION MCSpec
CONSTANTS
  StoredId = {i1, i2, i3, i4}
  Body = {"active", "done"}
  ActiveBody = {"active"}
  StoreTTL = 2
  StoreCapacity = 2
  RingPerSlot = 1
  MaxPuts = 7
  MaxClock = 4
  MaxFiles = 3
  MaxWorkers = 2
  EvidenceId = {e1, e2, e3}
  MaxEvidence = 2
  Failed = Failed
  MaxRows = 3
  PipeSize = 1
  QueueSize = 1
  MaxStderr = 2
  StderrLimit = 1
INVARIANTS
  StoredXorExpired
  ResultIgnoresTiming
  RunnerCleansUp
PROPERTIES
  ActiveNeverDropped
  LapsedIsRemembered
  ExecutionEnds
  PreflightEnds
CHECK_DEADLOCK FALSE
