SPECIFICATION MCSpec
CONSTANTS
  Request = {r1, r2, r3}
  Process = {p1, p2}
  Key = {k1, b1}
  BundleKey = {b1}
  NoExecution = NoExecution
  NoKey = NoKey
  NoProcess = NoProcess
  Run = {u1, u2}
  Client = {c1, c2}
  NoRun = NoRun
  RunTTL = 1
  RunCapacity = 1
  RingPerSlot = 4
  ClientTool = {"case", "bundle"}
  MaxRunPuts = 3
  MaxClock = 1
  Mission = {m1}
  PcapMission = {q1}
  MissionCapacity = 1
  MissionTTL = 2
SYMMETRY Symmetry
INVARIANTS
  OneExecutionPerKey
  PersistedIffCreated
  BundleNamesPersisted
  ResultsAreKept
  StatusIsEarned
PROPERTIES
  FailsForCause
CHECK_DEADLOCK FALSE
