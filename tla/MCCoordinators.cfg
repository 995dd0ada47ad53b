SPECIFICATION MCSpec
CONSTANTS
  MissionId = {m1, m2}
  ForeignId = {f1}
  NoMission = NoMission
  Purpose = {"own"}
  OwnPurpose = "own"
  MaxForeignActive = 0
  AuthTTL = 2
  AuthCapacity = 1
  MaxIssued = 2
  StoreTTL = 1
  StoreCapacity = 1
  RingPerSlot = 1
  MaxPuts = 7
  MaxClock = 1
  MaxFiles = 2
SYMMETRY Symmetry
INVARIANTS
  SlotCoversMission
  CompletedIsWhole
  StatisticsAreWhole
PROPERTIES
  ImplementsLifecycle
