SPECIFICATION MCSpec
CONSTANTS
  MissionId = {m1, m2}
  ForeignId = {}
  NoMission = NoMission
  Purpose = {"own"}
  OwnPurpose = "own"
  MaxForeignActive = 0
  AuthTTL = 1
  AuthCapacity = 2
  MaxIssued = 2
  StoreTTL = 1
  StoreCapacity = 1
  RingPerSlot = 1
  MaxPuts = 0
  MaxClock = 0
  MaxFiles = 1
PROPERTIES
  MissionSettles
  CloseReturns
