SPECIFICATION Spec
CONSTANTS
  MissionId = {m1}
  ForeignId = {}
  NoMission = NoMission
  Purpose = {"detection"}
  OwnPurpose = "detection"
  MaxForeignActive = 0
  AuthTTL = 1
  AuthCapacity = 1
  MaxIssued = 1
  StoreTTL = 1
  StoreCapacity = 1
  RingPerSlot = 1
  MaxPuts = 0
  MaxClock = 0
  MaxFiles = 1
INVARIANTS
  CancelHonoured
