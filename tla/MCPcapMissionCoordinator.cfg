SPECIFICATION Spec
CONSTANTS
  MissionId = {m1, m2}
  ForeignId = {f1}
  NoMission = NoMission
  Purpose = {"triage", "detection"}
  OwnPurpose = "triage"
  MaxForeignActive = 1
  AuthTTL = 1
  AuthCapacity = 1
  MaxIssued = 2
  StoreTTL = 1
  StoreCapacity = 2
  RingPerSlot = 1
  MaxPuts = 3
  MaxClock = 1
SYMMETRY Symmetry
INVARIANTS
  SlotTracksMission
  CancelHonoured
  CompletedIsWhole
  StoreAdmitsMission
  WorkIsOpen
  TokenFundsOneMission
  ClosedMeansDone
PROPERTY
  ImplementsLifecycle
