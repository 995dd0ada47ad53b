SPECIFICATION MCSpec
CONSTANTS
  Purpose = {"triage", "detection"}
  AuthTTL = 2
  AuthCapacity = 2
  MaxIssued = 4
  MaxClock = 3
  File = {1, 2}
  MaxContent = 1
  Size <- Sizes
  MaxFiles = 1
  MaxBatches <- TwoAndOne
  MaxReplaced = 2
  MaxPackets = 2
  MaxTime = 2
  Rule = {1, 2}
  MinPackets = 2
  MinDestinations = 2
  Window = 1
  MaxEvidence = 2
INVARIANTS
  GrantedAtMostOnce
  HoldsTheNewest
  EvidenceMatchesContent
  ResumeIsExact
  ValidatorsAgree
PROPERTIES
  NothingIsPassedOver
CHECK_DEADLOCK FALSE
