SPECIFICATION MCSpec
CONSTANTS
  K = 1
  H = 2
  ZScore = {0, 2, 3}
  MaxLength = 4
  Unit = 2
  Resolution = 2
  Card = {1, 2}
  MaxResults = 1
  Scored = {1, 2, 3}
  MaxScore = 2
  Parameter = {1, 2}
  MaxFpr <- TenPercent
  DevDomain = {"benign_plain", "optimized_suffix"}
  MaxDev = 3
  MaxTest = 1
  DevAlarm = {FALSE}
  Limit <- Limits
  Sample = {1, 2, 3, 4, 5, 6, 7, 8}
  RowOf <- Rows
  Order <- Orders
  Seed = {"a", "b"}
  Deployment = {1, 2}
  MaxCollections = 3
INVARIANTS
  CusumIsMaximalExcess
  AnswerIsGrounded
  PrefixIsQuiet
  TestIsUnseen
  ReportIsWhole
PROPERTIES
  ChosenIsBest
  AblationIsSound
CHECK_DEADLOCK FALSE
