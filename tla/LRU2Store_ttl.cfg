SPECIFICATION FairSpec
CONSTANTS
  Keys = {k1, k2}
  Values = {v1, v2}
  None = none
  NBuckets = 1
  Bucket <- OneBucket
  Cap1 = 1
  Cap2 = 1
  TTLs = {0, 1}
  MaxTime = 1
  MaxClears = 0
INVARIANTS
  Level1IsLatest
  StaleOnlyAfterExpiry
PROPERTIES
  NoSilentLoss
  CleanupSparesValid
  ExpiredReclaimed
