SPECIFICATION FairSpec
CONSTANTS
  Procs = {p1, p2}
  Names = {n1, n2}
  GroupIds = {g1, g2}
  Peered = {g1}
  None = none
  MaxSyncs = 2
INVARIANTS
  OpenGroupIsFound
  ClosedIsGone
  OnlyLateSyncsSurvive
PROPERTIES
  CallsReturn
CHECK_DEADLOCK FALSE
