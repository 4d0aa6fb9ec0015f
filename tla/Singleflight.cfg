SPECIFICATION FairSpec
CONSTANTS
  Procs = {p1, p2, p3}
  Keys = {k1}
  Calls = {c1, c2, c3}
  Results = {r1}
  Panic = panic
  None = none
INVARIANTS
  TypeOK
  ReturnsProduced
  PublishedCallsAreLed
  WaitersHaveLeader
PROPERTIES
  DoReturns
