SPECIFICATION FairSpec
CONSTANTS
  k1 = k1
  k2 = k2
  Procs = {p1, p2}
  Keys = {k1}
  Calls = {c1, c2}
  Values = {v1}
  Null = null
  LoaderFailed = loaderFailed
  Rejected = rejected
  Panic = panic
  None = none
  Nil = nil
  Filters <- BothFilters
INVARIANTS
  TypeOK
  CrashOnlyAfterClose
  GetReturnsWritten
  CloseReleases
PROPERTIES
  CallsEnd
