SPECIFICATION FairSpec
CONSTANTS
  small = small
  large = large
  Procs = {p1}
  Keys = {k1, k2}
  Values = {small, large}
  Elems = {e1, e2, e3}
  Root = root
  None = none
  Size <- Sizes
  KeyLen = 1
  Limits = {0, 2}
  TTLs = {0, 1}
  MaxTime = 2
  MaxDeletes = 1
INVARIANTS
  ListMatchesItems
  Accounting
PROPERTIES
  MovesOnlyPresent
  OverflowsByUpdate
  LimitRestored
