SPECIFICATION Spec
CONSTANTS
  Keys = {k1, k2, k3}
  Values = {v1, v2}
  None = none
  NBuckets = 1
  Bucket <- OneBucket
  Cap1 = 2
  Cap2 = 1
  TTLs = {0}
  MaxTime = 0
  MaxClears = 1
SYMMETRY Symmetry
INVARIANTS
  Level1TombstonesLast
  ClearForgets
PROPERTIES
  ImplementsStore
