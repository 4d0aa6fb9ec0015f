SPECIFICATION Spec
CONSTANTS
  Nodes = {a, b}
  Aliased = {b}
  None = none
  MaxStarts = 2
INVARIANTS
  KnownOrMissed
  AliveIsRegistered
CHECK_DEADLOCK FALSE
