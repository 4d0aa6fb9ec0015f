SPECIFICATION Spec
CONSTANTS
  Procs = {p1, p2}
  Keys = {k1}
  Calls = {c1, c2}
  Results = {r1}
  Panic = panic
  None = none
INVARIANT
  OneExecution
