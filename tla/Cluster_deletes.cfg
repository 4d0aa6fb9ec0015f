SPECIFICATION FairSpec
CONSTANTS
  a = a
  b = b
  c = c
  Nodes = {a, b}
  Values = {v1}
  None = none
  Fail = fail
  Peers <- Known
  Pick <- Owner
  MaxWrites = 2
  MaxCalls = 2
PROPERTY
  DeletesDrain
