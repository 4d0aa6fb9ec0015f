SPECIFICATION RingSpec
CONSTANTS
  a = a
  b = b
  d = d
  Nodes = {a, b, d}
  None = none
  MaxHash = 9
  Hashes = {1, 2, 3, 5, 6, 9}
  Points <- Interleaved
  DefaultReplicas = 2
  MinReplicas = 1
  MaxReplicas = 3
  Threshold = 25
  MinSample = 3
  MaxRequests = 4
INVARIANTS
  Clockwise
PROPERTIES
  OnlyAffectedKeysMove
