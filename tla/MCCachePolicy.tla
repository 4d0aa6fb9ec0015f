--------------------------- MODULE MCCachePolicy ----------------------------
(* Small instances of CachePolicy for TLC: the filter's hash functions. *)
EXTENDS CachePolicy

CONSTANTS k1, k2

\* No hash function (FalsePositiveRate = 1): every key passes.
OpenFilter == {[k \in Keys |-> {}]}

\* Two hash functions; k1 and k2 have a bit in common.
TwoHashes == {[k \in Keys |-> IF k = k1 THEN {1, 2} ELSE {2, 3}]}

BothFilters == OpenFilter \cup TwoHashes
=============================================================================
