---------------------------- MODULE MCLRU2Store -----------------------------
(* Small instances of LRU2Store for TLC: where the keys hash to. *)
EXTENDS LRU2Store, TLC

\* All keys contend for the slots of one bucket.
OneBucket == [k \in Keys |-> 1]

\* With OneBucket all keys are alike.
Symmetry == Permutations(Values) \cup Permutations(Keys)
=============================================================================
