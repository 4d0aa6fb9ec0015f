--------------------------- MODULE MCSingleflight ---------------------------
(* Small instances of Singleflight for TLC. *)
EXTENDS Singleflight, TLC

Symmetry == Permutations(Procs) \cup Permutations(Calls) \cup Permutations(Results)
=============================================================================
