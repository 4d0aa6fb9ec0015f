----------------------------- MODULE MCLRUCache -----------------------------
(* Small instances of LRUCache for TLC: the sizes of the values. *)
EXTENDS LRUCache

CONSTANTS small, large

\* With a limit of 2 and one byte per key a small value fits alone and a large
\* one does not fit at all.
Sizes == [v \in Values |-> IF v = large THEN 3 ELSE 1]
=============================================================================
