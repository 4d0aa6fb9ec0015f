-------------------------- MODULE MCConsistentHash --------------------------
(* Small instances of ConsistentHash for TLC: where the virtual nodes are. *)
EXTENDS ConsistentHash

CONSTANTS a, b, d

\* Three nodes with interleaved points; the second ones of a and d collide.
Interleaved == [n \in Nodes |-> [i \in 0..(MaxReplicas - 1) |->
            CASE n = a -> <<1, 5, 8>>[i + 1]
              [] n = b -> <<4, 0, 6>>[i + 1]
              [] n = d -> <<3, 5, 2>>[i + 1]]]
=============================================================================
