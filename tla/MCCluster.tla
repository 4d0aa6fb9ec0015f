----------------------------- MODULE MCCluster ------------------------------
(* A small instance of Cluster for TLC: who knows whom. *)
EXTENDS Cluster

CONSTANTS a, b, c

\* Nodes a and b know each other and have missed c, which came later.  Node c
\* was started as ":port" and knows itself by the address it is registered with.
Known == [n \in Nodes |-> IF n = a THEN {b} ELSE IF n = b THEN {a} ELSE {a, c}]

\* The points of the ring after the key's hash belong to c, a, b, in that order;
\* each node picks the first that its own ring has.
Owner == [n \in Nodes |-> IF n = a THEN b ELSE IF n = b THEN a ELSE c]
=============================================================================
