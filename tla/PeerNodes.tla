----------------------------- MODULE PeerNodes ------------------------------
(***************************************************************************)
(* The nodes of the cluster, as the two halves of a ClientPicker (peers.go)*)
(* see them: ConsistentHash has their points, Membership how they are      *)
(* found.                                                                  *)
(***************************************************************************)
EXTENDS Integers, Sequences, FiniteSets, Functions

CONSTANTS
  Nodes, \* nodes, and the addresses they are registered with
  None   \* "": no node; no lease
=============================================================================
