------------------------------ MODULE LRULevel ------------------------------
(***************************************************************************)
(* What one level of the two-level store promises: a bounded list of       *)
(* entries, most recently used first.  store/lru2.go implements it with an *)
(* array of nodes and index links (module LRUList).                        *)
(***************************************************************************)
EXTENDS LevelOps

CONSTANTS
  Keys,    \* cache keys
  Values,  \* (v, expireAt) pairs
  Cap      \* capacity of the level

VARIABLES
  list,    \* the entries, most recently used first
  out      \* what the last call returned: no entry or one entry

levelVars == <<list, out>>

Init == list = <<>> /\ out = <<>>

Put(k, v) == /\ list' = PutList(list, Cap, k, v)
             /\ out' = PutOut(list, Cap, k)

Get(k) == list' = GetList(list, k) /\ out' = GetOut(list, k)

Del(k) == list' = DelList(list, k) /\ out' = DelOut(list, k)

Next == \E k \in Keys : Get(k) \/ Del(k) \/ \E v \in Values : Put(k, v)

Spec == Init /\ [][Next]_levelVars
=============================================================================
