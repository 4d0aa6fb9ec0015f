------------------------------ MODULE LRUList -------------------------------
(***************************************************************************)
(* One level of the LRU2 store as store/lru2.go implements it: type cache. *)
(*                                                                         *)
(* Nodes live in a preallocated array m; dlnk holds, for every node and    *)
(* for the sentinel 0, the index of the previous and of the next node;     *)
(* hmap maps keys to node indexes (0 here: no such key).  The sentinel's   *)
(* next is the most recently used node and its previous the least recently *)
(* used one.  All operations run under the lock of the bucket.             *)
(*                                                                         *)
(* The capacity fits the uint16 arithmetic of Create: Cap + 1 <= 2^16 - 1. *)
(***************************************************************************)
EXTENDS Integers, Sequences

CONSTANTS
  Keys,    \* cache keys
  Values,  \* (v, expireAt) pairs of a node
  Cap,     \* the capacity given to Create
  None     \* the zero value of a node's fields

ASSUME LRUListAssumption ==
  /\ Cap \in Nat \ {0} /\ Cap + 1 < 2^16
  /\ None \notin Keys
  /\ None \notin Values

VARIABLES
  dlnk,  \* dlnk[i]["p"], dlnk[i]["n"]: previous and next of node i
  m,     \* m[i]: node i (m[i-1] in the code)
  hmap,  \* hmap[k]: index of k's node, 0 when the map has no k
  last,  \* number of nodes in use
  out    \* what the last call returned: no node or one node

vars == <<dlnk, m, hmap, last, out>>

Dir == {"p", "n"}

\* Create
Init ==
  /\ dlnk = [i \in 0..Cap |-> [d \in Dir |-> 0]]
  /\ m = [i \in 1..Cap |-> [k |-> None, v |-> None, deleted |-> FALSE]]
  /\ hmap = [k \in Keys |-> 0]
  /\ last = 0
  /\ out = <<>>

\* The neighbours of idx are linked to each other.
Unlinked(d, idx, f, t) ==
  LET d1 == [d EXCEPT ![d[idx][t]][f] = d[idx][f]]
  IN  [d1 EXCEPT ![d1[idx][f]][t] = d1[idx][t]]

\* idx is linked in between the sentinel and the node that was first.
Relinked(d, idx, f, t) ==
  [d EXCEPT ![idx][f] = 0, ![idx][t] = d[0][t], ![d[0][t]][f] = idx, ![0][t] = idx]

\* A bug: the node after idx keeps pointing back at idx.
AdjustHalf(d, idx, f, t) ==
  IF d[idx][f] = 0 THEN d
  ELSE Relinked([d EXCEPT ![d[idx][f]][t] = d[idx][t]], idx, f, t)

\* adjust(idx, f, t): unless idx is already first seen from side f, unlink it
\* and relink it there.  adjust(idx, p, n) moves to the head, (n, p) to the tail.
Adjust(d, idx, f, t) ==
  IF d[idx][f] = 0 THEN d ELSE Relinked(Unlinked(d, idx, f, t), idx, f, t)

Node(k, v) == [k |-> k, v |-> v, deleted |-> FALSE]

\* put, key present: overwrite the node, revive it and move it to the head.
PutUpdate(k, v) ==
  /\ hmap[k] # 0
  /\ m' = [m EXCEPT ![hmap[k]] = Node(k, v)]
  /\ dlnk' = Adjust(dlnk, hmap[k], "p", "n")
  /\ out' = <<>>
  /\ UNCHANGED <<hmap, last>>

\* put, key absent and no free node: reuse the tail node.
PutReuse(k, v) ==
  LET tail == dlnk[0]["p"]
  IN  /\ hmap[k] = 0
      /\ last = Cap
      /\ out' = IF m[tail].deleted THEN <<>> ELSE <<m[tail]>>
      /\ hmap' = [hmap EXCEPT ![m[tail].k] = 0, ![k] = tail]
      /\ m' = [m EXCEPT ![tail] = Node(k, v)]
      /\ dlnk' = Adjust(dlnk, tail, "p", "n")
      /\ UNCHANGED last

\* put, key absent: take the next free node and link it in at the head.
PutNew(k, v) ==
  LET new  == last + 1
      head == IF \A j \in Keys : hmap[j] = 0 THEN 0 ELSE dlnk[0]["n"]
      d1   == [dlnk EXCEPT ![head]["p"] = new]
      d2   == [d1 EXCEPT ![new] = [d \in Dir |-> IF d = "p" THEN 0 ELSE d1[0]["n"]]]
  IN  /\ hmap[k] = 0
      /\ last # Cap
      /\ last' = new
      /\ m' = [m EXCEPT ![new] = Node(k, v)]
      /\ dlnk' = [d2 EXCEPT ![0]["n"] = new]
      /\ hmap' = [hmap EXCEPT ![k] = new]
      /\ out' = <<>>

Put(k, v) == PutUpdate(k, v) \/ PutReuse(k, v) \/ PutNew(k, v)

\* get: moves the node to the head whether or not it is deleted.
Get(k) ==
  /\ dlnk' = IF hmap[k] = 0 THEN dlnk ELSE Adjust(dlnk, hmap[k], "p", "n")
  /\ out' = IF hmap[k] = 0 THEN <<>> ELSE <<m[hmap[k]]>>
  /\ UNCHANGED <<m, hmap, last>>

\* A bug: the directions of adjust are swapped.
DelHitToHead(k) ==
  /\ hmap[k] # 0
  /\ ~m[hmap[k]].deleted
  /\ m' = [m EXCEPT ![hmap[k]].deleted = TRUE]
  /\ dlnk' = Adjust(dlnk, hmap[k], "p", "n")
  /\ out' = <<m'[hmap[k]]>>
  /\ UNCHANGED <<hmap, last>>

\* del, key present and not deleted: mark the node and move it to the tail.
DelHit(k) ==
  /\ hmap[k] # 0
  /\ ~m[hmap[k]].deleted
  /\ m' = [m EXCEPT ![hmap[k]].deleted = TRUE]
  /\ dlnk' = Adjust(dlnk, hmap[k], "n", "p")
  /\ out' = <<m'[hmap[k]]>>
  /\ UNCHANGED <<hmap, last>>

DelMiss(k) ==
  /\ ~(hmap[k] # 0 /\ ~m[hmap[k]].deleted)
  /\ out' = <<>>
  /\ UNCHANGED <<dlnk, m, hmap, last>>

Next ==
  \E k \in Keys :
    \/ Get(k)
    \/ DelHit(k)
    \/ DelMiss(k)
    \/ \E v \in Values : Put(k, v)

Spec == Init /\ [][Next]_vars

-----------------------------------------------------------------------------
\* The nodes met from the sentinel along the next links, in that order.
Chain ==
  LET nth[i \in 1..last] ==
        IF i = 1 THEN dlnk[0]["n"] ELSE dlnk[nth[i - 1]]["n"]
      zero == [k |-> None, v |-> None, deleted |-> FALSE]
  IN  [i \in 1..last |-> IF nth[i] = 0 THEN zero ELSE m[nth[i]]]

\* Every field holds a value the Go types and array bounds allow.
TypeOK ==
  /\ dlnk \in [0..Cap -> [Dir -> 0..Cap]]
  /\ m \in [1..Cap -> [k : Keys \cup {None}, v : Values \cup {None}, deleted : BOOLEAN]]
  /\ hmap \in [Keys -> 0..Cap]
  /\ last \in 0..Cap

\* The links of the nodes in use and the sentinel are inverse to each other,
\* and no link leads to an unused node: adjust never loses a node and never
\* leaves a dangling index (lines 290-304 and 341-350).
LinksInverse ==
  \A i \in 0..last :
    /\ dlnk[i]["p"] \in 0..last /\ dlnk[dlnk[i]["p"]]["n"] = i
    /\ dlnk[i]["n"] \in 0..last /\ dlnk[dlnk[i]["n"]]["p"] = i

\* hmap and the nodes agree: every node in use is found under its own key and
\* only there, also after a node was reused for another key (lines 263-304).
IndexMatches ==
  /\ \A k \in Keys : hmap[k] \in 0..last /\ (hmap[k] # 0 => m[hmap[k]].k = k)
  /\ \A i \in 1..last : m[i].k \in Keys /\ hmap[m[i].k] = i

\* The state of a level: index links that form a list, and a map that follows
\* them, through every sequence of put, get and del (lines 262-350).
StructureOK == TypeOK /\ LinksInverse /\ IndexMatches

\* The array implementation does what a bounded LRU list with tombstones does:
\* same returned and evicted nodes, and the links lead through the entries in LRU order.
Level == INSTANCE LRULevel WITH list <- Chain

ImplementsLevel == Level!Spec
=============================================================================
