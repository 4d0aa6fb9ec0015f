------------------------------ MODULE LevelOps ------------------------------
(***************************************************************************)
(* What put, get and del of one level of the two-level store (type cache   *)
(* in store/lru2.go) do to the level's entries, seen as a sequence with    *)
(* the most recently used entry first.  A deleted entry stays in the       *)
(* sequence as a tombstone until its slot is reused.                       *)
(*                                                                         *)
(* An entry is [k, v, deleted]; v stands for the pair (v, expireAt), which *)
(* a level only carries around.  The ...List operators give the new        *)
(* sequence, the ...Out operators what the call returns: <<>> or one entry.*)
(***************************************************************************)
EXTENDS Integers, SequencesExt

\* The position of k's entry, 0 if there is none: the lookup in hmap.
At(list, k) ==
  IF \E i \in DOMAIN list : list[i].k = k
  THEN CHOOSE i \in DOMAIN list : list[i].k = k ELSE 0

Entry(k, v) == [k |-> k, v |-> v, deleted |-> FALSE]

\* get: whatever it finds, tombstone or not, goes to the head.
GetList(list, k) ==
  LET i == At(list, k)
  IN  IF i = 0 THEN list ELSE <<list[i]>> \o RemoveAt(list, i)

GetOut(list, k) ==
  LET i == At(list, k) IN IF i = 0 THEN <<>> ELSE <<list[i]>>

\* del: only an entry that is not deleted yet; the tombstone goes to the tail.
Live(list, k) == At(list, k) # 0 /\ ~list[At(list, k)].deleted

DelOut(list, k) ==
  IF Live(list, k) THEN <<[list[At(list, k)] EXCEPT !.deleted = TRUE]>> ELSE <<>>

\* A bug: the tombstone stays where the entry was.
DelListInPlace(list, k) ==
  IF Live(list, k) THEN [list EXCEPT ![At(list, k)].deleted = TRUE] ELSE list

DelList(list, k) ==
  IF Live(list, k) THEN RemoveAt(list, At(list, k)) \o DelOut(list, k) ELSE list

\* A bug: an update moves the entry to the head and keeps its old value.
PutListKeepsOld(list, cap, k, v) ==
  LET i == At(list, k)
  IN  IF i # 0 THEN <<[list[i] EXCEPT !.deleted = FALSE]>> \o RemoveAt(list, i)
      ELSE <<Entry(k, v)>> \o IF Len(list) = cap THEN Front(list) ELSE list

\* put: refresh k's entry, or take the tail's slot when full, or a new slot.
PutList(list, cap, k, v) ==
  LET i == At(list, k)
  IN  <<Entry(k, v)>> \o
        CASE i # 0 -> RemoveAt(list, i)
          [] i = 0 /\ Len(list) = cap -> Front(list)
          [] OTHER -> list

\* The entry put evicts: the tail, unless it is a tombstone.
PutOut(list, cap, k) ==
  IF At(list, k) = 0 /\ Len(list) = cap /\ ~Last(list).deleted
  THEN <<Last(list)>> ELSE <<>>
=============================================================================
