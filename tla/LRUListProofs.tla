---------------------------- MODULE LRUListProofs ---------------------------
(***************************************************************************)
(* One level of the LRU2 store keeps its index links and its map in step,  *)
(* and implements the list of entries of LRULevel, for every capacity, set *)
(* of keys and sequence of calls.                                          *)
(*                                                                         *)
(* StructureOK is not inductive: its links may be inverse to each other    *)
(* and still leave the sentinel alone, and then put would reuse the        *)
(* sentinel as if it were the tail.  HeadInUse excludes that.  The first   *)
(* part is about sets of indexes; the few facts that need arithmetic are   *)
(* in IndexSets and OneMore.                                               *)
(*                                                                         *)
(* The refinement needs the order of the nodes as well.  The second part   *)
(* adds to the invariant that the links form one path (PathOK); what       *)
(* adjust and put do to the path are explicit reorderings, so that nothing *)
(* has to be proved by induction along the links.                          *)
(***************************************************************************)
EXTENDS LRUList, SequenceTheorems, WellFoundedInduction, TLAPS

\* The sentinel and all nodes; all nodes.
Slots == 0..Cap
Nodes == 1..Cap

\* The sentinel and the nodes in use, when n are; the nodes in use.
Ring(n) == 0..n
InUse(n) == 1..n

LinkType == [Slots -> [Dir -> Slots]]
NodeType == [k : Keys \cup {None}, v : Values \cup {None}, deleted : BOOLEAN]

\* The links in d among the indexes in S lead back and forth, seen from either
\* side.
Mirrored(d, S, f, t) ==
  \A i \in S : /\ d[i][f] \in S /\ d[d[i][f]][t] = i
               /\ d[i][t] \in S /\ d[d[i][t]][f] = i

TypesOK ==
  dlnk \in LinkType /\ m \in [Nodes -> NodeType] /\ hmap \in [Keys -> Slots] /\ last \in Slots

LinksOK == Mirrored(dlnk, Ring(last), "p", "n")

IndexOK ==
  /\ \A k \in Keys : hmap[k] \in Ring(last) /\ (hmap[k] # 0 => m[hmap[k]].k = k)
  /\ \A i \in InUse(last) : m[i].k \in Keys /\ hmap[m[i].k] = i

\* A level with nodes in use has a first one.
HeadInUse == InUse(last) # {} => dlnk[0]["n"] # 0

\* The inductive invariant: StructureOK, in terms of the sets above, and HeadInUse.
ListInv == TypesOK /\ LinksOK /\ IndexOK /\ HeadInUse

-----------------------------------------------------------------------------
LEMMA CapIsPositive == Cap \in Nat /\ 1 <= Cap
BY LRUListAssumption

LEMMA IndexSets ==
  /\ 0 \in Slots /\ Nodes = Slots \ {0}
  /\ \A n \in Slots : /\ 0 \in Ring(n) /\ Ring(n) \subseteq Slots
                      /\ InUse(n) = Ring(n) \ {0} /\ InUse(n) \subseteq Nodes
  /\ Cap \in Slots /\ InUse(Cap) # {}
<1>1. 0 \in Slots /\ Nodes = Slots \ {0}
  BY CapIsPositive DEF Slots, Nodes
<1>2. ASSUME NEW n \in Slots
      PROVE  /\ 0 \in Ring(n) /\ Ring(n) \subseteq Slots
             /\ InUse(n) = Ring(n) \ {0} /\ InUse(n) \subseteq Nodes
  <2>1. n \in 0..Cap /\ Cap \in Nat
    BY CapIsPositive DEF Slots
  <2>2. 0 \in Ring(n) /\ Ring(n) \subseteq Slots
    BY <2>1 DEF Ring, Slots
  <2>3. InUse(n) = Ring(n) \ {0}
    BY <2>1 DEF Ring, InUse
  <2>4. InUse(n) \subseteq Nodes
    BY <2>1 DEF InUse, Nodes
  <2>5. QED
    BY <2>2, <2>3, <2>4
<1>3. Cap \in Slots /\ InUse(Cap) # {}
  BY CapIsPositive DEF Slots, InUse
<1>4. QED
  BY <1>1, <1>2, <1>3

LEMMA OneMore ==
  ASSUME NEW n \in Slots, n # Cap
  PROVE  /\ n + 1 \in Slots /\ n + 1 \in Nodes /\ n + 1 \notin Ring(n) /\ n + 1 # 0
         /\ Ring(n + 1) = Ring(n) \cup {n + 1} /\ InUse(n + 1) = InUse(n) \cup {n + 1}
         /\ InUse(n) = {} => Ring(n) = {0}
<1>1. n \in 0..Cap /\ Cap \in Nat /\ n + 1 \in 1..Cap
  BY CapIsPositive DEF Slots
<1>2. n + 1 \in Slots /\ n + 1 \in Nodes /\ n + 1 \notin Ring(n) /\ n + 1 # 0
  BY <1>1 DEF Slots, Nodes, Ring
<1>3. Ring(n + 1) = Ring(n) \cup {n + 1}
  BY <1>1 DEF Ring
<1>4. InUse(n + 1) = InUse(n) \cup {n + 1}
  BY <1>1 DEF InUse
<1>5. InUse(n) = {} => Ring(n) = {0}
  BY <1>1 DEF InUse, Ring
<1>6. QED
  BY <1>2, <1>3, <1>4, <1>5

\* One assignment to a link.
Linked(d, i, f, x) == [d EXCEPT ![i] = [d[i] EXCEPT ![f] = x]]

\* The links in r are those in d, but for one.
OneLink(r, d, i, f, x) ==
  \A j \in Slots, g \in Dir : r[j][g] = IF j = i /\ g = f THEN x ELSE d[j][g]

LEMMA SetLink ==
  ASSUME NEW d \in LinkType, NEW i \in Slots, NEW f \in Dir, NEW x \in Slots
  PROVE  Linked(d, i, f, x) \in LinkType /\ OneLink(Linked(d, i, f, x), d, i, f, x)
BY DEF LinkType, Linked, OneLink

\* Unlinking joins the neighbours a and b of idx.
LEMMA UnlinkedLinks ==
  ASSUME NEW d \in LinkType, NEW idx \in Slots, NEW f \in Dir, NEW t \in Dir, f # t,
         NEW a, a = d[idx][f], NEW b, b = d[idx][t], a = idx <=> b = idx
  PROVE  /\ Unlinked(d, idx, f, t) \in LinkType
         /\ \A i \in Slots :
              /\ Unlinked(d, idx, f, t)[i][f] = IF i = b THEN a ELSE d[i][f]
              /\ Unlinked(d, idx, f, t)[i][t] = IF i = a THEN b ELSE d[i][t]
<1>1. a \in Slots /\ b \in Slots
  BY DEF LinkType
<1>2. PICK d1 : d1 = Linked(d, b, f, a)
  OBVIOUS
<1>3. d1 \in LinkType /\ OneLink(d1, d, b, f, a)
  BY <1>1, <1>2, SetLink
<1>4. d1[idx][f] = a /\ d1[idx][t] = b
  BY <1>1, <1>3 DEF OneLink
<1>5. Unlinked(d, idx, f, t) = Linked(d1, a, t, b)
  BY <1>1, <1>2, <1>4 DEF Unlinked, Linked
<1>6. PICK r : r = Linked(d1, a, t, b)
  OBVIOUS
<1>7. r \in LinkType /\ OneLink(r, d1, a, t, b)
  BY <1>1, <1>3, <1>6, SetLink
<1>8. QED
  BY <1>1, <1>3, <1>5, <1>6, <1>7 DEF OneLink

\* Relinking puts idx between the sentinel and h, the first node so far.
LEMMA RelinkedLinks ==
  ASSUME NEW d \in LinkType, NEW idx \in Nodes, NEW f \in Dir, NEW t \in Dir, f # t,
         NEW h, h = d[0][t]
  PROVE  /\ Relinked(d, idx, f, t) \in LinkType
         /\ \A i \in Slots :
              /\ Relinked(d, idx, f, t)[i][f] =
                   IF i = h THEN idx ELSE IF i = idx THEN 0 ELSE d[i][f]
              /\ Relinked(d, idx, f, t)[i][t] =
                   IF i = 0 THEN idx ELSE IF i = idx THEN h ELSE d[i][t]
<1>1. /\ h \in Slots /\ idx \in Slots /\ idx # 0 /\ 0 \in Slots
  BY IndexSets DEF LinkType
<1>2. PICK d1 : d1 = Linked(d, idx, f, 0)
  OBVIOUS
<1>3. d1 \in LinkType /\ OneLink(d1, d, idx, f, 0)
  BY <1>1, <1>2, SetLink
<1>4. PICK d2 : d2 = Linked(d1, idx, t, h)
  OBVIOUS
<1>5. d2 \in LinkType /\ OneLink(d2, d1, idx, t, h)
  BY <1>1, <1>3, <1>4, SetLink
<1>6. PICK d3 : d3 = Linked(d2, h, f, idx)
  OBVIOUS
<1>7. d3 \in LinkType /\ OneLink(d3, d2, h, f, idx)
  BY <1>1, <1>5, <1>6, SetLink
<1>8. PICK r : r = Linked(d3, 0, t, idx)
  OBVIOUS
<1>9. r \in LinkType /\ OneLink(r, d3, 0, t, idx)
  BY <1>1, <1>7, <1>8, SetLink
<1>10. Relinked(d, idx, f, t) = r
  BY <1>1, <1>2, <1>4, <1>6, <1>8 DEF Relinked, Linked
<1>11. QED
  BY <1>1, <1>3, <1>5, <1>7, <1>9, <1>10 DEF OneLink

\* What adjust does to every link when idx is not yet first.
LEMMA AdjustLinks ==
  ASSUME NEW S, S \subseteq Slots, 0 \in S, NEW d \in LinkType, NEW idx \in S, idx # 0,
         NEW f \in Dir, NEW t \in Dir, f # t, Mirrored(d, S, f, t),
         NEW a, a = d[idx][f], NEW b, b = d[idx][t], NEW h, h = d[0][t], a # 0,
         NEW r, r = Adjust(d, idx, f, t)
  PROVE  /\ r \in LinkType
         /\ h # idx /\ h # b /\ (a = idx <=> b = idx)
         /\ \A i \in Slots :
              /\ r[i][f] = IF i = h THEN idx ELSE IF i = idx THEN 0
                           ELSE IF i = b THEN a ELSE d[i][f]
              /\ r[i][t] = IF i = 0 THEN idx ELSE IF i = idx THEN h
                           ELSE IF i = a THEN b ELSE d[i][t]
<1>1. /\ idx \in Slots /\ idx \in Nodes /\ 0 \in Slots
      /\ a \in Slots /\ b \in Slots /\ h \in Slots
  BY IndexSets DEF LinkType
<1>2. h # idx /\ h # b /\ (a = idx <=> b = idx)
  BY DEF Mirrored
<1>3. PICK u : u = Unlinked(d, idx, f, t)
  OBVIOUS
<1>4. /\ u \in LinkType
      /\ \A i \in Slots : /\ u[i][f] = IF i = b THEN a ELSE d[i][f]
                          /\ u[i][t] = IF i = a THEN b ELSE d[i][t]
  BY <1>1, <1>2, <1>3, UnlinkedLinks
<1>5. u[0][t] = h
  BY <1>1, <1>4
<1>6. r = Relinked(u, idx, f, t)
  BY <1>3 DEF Adjust
<1>7. /\ r \in LinkType
      /\ \A i \in Slots :
           /\ r[i][f] = IF i = h THEN idx ELSE IF i = idx THEN 0 ELSE u[i][f]
           /\ r[i][t] = IF i = 0 THEN idx ELSE IF i = idx THEN h ELSE u[i][t]
  BY <1>1, <1>4, <1>5, <1>6, RelinkedLinks
<1>8. QED
  BY <1>1, <1>2, <1>4, <1>7

\* adjust keeps the links inverse to each other and makes idx the first node on
\* side t, from wherever it was.
LEMMA AdjustMirrored ==
  ASSUME NEW S, S \subseteq Slots, 0 \in S, NEW d \in LinkType, NEW idx \in S, idx # 0,
         NEW f \in Dir, NEW t \in Dir, f # t, Mirrored(d, S, f, t),
         NEW r, r = Adjust(d, idx, f, t)
  PROVE  r \in LinkType /\ Mirrored(r, S, f, t) /\ r[0][t] = idx
<1>1. CASE d[idx][f] = 0
  BY <1>1 DEF Adjust, Mirrored
<1>2. CASE d[idx][f] # 0
  <2>1. PICK a, b, h : a = d[idx][f] /\ b = d[idx][t] /\ h = d[0][t]
    OBVIOUS
  <2>2. /\ r \in LinkType
        /\ h # idx /\ h # b /\ (a = idx <=> b = idx)
        /\ \A i \in Slots :
             /\ r[i][f] = IF i = h THEN idx ELSE IF i = idx THEN 0
                          ELSE IF i = b THEN a ELSE d[i][f]
             /\ r[i][t] = IF i = 0 THEN idx ELSE IF i = idx THEN h
                          ELSE IF i = a THEN b ELSE d[i][t]
    BY <1>2, <2>1, AdjustLinks
  <2>3. a \in S /\ b \in S /\ h \in S
    BY <2>1 DEF Mirrored
  <2>4. ASSUME NEW i \in S
        PROVE  r[i][f] \in S /\ r[r[i][f]][t] = i
    BY <1>2, <2>1, <2>2, <2>3, <2>4 DEF Mirrored
  <2>5. ASSUME NEW i \in S
        PROVE  r[i][t] \in S /\ r[r[i][t]][f] = i
    BY <1>2, <2>1, <2>2, <2>3, <2>5 DEF Mirrored
  <2>6. r[0][t] = idx
    BY <2>2
  <2>7. QED
    BY <2>2, <2>4, <2>5, <2>6 DEF Mirrored
<1>3. QED
  BY <1>1, <1>2

-----------------------------------------------------------------------------
\* A node that the map knows is in use.
LEMMA FoundInUse ==
  ASSUME ListInv, NEW k \in Keys, hmap[k] # 0
  PROVE  hmap[k] \in InUse(last) /\ hmap[k] \in Nodes /\ m[hmap[k]].k = k
BY IndexSets DEF ListInv, TypesOK, IndexOK

\* Moving a node in use to the head or to the tail keeps the links in order.
LEMMA MoveNode ==
  ASSUME ListInv, NEW idx \in InUse(last), UNCHANGED last,
         \/ dlnk' = Adjust(dlnk, idx, "p", "n")
         \/ dlnk' = Adjust(dlnk, idx, "n", "p")
  PROVE  dlnk' \in LinkType /\ LinksOK' /\ HeadInUse'
<1>1. /\ Ring(last) \subseteq Slots /\ 0 \in Ring(last) /\ dlnk \in LinkType
      /\ idx \in Ring(last) /\ idx # 0
  BY IndexSets DEF ListInv, TypesOK
<1>2. Mirrored(dlnk, Ring(last), "p", "n") /\ Mirrored(dlnk, Ring(last), "n", "p")
  BY DEF ListInv, LinksOK, Mirrored
<1>3. CASE dlnk' = Adjust(dlnk, idx, "p", "n")
  <2>1. /\ dlnk' \in LinkType /\ Mirrored(dlnk', Ring(last), "p", "n")
        /\ dlnk'[0]["n"] = idx
    BY <1>1, <1>2, <1>3, AdjustMirrored DEF Dir
  <2>2. QED
    BY <1>1, <2>1 DEF LinksOK, HeadInUse
<1>4. CASE dlnk' = Adjust(dlnk, idx, "n", "p")
  <2>1. /\ dlnk' \in LinkType /\ Mirrored(dlnk', Ring(last), "n", "p")
        /\ dlnk'[0]["p"] = idx
    BY <1>1, <1>2, <1>4, AdjustMirrored DEF Dir
  <2>2. Mirrored(dlnk', Ring(last), "p", "n")
    BY <2>1 DEF Mirrored
  <2>3. dlnk'[0]["n"] # 0
    BY <1>1, <2>1 DEF Mirrored
  <2>4. QED
    BY <2>1, <2>2, <2>3 DEF LinksOK, HeadInUse
<1>5. QED
  BY <1>3, <1>4

-----------------------------------------------------------------------------
\* put of a key that is there.
LEMMA PutUpdateInv ==
  ASSUME ListInv, NEW k \in Keys, NEW v \in Values, PutUpdate(k, v)
  PROVE  ListInv'
<1>1. /\ hmap[k] \in InUse(last) /\ hmap[k] \in Nodes /\ m[hmap[k]].k = k
      /\ last' = last /\ hmap' = hmap
  BY FoundInUse DEF PutUpdate
<1>2. dlnk' \in LinkType /\ LinksOK' /\ HeadInUse'
  BY <1>1, MoveNode DEF PutUpdate
<1>3. m' \in [Nodes -> NodeType] /\ \A i \in Nodes : m'[i].k = m[i].k
  BY <1>1 DEF PutUpdate, ListInv, TypesOK, NodeType, Node
<1>4. IndexOK'
  BY <1>1, <1>3, IndexSets DEF ListInv, TypesOK, IndexOK
<1>5. QED
  BY <1>1, <1>2, <1>3, <1>4 DEF ListInv, TypesOK

\* put of a new key when no node is free: the tail changes its owner.
LEMMA PutReuseInv ==
  ASSUME ListInv, NEW k \in Keys, NEW v \in Values, PutReuse(k, v)
  PROVE  ListInv'
<1>1. PICK tail : tail = dlnk[0]["p"]
  OBVIOUS
<1>2. last = Cap /\ last' = last /\ hmap[k] = 0
  BY DEF PutReuse
<1>3. tail \in InUse(last) /\ tail \in Nodes /\ tail \in Ring(last) /\ tail \in Slots
  BY <1>1, <1>2, IndexSets DEF ListInv, TypesOK, LinksOK, Mirrored, HeadInUse
<1>4. dlnk' \in LinkType /\ LinksOK' /\ HeadInUse'
  BY <1>1, <1>2, <1>3, MoveNode DEF PutReuse
<1>5. PICK old : old = m[tail].k
  OBVIOUS
<1>6. /\ old \in Keys /\ hmap[old] = tail /\ old # k
      /\ \A j \in Keys : hmap[j] = tail => j = old
  BY <1>2, <1>3, <1>5, IndexSets DEF ListInv, TypesOK, IndexOK
<1>7. /\ hmap' \in [Keys -> Slots]
      /\ \A j \in Keys : hmap'[j] = IF j = k THEN tail ELSE IF j = old THEN 0 ELSE hmap[j]
  BY <1>1, <1>2, <1>3, <1>5, <1>6, IndexSets DEF PutReuse, ListInv, TypesOK
<1>8. /\ m' \in [Nodes -> NodeType]
      /\ m'[tail].k = k /\ \A i \in Nodes : i # tail => m'[i] = m[i]
  BY <1>1, <1>3 DEF PutReuse, ListInv, TypesOK, NodeType, Node
<1>9. IndexOK'
  <2>1. \A j \in Keys : hmap'[j] \in Ring(last) /\ (hmap'[j] # 0 => m'[hmap'[j]].k = j)
    BY <1>2, <1>3, <1>6, <1>7, <1>8, IndexSets DEF ListInv, TypesOK, IndexOK
  <2>2. \A i \in InUse(last) : m'[i].k \in Keys /\ hmap'[m'[i].k] = i
    BY <1>2, <1>3, <1>6, <1>7, <1>8, IndexSets DEF ListInv, TypesOK, IndexOK
  <2>3. QED
    BY <1>2, <2>1, <2>2 DEF IndexOK
<1>10. QED
  BY <1>2, <1>4, <1>7, <1>8, <1>9 DEF ListInv, TypesOK

\* What linking in a free node does to every link.
LEMMA PutNewLinks ==
  ASSUME ListInv, NEW k \in Keys, NEW v \in Values, PutNew(k, v),
         NEW new, new = last + 1, NEW head, head = dlnk[0]["n"]
  PROVE  /\ dlnk' \in LinkType
         /\ \A i \in Slots :
              /\ dlnk'[i]["p"] = IF i = new THEN 0 ELSE IF i = head THEN new ELSE dlnk[i]["p"]
              /\ dlnk'[i]["n"] = IF i = 0 THEN new ELSE IF i = new THEN head ELSE dlnk[i]["n"]
<1>1. /\ last \in Slots /\ new \in Slots /\ new # 0 /\ 0 \in Slots /\ 0 \in Ring(last)
      /\ Ring(last) \subseteq Slots /\ InUse(last) = Ring(last) \ {0}
      /\ InUse(last) = {} => Ring(last) = {0}
  BY IndexSets, OneMore DEF PutNew, ListInv, TypesOK
<1>2. head \in Ring(last) /\ head \in Slots /\ dlnk \in LinkType
  BY <1>1 DEF ListInv, TypesOK, LinksOK, Mirrored
<1>3. (IF \A j \in Keys : hmap[j] = 0 THEN 0 ELSE dlnk[0]["n"]) = head
  BY <1>1, <1>2 DEF ListInv, IndexOK
<1>4. PICK d1 : d1 = Linked(dlnk, head, "p", new)
  OBVIOUS
<1>5. d1 \in LinkType /\ OneLink(d1, dlnk, head, "p", new)
  BY <1>1, <1>2, <1>4, SetLink DEF Dir
<1>6. PICK d2 : d2 = [d1 EXCEPT ![new] = [d \in Dir |-> IF d = "p" THEN 0 ELSE head]]
  OBVIOUS
<1>7. /\ d2 \in LinkType
      /\ \A i \in Slots, g \in Dir :
           d2[i][g] = IF i = new THEN (IF g = "p" THEN 0 ELSE head) ELSE d1[i][g]
  BY <1>1, <1>2, <1>5, <1>6 DEF LinkType
<1>8. PICK d3 : d3 = Linked(d2, 0, "n", new)
  OBVIOUS
<1>9. d3 \in LinkType /\ OneLink(d3, d2, 0, "n", new)
  BY <1>1, <1>7, <1>8, SetLink DEF Dir
<1>10. d1[0]["n"] = head
  BY <1>1, <1>5 DEF Dir, OneLink
<1>11. dlnk' = d3
  BY <1>3, <1>4, <1>6, <1>8, <1>10 DEF PutNew, Linked
<1>12. QED
  BY <1>1, <1>5, <1>7, <1>9, <1>11 DEF Dir, OneLink

\* put of a new key on a free node.
LEMMA PutNewInv ==
  ASSUME ListInv, NEW k \in Keys, NEW v \in Values, PutNew(k, v)
  PROVE  ListInv'
<1>1. PICK new, head, d3 : new = last + 1 /\ head = dlnk[0]["n"] /\ d3 = dlnk'
  OBVIOUS
<1>2. /\ last \in Slots /\ last' = new /\ hmap[k] = 0
      /\ new \in Slots /\ new \in Nodes /\ new \notin Ring(last) /\ new # 0
      /\ Ring(new) = Ring(last) \cup {new} /\ InUse(new) = InUse(last) \cup {new}
      /\ 0 \in Slots /\ 0 \in Ring(last) /\ Ring(last) \subseteq Slots
      /\ InUse(last) = Ring(last) \ {0} /\ InUse(last) \subseteq Nodes
  BY <1>1, IndexSets, OneMore DEF PutNew, ListInv, TypesOK
<1>3. head \in Ring(last) /\ head \in Slots
  BY <1>1, <1>2 DEF ListInv, LinksOK, Mirrored
<1>4. dlnk' = d3
  BY <1>1
<1>5. /\ d3 \in LinkType
       /\ \A i \in Slots : /\ d3[i]["p"] = IF i = new THEN 0 ELSE IF i = head THEN new
                                         ELSE dlnk[i]["p"]
                         /\ d3[i]["n"] = IF i = 0 THEN new ELSE IF i = new THEN head
                                         ELSE dlnk[i]["n"]
  BY <1>1, PutNewLinks
<1>6. LinksOK'
  <2>1. ASSUME NEW i \in Ring(new)
        PROVE  d3[i]["p"] \in Ring(new) /\ d3[d3[i]["p"]]["n"] = i
    <3>1. CASE i = new
      BY <1>2, <1>3, <1>5, <3>1
    <3>2. CASE i = head /\ i # new
      BY <1>2, <1>3, <1>5, <3>2
    <3>3. CASE i # head /\ i # new
      <4>1. i \in Ring(last) /\ i \in Slots /\ d3[i]["p"] = dlnk[i]["p"]
        BY <1>2, <1>5, <2>1, <3>3
      <4>2. dlnk[i]["p"] \in Ring(last) /\ dlnk[dlnk[i]["p"]]["n"] = i /\ dlnk[0]["n"] = head
        BY <1>1, <1>2, <4>1 DEF ListInv, LinksOK, Mirrored
      <4>3. dlnk[i]["p"] # 0 /\ dlnk[i]["p"] # new /\ dlnk[i]["p"] \in Slots
        BY <1>2, <3>3, <4>2
      <4>4. QED
        BY <1>2, <1>5, <4>1, <4>2, <4>3
    <3>4. QED
      BY <3>1, <3>2, <3>3
  <2>2. ASSUME NEW i \in Ring(new)
        PROVE  d3[i]["n"] \in Ring(new) /\ d3[d3[i]["n"]]["p"] = i
    <3>1. CASE i = 0 \/ i = new
      BY <1>2, <1>3, <1>5, <3>1
    <3>2. CASE i # 0 /\ i # new
      <4>1. i \in Ring(last) /\ i \in Slots /\ d3[i]["n"] = dlnk[i]["n"]
        BY <1>2, <1>5, <2>2, <3>2
      <4>2. dlnk[i]["n"] \in Ring(last) /\ dlnk[dlnk[i]["n"]]["p"] = i /\ dlnk[head]["p"] = 0
        BY <1>1, <1>2, <4>1 DEF ListInv, LinksOK, Mirrored
      <4>3. QED
        BY <1>2, <1>5, <3>2, <4>1, <4>2
    <3>3. QED
      BY <3>1, <3>2
  <2>3. QED
    BY <1>2, <1>4, <2>1, <2>2 DEF LinksOK, Mirrored
<1>7. HeadInUse' /\ dlnk' \in LinkType
  BY <1>2, <1>4, <1>5 DEF HeadInUse
<1>8. /\ m' \in [Nodes -> NodeType]
       /\ m'[new].k = k /\ \A i \in InUse(last) : m'[i] = m[i]
  BY <1>1, <1>2 DEF PutNew, ListInv, TypesOK, NodeType, Node
<1>9. /\ hmap' \in [Keys -> Slots]
       /\ \A j \in Keys : hmap'[j] = IF j = k THEN new ELSE hmap[j]
  BY <1>1, <1>2 DEF PutNew, ListInv, TypesOK
<1>10. IndexOK'
  <2>1. \A j \in Keys : hmap'[j] \in Ring(new) /\ (hmap'[j] # 0 => m'[hmap'[j]].k = j)
    BY <1>2, <1>8, <1>9 DEF ListInv, IndexOK
  <2>2. \A i \in InUse(new) : m'[i].k \in Keys /\ hmap'[m'[i].k] = i
    BY <1>2, <1>8, <1>9 DEF ListInv, IndexOK
  <2>3. QED
    BY <1>2, <2>1, <2>2 DEF IndexOK
<1>11. QED
  BY <1>2, <1>6, <1>7, <1>8, <1>9, <1>10 DEF ListInv, TypesOK

\* get and del move a node and leave the map alone.
LEMMA GetDelInv ==
  ASSUME ListInv, NEW k \in Keys, Get(k) \/ DelHit(k) \/ DelMiss(k)
  PROVE  ListInv'
<1>1. CASE DelMiss(k) \/ (Get(k) /\ hmap[k] = 0)
  BY <1>1 DEF DelMiss, Get, ListInv, TypesOK, LinksOK, IndexOK, HeadInUse
<1>2. CASE DelHit(k) \/ (Get(k) /\ hmap[k] # 0)
  <2>1. /\ hmap[k] \in InUse(last) /\ hmap[k] \in Nodes /\ last' = last /\ hmap' = hmap
    BY <1>2, FoundInUse DEF DelHit, Get
  <2>2. dlnk' \in LinkType /\ LinksOK' /\ HeadInUse'
    BY <1>2, <2>1, MoveNode DEF DelHit, Get
  <2>3. m' \in [Nodes -> NodeType] /\ \A i \in Nodes : m'[i].k = m[i].k
    <3>1. CASE Get(k)
      BY <3>1 DEF Get, ListInv, TypesOK
    <3>2. CASE DelHit(k)
      <4>1. m \in [Nodes -> NodeType] /\ m[hmap[k]] \in NodeType
        BY <2>1 DEF ListInv, TypesOK
      <4>2. m' = [m EXCEPT ![hmap[k]] = [m[hmap[k]] EXCEPT !.deleted = TRUE]]
        BY <3>2 DEF DelHit
      <4>3. QED
        BY <2>1, <4>1, <4>2 DEF NodeType
    <3>3. QED
      BY <1>2, <3>1, <3>2
  <2>4. IndexOK'
    BY <2>1, <2>3, IndexSets DEF ListInv, TypesOK, IndexOK
  <2>5. QED
    BY <2>1, <2>2, <2>3, <2>4 DEF ListInv, TypesOK
<1>3. QED
  BY <1>1, <1>2

-----------------------------------------------------------------------------
\* The inductive invariant of a level (Create, put, get, del and adjust,
\* store/lru2.go lines 240-350).
THEOREM ListInvariant == Spec => []ListInv
<1>1. Init => ListInv
  <2> SUFFICES ASSUME Init PROVE ListInv
    OBVIOUS
  <2>1. TypesOK
    BY IndexSets DEF Init, TypesOK, LinkType, NodeType, Slots, Nodes
  <2>2. Ring(last) = {0} /\ InUse(last) = {} /\ last \in Slots
    BY IndexSets DEF Init, Ring, InUse
  <2>3. LinksOK
    BY <2>2, IndexSets DEF Init, LinksOK, Mirrored, Slots, Dir
  <2>4. IndexOK /\ HeadInUse
    BY <2>2 DEF Init, IndexOK, HeadInUse
  <2>5. QED
    BY <2>1, <2>3, <2>4 DEF ListInv
<1>2. ListInv /\ [Next]_vars => ListInv'
  <2> SUFFICES ASSUME ListInv, [Next]_vars PROVE ListInv'
    OBVIOUS
  <2>1. CASE UNCHANGED vars
    BY <2>1 DEF vars, ListInv, TypesOK, LinksOK, IndexOK, HeadInUse
  <2>2. CASE Next
    BY <2>2, GetDelInv, PutUpdateInv, PutReuseInv, PutNewInv DEF Next, Put
  <2>3. QED
    BY <2>1, <2>2
<1>3. QED
  BY <1>1, <1>2, PTL DEF Spec

\* For every capacity: adjust never loses a node or leaves a dangling index,
\* and the map finds every node in use under its own key and only there, through
\* every sequence of put, get and del (store/lru2.go lines 262-350).
THEOREM LevelStructure == Spec => []StructureOK
<1>1. ListInv => StructureOK
  BY DEF ListInv, TypesOK, LinksOK, IndexOK, Mirrored, LinkType, NodeType, Slots, Nodes, Ring,
     InUse, StructureOK, TypeOK, LinksInverse, IndexMatches
<1>2. QED
  BY <1>1, ListInvariant, PTL

-----------------------------------------------------------------------------
(* The order of the links.  A path names the nodes met from the sentinel along *)
(* the next links until they lead back to it: P[i] is the i-th of them.        *)

Steps(n) == 0..(n + 1)

\* P leads from the sentinel through every node in use, once each, and back.
IsPath(d, n, P) ==
  /\ P \in [Steps(n) -> Ring(n)]
  /\ P[0] = 0 /\ P[n + 1] = 0
  /\ \A i \in InUse(n) : P[i] # 0
  /\ \A i, j \in InUse(n) : P[i] = P[j] => i = j
  /\ \A x \in InUse(n) : \E i \in InUse(n) : P[i] = x
  /\ \A i \in Ring(n) : d[P[i]]["n"] = P[i + 1]

\* There is such a path: the links do not fall apart into several cycles, which
\* links that are inverse to each other may.
PathOK == \E P : IsPath(dlnk, last, P)

\* Where the i-th node of a path of n was before the j-th went to the head, or to
\* the tail.
HeadFrom(n, j) ==
  [i \in Steps(n) |-> IF i = 1 THEN j ELSE IF 2 <= i /\ i <= j THEN i - 1 ELSE i]
TailFrom(n, j) ==
  [i \in Steps(n) |-> IF i = n THEN j ELSE IF j <= i /\ i < n THEN i + 1 ELSE i]

\* The path whose i-th node was the s[i]-th of P.
Reordered(P, n, s) == [i \in Steps(n) |-> P[s[i]]]

\* s only reorders.
IsOrder(n, s) ==
  /\ s \in [0..(n + 1) -> 0..(n + 1)] /\ s[0] = 0 /\ s[n + 1] = n + 1
  /\ \A i \in 1..n : s[i] \in 1..n
  /\ \A i, j \in 1..n : s[i] = s[j] => i = j
  /\ \A x \in 1..n : \E i \in 1..n : s[i] = x

\* The path after the node x was linked in at the head.
NewHead(P, n, x) ==
  [i \in Steps(n + 1) |-> IF i = 0 THEN 0 ELSE IF i = 1 THEN x ELSE P[i - 1]]

\* What a path says, in numbers.
LEMMA PathFacts ==
  ASSUME NEW n \in Slots, NEW d, NEW P, IsPath(d, n, P)
  PROVE  /\ n \in Nat
         /\ P[0] = 0 /\ P[n + 1] = 0
         /\ \A i \in 1..n : P[i] \in 1..n
         /\ \A i, j \in 1..n : P[i] = P[j] => i = j
         /\ \A x \in 1..n : \E i \in 1..n : P[i] = x
         /\ \A i \in 0..n : d[P[i]]["n"] = P[i + 1]
         /\ \A i \in 0..(n + 1) : P[i] \in 0..n
         /\ P \in [0..(n + 1) -> 0..n]
<1>1. n \in Nat
  BY CapIsPositive DEF Slots
<1>2. /\ P \in [0..(n + 1) -> 0..n] /\ P[0] = 0 /\ P[n + 1] = 0
      /\ \A i \in 1..n : P[i] # 0
      /\ \A i, l \in 1..n : P[i] = P[l] => i = l
      /\ \A x \in 1..n : \E i \in 1..n : P[i] = x
      /\ \A i \in 0..n : d[P[i]]["n"] = P[i + 1]
  BY DEF IsPath, Ring, InUse, Steps
<1>3. \A i \in 0..(n + 1) : P[i] \in 0..n
  BY <1>2
<1>4. \A i \in 1..n : i \in 0..(n + 1)
  BY <1>1
<1>5. \A i \in 1..n : P[i] \in 1..n
  <2> SUFFICES ASSUME NEW i \in 1..n PROVE P[i] \in 1..n
    OBVIOUS
  <2>1. P[i] \in 0..n /\ P[i] # 0
    BY <1>2, <1>3, <1>4
  <2>2. QED
    BY <1>1, <2>1
<1>6. QED
  BY <1>1, <1>2, <1>3, <1>5

\* The next links lead along the path, so the previous links lead back.
LEMMA PathBack ==
  ASSUME NEW n \in Slots, NEW d, Mirrored(d, Ring(n), "p", "n"), NEW P, IsPath(d, n, P),
         NEW i \in 0..n
  PROVE  d[P[i + 1]]["p"] = P[i]
<1>1. P[i] \in 0..n /\ d[P[i]]["n"] = P[i + 1]
  <2>1. n \in Nat /\ i \in 0..(n + 1)
    BY CapIsPositive DEF Slots
  <2>2. /\ \A l \in 0..n : d[P[l]]["n"] = P[l + 1]
        /\ \A l \in 0..(n + 1) : P[l] \in 0..n
    BY PathFacts
  <2>3. QED
    BY <2>1, <2>2
<1>2. QED
  BY <1>1 DEF Mirrored, Ring

\* To prove that something is a path.
LEMMA PathIntro ==
  ASSUME NEW n \in Slots, NEW d, NEW P, P \in [0..(n + 1) -> 0..n], P[0] = 0, P[n + 1] = 0,
         \A i \in 1..n : P[i] \in 1..n,
         \A i, j \in 1..n : P[i] = P[j] => i = j,
         \A x \in 1..n : \E i \in 1..n : P[i] = x,
         \A i \in 0..n : d[P[i]]["n"] = P[i + 1]
  PROVE  IsPath(d, n, P)
<1>1. n \in Nat
  BY CapIsPositive DEF Slots
<1>2. \A i \in 1..n : P[i] # 0
  BY <1>1
<1>3. QED
  BY <1>2 DEF IsPath, Ring, InUse, Steps

LEMMA ReorderedPath ==
  ASSUME NEW n \in Slots, NEW d, NEW P, IsPath(d, n, P), NEW s, IsOrder(n, s),
         NEW r, \A i \in 0..n : r[P[s[i]]]["n"] = P[s[i + 1]]
  PROVE  IsPath(r, n, Reordered(P, n, s))
<1>1. n \in Nat /\ P[0] = 0 /\ P[n + 1] = 0
  BY PathFacts
<1>2. \A i \in 1..n : P[i] \in 1..n
  BY PathFacts
<1>3. \A i, l \in 1..n : P[i] = P[l] => i = l
  BY PathFacts
<1>4. \A x \in 1..n : \E i \in 1..n : P[i] = x
  BY PathFacts
<1>5. \A i \in 0..(n + 1) : P[i] \in 0..n
  BY PathFacts
<1>6. PICK Q : Q = Reordered(P, n, s)
  OBVIOUS
<1>7. Q = [i \in 0..(n + 1) |-> P[s[i]]]
  BY <1>6 DEF Reordered, Steps
<1>8. Q \in [0..(n + 1) -> 0..n]
  BY <1>5, <1>7 DEF IsOrder
<1>9. 0 \in 0..(n + 1) /\ n + 1 \in 0..(n + 1) /\ \A i \in 1..n : i \in 0..(n + 1)
  BY <1>1
<1>10. Q[0] = 0 /\ Q[n + 1] = 0 /\ \A i \in 1..n : Q[i] = P[s[i]]
  BY <1>1, <1>7, <1>9 DEF IsOrder
<1>11. \A i \in 1..n : Q[i] \in 1..n
  BY <1>2, <1>10 DEF IsOrder
<1>12. ASSUME NEW i \in 1..n, NEW l \in 1..n, Q[i] = Q[l] PROVE i = l
  <2>1. s[i] \in 1..n /\ s[l] \in 1..n /\ (s[i] = s[l] => i = l)
    BY DEF IsOrder
  <2>2. QED
    BY <1>3, <1>10, <1>12, <2>1
<1>13. ASSUME NEW x \in 1..n PROVE \E i \in 1..n : Q[i] = x
  <2>1. PICK y \in 1..n : P[y] = x
    BY <1>4
  <2>2. PICK i \in 1..n : s[i] = y
    BY DEF IsOrder
  <2>3. QED
    BY <1>10, <2>1, <2>2
<1>14. \A i \in 0..n : r[Q[i]]["n"] = Q[i + 1]
  <2>1. \A i \in 0..n : i \in 0..(n + 1) /\ i + 1 \in 0..(n + 1)
    BY <1>1
  <2>2. QED
    BY <1>7, <2>1
<1>15. IsPath(r, n, Q)
  <2>1. Q[0] = 0 /\ Q[n + 1] = 0
    BY <1>10
  <2>2. QED
    BY <1>8, <1>11, <1>12, <1>13, <1>14, <2>1, PathIntro
<1>16. QED
  BY <1>6, <1>15

LEMMA HeadOrder ==
  ASSUME NEW n \in Nat, NEW j \in 1..n, NEW s, s = HeadFrom(n, j)
  PROVE  IsOrder(n, s)
<1>1. \A i \in 0..(n + 1) :
        s[i] = IF i = 1 THEN j ELSE IF 2 <= i /\ i <= j THEN i - 1 ELSE i
  BY DEF HeadFrom, Steps
<1>2. s \in [0..(n + 1) -> 0..(n + 1)]
  BY DEF HeadFrom, Steps
<1>3. s[0] = 0 /\ s[n + 1] = n + 1 /\ \A i \in 1..n : s[i] \in 1..n
  BY <1>1
<1>4. \A i, l \in 1..n : s[i] = s[l] => i = l
  BY <1>1
<1>5. ASSUME NEW x \in 1..n PROVE \E i \in 1..n : s[i] = x
  <2>1. CASE x = j
    BY <1>1, <2>1
  <2>2. CASE x < j
    <3>1. x + 1 \in 1..n /\ s[x + 1] = x
      BY <1>1, <2>2
    <3>2. QED
      BY <3>1
  <2>3. CASE j < x
    <3>1. s[x] = x
      BY <1>1, <2>3
    <3>2. QED
      BY <3>1
  <2>4. QED
    BY <2>1, <2>2, <2>3
<1>6. QED
  BY <1>2, <1>3, <1>4, <1>5 DEF IsOrder

LEMMA TailOrder ==
  ASSUME NEW n \in Nat, NEW j \in 1..n, NEW s, s = TailFrom(n, j)
  PROVE  IsOrder(n, s)
<1>1. \A i \in 0..(n + 1) :
        s[i] = IF i = n THEN j ELSE IF j <= i /\ i < n THEN i + 1 ELSE i
  BY DEF TailFrom, Steps
<1>2. s \in [0..(n + 1) -> 0..(n + 1)]
  BY DEF TailFrom, Steps
<1>3. s[0] = 0 /\ s[n + 1] = n + 1 /\ \A i \in 1..n : s[i] \in 1..n
  BY <1>1
<1>4. \A i, l \in 1..n : s[i] = s[l] => i = l
  BY <1>1
<1>5. ASSUME NEW x \in 1..n PROVE \E i \in 1..n : s[i] = x
  <2>1. CASE x = j
    <3>1. n \in 1..n /\ s[n] = x
      BY <1>1, <2>1
    <3>2. QED
      BY <3>1
  <2>2. CASE x < j
    <3>1. s[x] = x
      BY <1>1, <2>2
    <3>2. QED
      BY <3>1
  <2>3. CASE j < x
    <3>1. x - 1 \in 1..n /\ s[x - 1] = x
      BY <1>1, <2>3
    <3>2. QED
      BY <3>1
  <2>4. QED
    BY <2>1, <2>2, <2>3
<1>6. QED
  BY <1>2, <1>3, <1>4, <1>5 DEF IsOrder

\* The positions along a path tell its nodes apart, the sentinel included.
LEMMA PathPositions ==
  ASSUME NEW n \in Slots, NEW d, NEW P, IsPath(d, n, P), NEW i \in 0..n, NEW j \in 0..n,
         P[i] = P[j]
  PROVE  i = j
<1>1. n \in Nat /\ P[0] = 0
  BY PathFacts
<1>2. \A l \in 1..n : P[l] \in 1..n
  BY PathFacts
<1>3. \A l, x \in 1..n : P[l] = P[x] => l = x
  BY PathFacts
<1>4. (i = 0 \/ i \in 1..n) /\ (j = 0 \/ j \in 1..n) /\ 0 \notin 1..n
  BY <1>1
<1>5. QED
  BY <1>1, <1>2, <1>3, <1>4

\* adjust(idx, p, n) moves the j-th node of the path to its beginning.
LEMMA PathHead ==
  ASSUME NEW n \in Slots, NEW d \in LinkType, Mirrored(d, Ring(n), "p", "n"),
         NEW P, IsPath(d, n, P), NEW j \in 1..n, NEW r, r = Adjust(d, P[j], "p", "n")
  PROVE  IsPath(r, n, Reordered(P, n, HeadFrom(n, j)))
<1>1. n \in Nat /\ P[0] = 0 /\ P[n + 1] = 0
  BY PathFacts
<1>2. \A i \in 0..n : d[P[i]]["n"] = P[i + 1]
  BY PathFacts
<1>3. \A i \in 0..(n + 1) : P[i] \in 0..n
  BY PathFacts
<1>4. \A i, l \in 0..n : P[i] = P[l] => i = l
  BY PathPositions
<1>5. 0 \in 0..n /\ j \in 0..n /\ j - 1 \in 0..n /\ (j - 1) + 1 = j /\ j # 0
  BY <1>1
<1>6. d[P[j]]["p"] = P[j - 1]
  BY <1>5, PathBack
<1>7. PICK s : s = HeadFrom(n, j)
  OBVIOUS
<1>8. IsOrder(n, s)
  BY <1>1, <1>7, HeadOrder
<1>9. \A i \in 0..(n + 1) :
        s[i] = IF i = 1 THEN j ELSE IF 2 <= i /\ i <= j THEN i - 1 ELSE i
  BY <1>7 DEF HeadFrom, Steps
<1>10. ASSUME NEW i \in 0..n PROVE r[P[s[i]]]["n"] = P[s[i + 1]]
  <2>1. CASE j = 1
    <3>1. r = d
      BY <1>1, <1>6, <2>1 DEF Adjust
    <3>2. s[i] = i /\ s[i + 1] = i + 1
      BY <1>1, <1>9, <2>1
    <3>3. QED
      BY <1>2, <3>1, <3>2
  <2>2. CASE j # 1
    <3>1. P[j - 1] # 0 /\ P[j] # 0 /\ P[j] \in Ring(n)
      <4>1. j - 1 # 0
        BY <1>1, <2>2
      <4>2. P[j] \in 0..n
        BY <1>1, <1>3
      <4>3. QED
        BY <1>1, <1>4, <1>5, <4>1, <4>2 DEF Ring
    <3>2. Ring(n) \subseteq Slots /\ 0 \in Ring(n) /\ "p" \in Dir /\ "n" \in Dir /\ "p" # "n"
      BY IndexSets DEF Dir
    <3>3. d[0]["n"] = P[1] /\ d[P[j]]["n"] = P[j + 1]
      <4>1. 0 + 1 = 1
        OBVIOUS
      <4>2. QED
        BY <1>1, <1>2, <1>5, <4>1
    <3>4. \A l \in 0..n : P[l] \in Slots
      <4>1. \A l \in 0..n : l \in 0..(n + 1)
        BY <1>1
      <4>2. QED
        BY <1>3, <3>2, <4>1 DEF Ring
    <3>5. \A l \in Slots : r[l]["n"] = IF l = P[0] THEN P[j] ELSE IF l = P[j] THEN P[1]
                              ELSE IF l = P[j - 1] THEN P[j + 1] ELSE d[l]["n"]
      BY <1>1, <1>6, <3>1, <3>2, <3>3, AdjustLinks
    <3>6. \A l \in 0..n : r[P[l]]["n"] = P[IF l = 0 THEN j ELSE IF l = j THEN 1
                              ELSE IF l = j - 1 THEN j + 1 ELSE l + 1]
      BY <1>2, <1>4, <1>5, <3>4, <3>5
    <3>7. s[i] \in 0..n /\ s[i + 1] = IF s[i] = 0 THEN j ELSE IF s[i] = j THEN 1
                              ELSE IF s[i] = j - 1 THEN j + 1 ELSE s[i] + 1
      BY <1>1, <1>9, <2>2
    <3>8. QED
      BY <3>6, <3>7
  <2>3. QED
    BY <2>1, <2>2
<1>11. QED
  BY <1>7, <1>8, <1>10, ReorderedPath

\* adjust(idx, n, p) moves the j-th node of the path to its end.
LEMMA PathTail ==
  ASSUME NEW n \in Slots, NEW d \in LinkType, Mirrored(d, Ring(n), "p", "n"),
         NEW P, IsPath(d, n, P), NEW j \in 1..n, NEW r, r = Adjust(d, P[j], "n", "p")
  PROVE  IsPath(r, n, Reordered(P, n, TailFrom(n, j)))
<1>1. n \in Nat /\ P[0] = 0 /\ P[n + 1] = 0
  BY PathFacts
<1>2. \A i \in 0..n : d[P[i]]["n"] = P[i + 1]
  BY PathFacts
<1>3. \A i \in 0..(n + 1) : P[i] \in 0..n
  BY PathFacts
<1>4. \A i, l \in 0..n : P[i] = P[l] => i = l
  BY PathPositions
<1>5. /\ 0 \in 0..n /\ j \in 0..n /\ j - 1 \in 0..n /\ (j - 1) + 1 = j /\ j # 0
      /\ n \in 0..n /\ n # 0
  BY <1>1
<1>6. d[P[j]]["p"] = P[j - 1] /\ d[P[j]]["n"] = P[j + 1] /\ d[0]["p"] = P[n]
  <2>1. d[P[n + 1]]["p"] = P[n]
    BY <1>5, PathBack
  <2>2. d[P[(j - 1) + 1]]["p"] = P[j - 1]
    BY <1>5, PathBack
  <2>3. QED
    BY <1>1, <1>2, <1>5, <2>1, <2>2
<1>7. PICK s : s = TailFrom(n, j)
  OBVIOUS
<1>8. IsOrder(n, s)
  BY <1>1, <1>7, TailOrder
<1>9. \A i \in 0..(n + 1) :
        s[i] = IF i = n THEN j ELSE IF j <= i /\ i < n THEN i + 1 ELSE i
  BY <1>7 DEF TailFrom, Steps
<1>10. ASSUME NEW i \in 0..n PROVE r[P[s[i]]]["n"] = P[s[i + 1]]
  <2>1. CASE j = n
    <3>1. r = d
      BY <1>1, <1>6, <2>1 DEF Adjust
    <3>2. s[i] = i /\ s[i + 1] = i + 1
      BY <1>1, <1>9, <2>1
    <3>3. QED
      BY <1>2, <3>1, <3>2
  <2>2. CASE j # n
    <3>1. P[j + 1] # 0 /\ P[j] # 0 /\ P[j] \in Ring(n)
      <4>1. j + 1 # 0 /\ j + 1 \in 0..n
        BY <1>1, <2>2
      <4>2. P[j] \in 0..n
        BY <1>1, <1>3
      <4>3. QED
        BY <1>1, <1>4, <1>5, <4>1, <4>2 DEF Ring
    <3>2. /\ Ring(n) \subseteq Slots /\ 0 \in Ring(n) /\ "p" \in Dir /\ "n" \in Dir /\ "p" # "n"
          /\ Mirrored(d, Ring(n), "n", "p")
      BY IndexSets DEF Dir, Mirrored
    <3>3. \A l \in Slots : r[l]["n"] = IF l = P[n] THEN P[j] ELSE IF l = P[j] THEN 0
                              ELSE IF l = P[j - 1] THEN P[j + 1] ELSE d[l]["n"]
      BY <1>6, <3>1, <3>2, AdjustLinks
    <3>4. \A l \in 0..n : P[l] \in Slots
      <4>1. \A l \in 0..n : l \in 0..(n + 1)
        BY <1>1
      <4>2. QED
        BY <1>3, <3>2, <4>1 DEF Ring
    <3>5. \A l \in 0..n : r[P[l]]["n"] = P[IF l = n THEN j ELSE IF l = j THEN n + 1
                              ELSE IF l = j - 1 THEN j + 1 ELSE l + 1]
      BY <1>1, <1>2, <1>4, <1>5, <3>3, <3>4
    <3>6. s[i] \in 0..n /\ s[i + 1] = IF s[i] = n THEN j ELSE IF s[i] = j THEN n + 1
                              ELSE IF s[i] = j - 1 THEN j + 1 ELSE s[i] + 1
      BY <1>1, <1>9, <2>2
    <3>7. QED
      BY <3>5, <3>6
  <2>3. QED
    BY <2>1, <2>2
<1>11. QED
  BY <1>7, <1>8, <1>10, ReorderedPath

\* Linking in a free node makes it the first of the path.
LEMMA PathNew ==
  ASSUME NEW n \in Slots, n # Cap, NEW d, NEW P, IsPath(d, n, P), NEW r,
         \A i \in Slots : r[i]["n"] = IF i = 0 THEN n + 1 ELSE IF i = n + 1 THEN d[0]["n"]
                                       ELSE d[i]["n"]
  PROVE  IsPath(r, n + 1, NewHead(P, n, n + 1))
<1>1. n \in Nat /\ P[0] = 0 /\ P[n + 1] = 0 /\ n + 1 \in Slots
  BY PathFacts, OneMore
<1>2. \A i \in 1..n : P[i] \in 1..n
  BY PathFacts
<1>3. \A i, l \in 1..n : P[i] = P[l] => i = l
  BY PathFacts
<1>4. \A x \in 1..n : \E i \in 1..n : P[i] = x
  BY PathFacts
<1>5. \A i \in 0..(n + 1) : P[i] \in 0..n
  BY PathFacts
<1>6. \A i \in 0..n : d[P[i]]["n"] = P[i + 1]
  BY PathFacts
<1>7. PICK Q, w : Q = NewHead(P, n, n + 1) /\ w = n + 1
  OBVIOUS
<1>8. \A i \in 0..(w + 1) : Q[i] = IF i = 0 THEN 0 ELSE IF i = 1 THEN w ELSE P[i - 1]
  BY <1>1, <1>7 DEF NewHead, Steps
<1>9. Q[0] = 0 /\ Q[w + 1] = 0 /\ Q[1] = w /\ \A i \in 2..(w + 1) : Q[i] = P[i - 1]
  BY <1>1, <1>7, <1>8
<1>10. \A i \in 2..w : i - 1 \in 1..n
  BY <1>1, <1>7
<1>11. \A i \in 1..w : Q[i] \in 1..w /\ (Q[i] = w <=> i = 1)
  <2> SUFFICES ASSUME NEW i \in 1..w PROVE Q[i] \in 1..w /\ (Q[i] = w <=> i = 1)
    OBVIOUS
  <2>1. CASE i = 1
    BY <1>1, <1>7, <1>9, <2>1
  <2>2. CASE i # 1
    <3>1. i - 1 \in 1..n /\ Q[i] = P[i - 1]
      BY <1>1, <1>7, <1>9, <2>2
    <3>2. P[i - 1] \in 1..n
      BY <1>2, <3>1
    <3>3. QED
      BY <1>1, <1>7, <2>2, <3>1, <3>2
  <2>3. QED
    BY <2>1, <2>2
<1>12. Q \in [0..(w + 1) -> 0..w]
  <2>1. Q = [i \in 0..(w + 1) |-> Q[i]]
    BY <1>1, <1>7 DEF NewHead, Steps
  <2>2. ASSUME NEW i \in 0..(w + 1) PROVE Q[i] \in 0..w
    <3>1. CASE i \in 1..w
      BY <1>1, <1>7, <1>11, <3>1
    <3>2. CASE i \notin 1..w
      BY <1>1, <1>7, <1>9, <3>2
    <3>3. QED
      BY <3>1, <3>2
  <2>3. QED
    BY <2>1, <2>2
<1>13. ASSUME NEW i \in 1..w, NEW l \in 1..w, Q[i] = Q[l] PROVE i = l
  <2>1. CASE i = 1 \/ l = 1
    BY <1>11, <1>13, <2>1
  <2>2. CASE i # 1 /\ l # 1
    <3>1. /\ i - 1 \in 1..n /\ Q[i] = P[i - 1] /\ l - 1 \in 1..n /\ Q[l] = P[l - 1]
      BY <1>1, <1>7, <1>9, <2>2
    <3>2. i - 1 = l - 1
      BY <1>3, <1>13, <3>1
    <3>3. QED
      BY <3>2
  <2>3. QED
    BY <2>1, <2>2
<1>14. ASSUME NEW x \in 1..w PROVE \E i \in 1..w : Q[i] = x
  <2>1. CASE x = w
    <3>1. 1 \in 1..w
      BY <1>1, <1>7
    <3>2. QED
      BY <1>9, <2>1, <3>1
  <2>2. CASE x # w
    <3>1. x \in 1..n
      BY <1>1, <1>7, <2>2
    <3>2. PICK y \in 1..n : P[y] = x
      BY <1>4, <3>1
    <3>3. y + 1 \in 1..w /\ Q[y + 1] = P[y]
      <4>1. y + 1 \in 1..w /\ y + 1 \in 2..(w + 1) /\ (y + 1) - 1 = y
        BY <1>1, <1>7
      <4>2. QED
        BY <1>9, <4>1
    <3>4. QED
      BY <3>2, <3>3
  <2>3. QED
    BY <2>1, <2>2
<1>15. ASSUME NEW i \in 0..w PROVE r[Q[i]]["n"] = Q[i + 1]
  <2>1. 0 \in Slots /\ w \in Slots /\ w # 0 /\ \A l \in 1..n : P[l] \in Slots /\ P[l] # 0 /\ P[l] # w
    <3>1. \A l \in 1..n : P[l] # 0 /\ P[l] # w
      BY <1>1, <1>2, <1>7
    <3>2. \A l \in 1..n : P[l] \in Slots
      BY <1>2, IndexSets DEF InUse
    <3>3. QED
      BY <1>1, <1>7, <3>1, <3>2, IndexSets
  <2>2. CASE i = 0
    <3>1. 0 + 1 = 1
      OBVIOUS
    <3>2. QED
      BY <1>7, <1>9, <2>1, <2>2, <3>1
  <2>3. CASE i = 1
    <3>1. d[0]["n"] = P[1]
      <4>1. 0 \in 0..n /\ 0 + 1 = 1
        BY <1>1
      <4>2. QED
        BY <1>1, <1>6, <4>1
    <3>2. Q[1 + 1] = P[1]
      BY <1>1, <1>7, <1>9
    <3>3. QED
      BY <1>7, <1>9, <2>1, <2>3, <3>1, <3>2
  <2>4. CASE i # 0 /\ i # 1
    <3>1. i - 1 \in 1..n /\ i - 1 \in 0..n /\ (i - 1) + 1 = i
      BY <1>1, <1>7, <2>4
    <3>2. Q[i] = P[i - 1] /\ Q[i + 1] = P[i]
      BY <1>1, <1>7, <1>9, <2>4
    <3>3. d[P[i - 1]]["n"] = P[i]
      BY <1>6, <3>1
    <3>4. QED
      BY <1>7, <2>1, <3>1, <3>2, <3>3
  <2>5. QED
    BY <2>2, <2>3, <2>4
<1>16. IsPath(r, w, Q)
  <2>1. w \in Slots /\ Q[0] = 0 /\ Q[w + 1] = 0 /\ \A i \in 1..w : Q[i] \in 1..w
    BY <1>1, <1>7, <1>9, <1>11
  <2>2. QED
    BY <1>12, <1>13, <1>14, <1>15, <2>1, PathIntro
<1>17. QED
  BY <1>7, <1>16

-----------------------------------------------------------------------------
(* The entries along the path *)

\* A set of natural numbers has a least one.
LEMMA Least ==
  ASSUME NEW T, T \subseteq Nat, T # {}
  PROVE  \E x \in T : \A y \in T : x <= y
<1>1. PICK x \in T : \A y \in T : ~(<<y, x>> \in OpToRel(<, Nat))
  BY NatLessThanWellFounded, WFMin
<1>2. \A y \in T : <<y, x>> \in Nat \X Nat /\ ~(<<y, x>>[1] < <<y, x>>[2])
  BY <1>1 DEF OpToRel
<1>3. \A y \in T : x \in Nat /\ y \in Nat /\ ~(y < x)
  BY <1>2
<1>4. QED
  BY <1>3

\* g is the function that Chain defines: the nodes met along the next links.
IsNth(g, d, n) == g = [i \in 1..n |-> IF i = 1 THEN d[0]["n"] ELSE d[g[i - 1]]["n"]]

LEMMA NthIsPath ==
  ASSUME NEW n \in Slots, NEW d, NEW P, IsPath(d, n, P), NEW g, g = CHOOSE f : IsNth(f, d, n)
  PROVE  \A i \in 1..n : g[i] = P[i]
<1>1. n \in Nat /\ P[0] = 0
  BY PathFacts
<1>2. \A i \in 0..n : d[P[i]]["n"] = P[i + 1]
  BY PathFacts
<1>3. \A i \in 1..n : P[i] = IF i = 1 THEN d[0]["n"] ELSE d[P[i - 1]]["n"]
  <2> SUFFICES ASSUME NEW i \in 1..n
               PROVE  P[i] = IF i = 1 THEN d[0]["n"] ELSE d[P[i - 1]]["n"]
    OBVIOUS
  <2>1. i - 1 \in 0..n /\ (i - 1) + 1 = i /\ (i = 1 => i - 1 = 0)
    BY <1>1
  <2>2. d[P[i - 1]]["n"] = P[i]
    BY <1>2, <2>1
  <2>3. QED
    BY <1>1, <2>1, <2>2
<1>4. IsNth([i \in 1..n |-> P[i]], d, n)
  <2>1. PICK f : f = [i \in 1..n |-> P[i]]
    OBVIOUS
  <2>2. \A i \in 1..n : f[i] = IF i = 1 THEN d[0]["n"] ELSE d[f[i - 1]]["n"]
    <3> SUFFICES ASSUME NEW i \in 1..n
                 PROVE  f[i] = IF i = 1 THEN d[0]["n"] ELSE d[f[i - 1]]["n"]
      OBVIOUS
    <3>1. i # 1 => f[i - 1] = P[i - 1]
      <4>1. i # 1 => i - 1 \in 1..n
        BY <1>1
      <4>2. QED
        BY <2>1, <4>1
    <3>2. QED
      BY <1>3, <2>1, <3>1
  <2>3. f = [i \in 1..n |-> IF i = 1 THEN d[0]["n"] ELSE d[f[i - 1]]["n"]]
    BY <2>1, <2>2
  <2>4. QED
    BY <2>1, <2>3 DEF IsNth
<1>5. IsNth(g, d, n)
  BY <1>4, Zenon
<1>6. \A i \in 1..n : g[i] = IF i = 1 THEN d[0]["n"] ELSE d[g[i - 1]]["n"]
  BY <1>5 DEF IsNth
<1>7. SUFFICES ASSUME NEW i \in 1..n, g[i] # P[i] PROVE FALSE
  OBVIOUS
<1>8. PICK T : T = {l \in 1..n : g[l] # P[l]}
  OBVIOUS
<1>9. PICK x \in T : \A y \in T : x <= y
  <2>1. T # {} /\ T \subseteq Nat
    BY <1>1, <1>7, <1>8
  <2>2. QED
    BY <2>1, Least
<1>10. x \in 1..n /\ x \in Nat /\ g[x] # P[x]
  BY <1>1, <1>8, <1>9
<1>11. x # 1
  BY <1>3, <1>6, <1>10
<1>12. x - 1 \in 1..n /\ ~(x <= x - 1)
  BY <1>1, <1>10, <1>11
<1>13. g[x - 1] = P[x - 1]
  BY <1>8, <1>9, <1>12
<1>14. QED
  BY <1>3, <1>6, <1>10, <1>11, <1>13

\* The entries of a level with nodes e whose path is P.
Along(P, n, e) == [i \in 1..n |-> e[P[i]]]

\* Chain lists the entries along the path.
PathChain == \A P : IsPath(dlnk, last, P) => Chain = Along(P, last, m)

LEMMA ChainIsAlong == ListInv => PathChain
<1> SUFFICES ASSUME ListInv, NEW P, IsPath(dlnk, last, P) PROVE Chain = Along(P, last, m)
  BY DEF PathChain
<1>1. last \in Slots
  BY DEF ListInv, TypesOK
<1>2. last \in Nat /\ \A i \in 1..last : P[i] \in 1..last
  BY <1>1, PathFacts
<1>3. PICK g : g = CHOOSE nth : nth = [i \in 1..last |->
                     IF i = 1 THEN dlnk[0]["n"] ELSE dlnk[nth[i - 1]]["n"]]
  OBVIOUS
<1>4. \A i \in 1..last : g[i] = P[i]
  <2>1. g = CHOOSE f : IsNth(f, dlnk, last)
    BY <1>3, Zenon DEF IsNth
  <2>2. QED
    BY <1>1, <2>1, NthIsPath
<1>5. PICK zero : zero = [k |-> None, v |-> None, deleted |-> FALSE]
  OBVIOUS
<1>6. Chain = [i \in 1..last |-> IF g[i] = 0 THEN zero ELSE m[g[i]]]
  BY <1>3, <1>5 DEF Chain
<1>7. \A i \in 1..last : P[i] # 0
  BY <1>2
<1>8. QED
  BY <1>4, <1>6, <1>7 DEF Along

-----------------------------------------------------------------------------
(* What the operations of the abstract level do to a sequence *)

LEMMA RemoveAtProperties ==
  ASSUME NEW S, NEW s \in Seq(S), NEW i \in 1..Len(s)
  PROVE  /\ Level!RemoveAt(s, i) \in Seq(S)
         /\ Len(Level!RemoveAt(s, i)) = Len(s) - 1
         /\ \A j \in 1..(Len(s) - 1) :
              Level!RemoveAt(s, i)[j] = IF j < i THEN s[j] ELSE s[j + 1]
<1>1. Len(s) \in Nat /\ \A j \in 1..Len(s) : s[j] \in S
  BY LenProperties, ElementOfSeq
<1>2. PICK u : u = SubSeq(s, 1, i - 1)
  OBVIOUS
<1>3. u \in Seq(S) /\ Len(u) = i - 1 /\ \A j \in 1..(i - 1) : u[j] = s[j]
  <2>1. /\ SubSeq(s, 1, i - 1) \in Seq(S)
        /\ Len(SubSeq(s, 1, i - 1)) = IF 1 <= i - 1 THEN (i - 1) - 1 + 1 ELSE 0
        /\ \A j \in 1..((i - 1) - 1 + 1) : SubSeq(s, 1, i - 1)[j] = s[1 + j - 1]
    BY <1>1, SubSeqProperties
  <2>2. QED
    BY <1>1, <1>2, <2>1
<1>4. PICK w : w = SubSeq(s, i + 1, Len(s))
  OBVIOUS
<1>5. w \in Seq(S) /\ Len(w) = Len(s) - i /\ \A j \in 1..(Len(s) - i) : w[j] = s[i + j]
  <2>1. /\ SubSeq(s, i + 1, Len(s)) \in Seq(S)
        /\ Len(SubSeq(s, i + 1, Len(s))) =
             IF i + 1 <= Len(s) THEN Len(s) - (i + 1) + 1 ELSE 0
        /\ \A j \in 1..(Len(s) - (i + 1) + 1) : SubSeq(s, i + 1, Len(s))[j] = s[(i + 1) + j - 1]
    BY <1>1, SubSeqProperties
  <2>2. QED
    BY <1>1, <1>4, <2>1
<1>6. Level!RemoveAt(s, i) = u \o w
  BY <1>2, <1>4 DEF Level!RemoveAt
<1>7. /\ u \o w \in Seq(S) /\ Len(u \o w) = Len(u) + Len(w)
      /\ \A j \in 1..(Len(u) + Len(w)) :
           (u \o w)[j] = IF j <= Len(u) THEN u[j] ELSE w[j - Len(u)]
  BY <1>3, <1>5, ConcatProperties
<1>8. QED
  BY <1>1, <1>3, <1>5, <1>6, <1>7

LEMMA FrontIsRemoveAt ==
  ASSUME NEW S, NEW s \in Seq(S), Len(s) # 0
  PROVE  Level!Front(s) = Level!RemoveAt(s, Len(s))
<1>1. Len(s) \in Nat /\ \A j \in 1..(Len(s) - 1) : s[j] \in S
  BY LenProperties, ElementOfSeq
<1>2. SubSeq(s, Len(s) + 1, Len(s)) = <<>>
  BY <1>1, SubSeqEmpty
<1>3. SubSeq(s, 1, Len(s) - 1) \in Seq(S)
  BY <1>1, SubSeqProperties
<1>4. SubSeq(s, 1, Len(s) - 1) \o <<>> = SubSeq(s, 1, Len(s) - 1)
  BY <1>3, ConcatEmptySeq
<1>5. QED
  BY <1>2, <1>4 DEF Level!Front, Level!RemoveAt

\* A sequence with one more entry in front, or behind.
LEMMA OneInFront ==
  ASSUME NEW S, NEW s \in Seq(S), NEW x \in S
  PROVE  <<x>> \o s = [i \in 1..(Len(s) + 1) |-> IF i = 1 THEN x ELSE s[i - 1]]
<1>1. Len(s) \in Nat /\ <<x>> \in Seq(S) /\ Len(<<x>>) = 1 /\ <<x>>[1] = x
  BY LenProperties
<1>2. PICK c : c = <<x>> \o s
  OBVIOUS
<1>3. /\ c \in Seq(S) /\ Len(c) = 1 + Len(s)
      /\ \A i \in 1..(1 + Len(s)) : c[i] = IF i <= 1 THEN <<x>>[i] ELSE s[i - 1]
  BY <1>1, <1>2, ConcatProperties
<1>4. DOMAIN c = 1..(Len(s) + 1) /\ c = [i \in DOMAIN c |-> c[i]]
  BY <1>1, <1>3, LenProperties
<1>5. \A i \in 1..(Len(s) + 1) : c[i] = IF i = 1 THEN x ELSE s[i - 1]
  BY <1>1, <1>3
<1>6. QED
  BY <1>2, <1>4, <1>5

LEMMA OneBehind ==
  ASSUME NEW S, NEW s \in Seq(S), NEW x \in S
  PROVE  s \o <<x>> = [i \in 1..(Len(s) + 1) |-> IF i = Len(s) + 1 THEN x ELSE s[i]]
<1>1. Len(s) \in Nat /\ <<x>> \in Seq(S) /\ Len(<<x>>) = 1 /\ <<x>>[1] = x
  BY LenProperties
<1>2. PICK c : c = s \o <<x>>
  OBVIOUS
<1>3. /\ c \in Seq(S) /\ Len(c) = Len(s) + 1
      /\ \A i \in 1..(Len(s) + 1) : c[i] = IF i <= Len(s) THEN s[i] ELSE <<x>>[i - Len(s)]
  BY <1>1, <1>2, ConcatProperties
<1>4. DOMAIN c = 1..(Len(s) + 1) /\ c = [i \in DOMAIN c |-> c[i]]
  BY <1>1, <1>3, LenProperties
<1>5. \A i \in 1..(Len(s) + 1) : c[i] = IF i = Len(s) + 1 THEN x ELSE s[i]
  BY <1>1, <1>3
<1>6. QED
  BY <1>2, <1>4, <1>5

\* The lookup in a level that has the key at j and nowhere else, or not at all.
LEMMA AtFound ==
  ASSUME NEW s, NEW k, NEW j \in DOMAIN s, s[j].k = k,
         \A i \in DOMAIN s : s[i].k = k => i = j
  PROVE  Level!At(s, k) = j
BY DEF Level!At

LEMMA AtMissing ==
  ASSUME NEW s, NEW k, \A i \in DOMAIN s : s[i].k # k
  PROVE  Level!At(s, k) = 0
BY DEF Level!At

LEMMA AlongType ==
  ASSUME NEW n \in Slots, NEW e \in [Nodes -> NodeType], NEW d, NEW P, IsPath(d, n, P)
  PROVE  /\ Along(P, n, e) \in Seq(NodeType) /\ Len(Along(P, n, e)) = n /\ n \in Nat
         /\ DOMAIN Along(P, n, e) = 1..n
         /\ \A i \in 1..n : Along(P, n, e)[i] = e[P[i]] /\ P[i] \in Nodes
<1>1. n \in Nat /\ \A i \in 1..n : P[i] \in 1..n
  BY PathFacts
<1>2. \A i \in 1..n : P[i] \in Nodes /\ e[P[i]] \in NodeType
  BY <1>1, IndexSets DEF InUse
<1>3. PICK s : s = Along(P, n, e)
  OBVIOUS
<1>4. s \in [1..n -> NodeType] /\ DOMAIN s = 1..n /\ \A i \in 1..n : s[i] = e[P[i]]
  BY <1>2, <1>3 DEF Along
<1>5. s \in Seq(NodeType) /\ Len(s) = n
  BY <1>1, <1>4
<1>6. QED
  BY <1>1, <1>2, <1>3, <1>4, <1>5

\* The j-th node, now with contents x, at the head of the path.
LEMMA AlongHead ==
  ASSUME NEW n \in Slots, NEW e \in [Nodes -> NodeType], NEW d, NEW P, IsPath(d, n, P),
         NEW j \in 1..n, NEW x \in NodeType, NEW e2, e2[P[j]] = x,
         \A y \in Nodes : y # P[j] => e2[y] = e[y]
  PROVE  Along(Reordered(P, n, HeadFrom(n, j)), n, e2) = <<x>> \o Level!RemoveAt(Along(P, n, e), j)
<1>1. PICK s : s = Along(P, n, e)
  OBVIOUS
<1>2. /\ s \in Seq(NodeType) /\ Len(s) = n /\ n \in Nat
      /\ \A i \in 1..n : s[i] = e[P[i]] /\ P[i] \in Nodes
  BY <1>1, AlongType
<1>3. \A i, l \in 1..n : P[i] = P[l] => i = l
  BY PathFacts
<1>4. PICK c : c = Level!RemoveAt(s, j)
  OBVIOUS
<1>5. /\ c \in Seq(NodeType) /\ Len(c) = n - 1
      /\ \A i \in 1..(n - 1) : c[i] = IF i < j THEN s[i] ELSE s[i + 1]
  BY <1>2, <1>4, RemoveAtProperties
<1>6. <<x>> \o c = [i \in 1..((n - 1) + 1) |-> IF i = 1 THEN x ELSE c[i - 1]]
  BY <1>5, OneInFront
<1>7. (n - 1) + 1 = n
  BY <1>2
<1>8. <<x>> \o c = [i \in 1..n |-> IF i = 1 THEN x ELSE c[i - 1]]
  BY <1>6, <1>7
<1>9. PICK q : q = Reordered(P, n, HeadFrom(n, j))
  OBVIOUS
<1>10. \A i \in 1..n : q[i] = P[IF i = 1 THEN j ELSE IF i <= j THEN i - 1 ELSE i]
  <2>1. \A i \in 1..n : i \in 0..(n + 1) /\ (2 <= i <=> i # 1)
    BY <1>2
  <2>2. QED
    BY <1>9, <2>1 DEF Reordered, HeadFrom, Steps
<1>11. ASSUME NEW i \in 1..n PROVE e2[q[i]] = IF i = 1 THEN x ELSE c[i - 1]
  <2>1. CASE i = 1
    BY <1>10, <2>1
  <2>2. CASE i # 1 /\ i <= j
    <3>1. /\ i - 1 \in 1..n /\ i - 1 \in 1..(n - 1) /\ i - 1 # j /\ i - 1 < j
      BY <1>2, <2>2
    <3>2. q[i] = P[i - 1] /\ P[i - 1] # P[j] /\ P[i - 1] \in Nodes /\ c[i - 1] = s[i - 1]
      BY <1>2, <1>3, <1>5, <1>10, <2>2, <3>1
    <3>3. QED
      BY <1>2, <2>2, <3>1, <3>2
  <2>3. CASE i # 1 /\ ~(i <= j)
    <3>1. i - 1 \in 1..(n - 1) /\ i # j /\ ~(i - 1 < j) /\ (i - 1) + 1 = i
      BY <1>2, <2>3
    <3>2. q[i] = P[i] /\ P[i] # P[j] /\ P[i] \in Nodes /\ c[i - 1] = s[i]
      BY <1>2, <1>3, <1>5, <1>10, <2>3, <3>1
    <3>3. QED
      BY <1>2, <2>3, <3>1, <3>2
  <2>4. QED
    BY <2>1, <2>2, <2>3
<1>12. QED
  BY <1>1, <1>4, <1>8, <1>9, <1>11 DEF Along

\* The j-th node, now with contents x, at the tail of the path.
LEMMA AlongTail ==
  ASSUME NEW n \in Slots, NEW e \in [Nodes -> NodeType], NEW d, NEW P, IsPath(d, n, P),
         NEW j \in 1..n, NEW x \in NodeType, NEW e2, e2[P[j]] = x,
         \A y \in Nodes : y # P[j] => e2[y] = e[y]
  PROVE  Along(Reordered(P, n, TailFrom(n, j)), n, e2) = Level!RemoveAt(Along(P, n, e), j) \o <<x>>
<1>1. PICK s : s = Along(P, n, e)
  OBVIOUS
<1>2. /\ s \in Seq(NodeType) /\ Len(s) = n /\ n \in Nat
      /\ \A i \in 1..n : s[i] = e[P[i]] /\ P[i] \in Nodes
  BY <1>1, AlongType
<1>3. \A i, l \in 1..n : P[i] = P[l] => i = l
  BY PathFacts
<1>4. PICK c : c = Level!RemoveAt(s, j)
  OBVIOUS
<1>5. /\ c \in Seq(NodeType) /\ Len(c) = n - 1
      /\ \A i \in 1..(n - 1) : c[i] = IF i < j THEN s[i] ELSE s[i + 1]
  BY <1>2, <1>4, RemoveAtProperties
<1>6. c \o <<x>> = [i \in 1..((n - 1) + 1) |-> IF i = (n - 1) + 1 THEN x ELSE c[i]]
  BY <1>5, OneBehind
<1>7. (n - 1) + 1 = n
  BY <1>2
<1>8. c \o <<x>> = [i \in 1..n |-> IF i = n THEN x ELSE c[i]]
  BY <1>6, <1>7
<1>9. PICK q : q = Reordered(P, n, TailFrom(n, j))
  OBVIOUS
<1>10. \A i \in 1..n : q[i] = P[IF i = n THEN j ELSE IF j <= i THEN i + 1 ELSE i]
  <2>1. \A i \in 1..n : i \in 0..(n + 1) /\ (i < n <=> i # n)
    BY <1>2
  <2>2. QED
    BY <1>9, <2>1 DEF Reordered, TailFrom, Steps
<1>11. ASSUME NEW i \in 1..n PROVE e2[q[i]] = IF i = n THEN x ELSE c[i]
  <2>1. CASE i = n
    BY <1>10, <2>1
  <2>2. CASE i # n /\ j <= i
    <3>1. i + 1 \in 1..n /\ i \in 1..(n - 1) /\ i + 1 # j /\ ~(i < j)
      BY <1>2, <2>2
    <3>2. q[i] = P[i + 1] /\ P[i + 1] # P[j] /\ P[i + 1] \in Nodes /\ c[i] = s[i + 1]
      BY <1>2, <1>3, <1>5, <1>10, <2>2, <3>1
    <3>3. QED
      BY <1>2, <2>2, <3>1, <3>2
  <2>3. CASE i # n /\ ~(j <= i)
    <3>1. i \in 1..(n - 1) /\ i # j /\ i < j
      BY <1>2, <2>3
    <3>2. q[i] = P[i] /\ P[i] # P[j] /\ P[i] \in Nodes /\ c[i] = s[i]
      BY <1>2, <1>3, <1>5, <1>10, <2>3, <3>1
    <3>3. QED
      BY <1>2, <2>3, <3>1, <3>2
  <2>4. QED
    BY <2>1, <2>2, <2>3
<1>12. QED
  BY <1>1, <1>4, <1>8, <1>9, <1>11 DEF Along

\* A new node with contents x in front.
LEMMA AlongNew ==
  ASSUME NEW n \in Slots, n # Cap, NEW e \in [Nodes -> NodeType], NEW d, NEW P, IsPath(d, n, P),
         NEW x \in NodeType, NEW e2, e2[n + 1] = x, \A y \in Nodes : y # n + 1 => e2[y] = e[y]
  PROVE  Along(NewHead(P, n, n + 1), n + 1, e2) = <<x>> \o Along(P, n, e)
<1>1. PICK s : s = Along(P, n, e)
  OBVIOUS
<1>2. /\ s \in Seq(NodeType) /\ Len(s) = n /\ n \in Nat
      /\ \A i \in 1..n : s[i] = e[P[i]] /\ P[i] \in Nodes
  BY <1>1, AlongType
<1>3. \A i \in 1..n : P[i] \in 1..n
  BY PathFacts
<1>4. \A i \in 1..n : P[i] # n + 1
  BY <1>2, <1>3
<1>5. <<x>> \o s = [i \in 1..(n + 1) |-> IF i = 1 THEN x ELSE s[i - 1]]
  BY <1>2, OneInFront
<1>6. PICK q : q = NewHead(P, n, n + 1)
  OBVIOUS
<1>7. \A i \in 1..(n + 1) : q[i] = IF i = 1 THEN n + 1 ELSE P[i - 1]
  <2>1. \A i \in 1..(n + 1) : i \in 0..((n + 1) + 1) /\ i # 0
    BY <1>2
  <2>2. QED
    BY <1>6, <2>1 DEF NewHead, Steps
<1>8. ASSUME NEW i \in 1..(n + 1) PROVE e2[q[i]] = IF i = 1 THEN x ELSE s[i - 1]
  <2>1. CASE i = 1
    BY <1>7, <2>1
  <2>2. CASE i # 1
    <3>1. i - 1 \in 1..n
      BY <1>2, <2>2
    <3>2. QED
      BY <1>2, <1>4, <1>7, <2>2, <3>1
  <2>3. QED
    BY <2>1, <2>2
<1>9. Along(q, n + 1, e2) = [i \in 1..(n + 1) |-> e2[q[i]]]
  BY DEF Along
<1>10. Along(q, n + 1, e2) = <<x>> \o s
  BY <1>5, <1>8, <1>9
<1>11. QED
  BY <1>1, <1>6, <1>10

-----------------------------------------------------------------------------
(* The refinement *)

\* The map finds a key where the abstract level finds it along the path.
LEMMA KeyFound ==
  ASSUME ListInv, NEW P, IsPath(dlnk, last, P), NEW k \in Keys, NEW s, s = Along(P, last, m),
         hmap[k] # 0
  PROVE  \E j \in 1..last : P[j] = hmap[k] /\ Level!At(s, k) = j /\ s[j] = m[P[j]]
<1>1. last \in Slots /\ m \in [Nodes -> NodeType]
  BY DEF ListInv, TypesOK
<1>2. /\ DOMAIN s = 1..last /\ last \in Nat
      /\ \A i \in 1..last : s[i] = m[P[i]]
  BY <1>1, AlongType
<1>3. \A i \in 1..last : P[i] \in InUse(last)
  BY <1>1, PathFacts DEF InUse
<1>4. \A i, l \in 1..last : P[i] = P[l] => i = l
  BY <1>1, PathFacts
<1>5. hmap[k] \in InUse(last) /\ m[hmap[k]].k = k
  BY FoundInUse
<1>6. PICK j \in 1..last : P[j] = hmap[k]
  <2>1. \A x \in 1..last : \E i \in 1..last : P[i] = x
    BY <1>1, PathFacts
  <2>2. QED
    BY <1>5, <2>1 DEF InUse
<1>7. ASSUME NEW i \in 1..last, s[i].k = k PROVE i = j
  <2>1. P[i] \in InUse(last) /\ m[P[i]].k = k
    BY <1>2, <1>3, <1>7
  <2>2. hmap[k] = P[i]
    BY <2>1 DEF ListInv, IndexOK
  <2>3. QED
    BY <1>4, <1>6, <2>2
<1>8. j \in DOMAIN s /\ s[j].k = k /\ \A i \in DOMAIN s : s[i].k = k => i = j
  BY <1>2, <1>5, <1>6, <1>7
<1>9. Level!At(s, k) = j
  BY <1>8, AtFound
<1>10. QED
  BY <1>2, <1>6, <1>9

LEMMA KeyMissing ==
  ASSUME ListInv, NEW P, IsPath(dlnk, last, P), NEW k \in Keys, NEW s, s = Along(P, last, m),
         hmap[k] = 0
  PROVE  Level!At(s, k) = 0
<1>1. last \in Slots /\ m \in [Nodes -> NodeType]
  BY DEF ListInv, TypesOK
<1>2. DOMAIN s = 1..last /\ last \in Nat /\ \A i \in 1..last : s[i] = m[P[i]]
  BY <1>1, AlongType
<1>3. \A i \in 1..last : P[i] \in InUse(last) /\ P[i] # 0
  <2>1. \A i \in 1..last : P[i] \in 1..last
    BY <1>1, PathFacts
  <2>2. QED
    BY <1>2, <2>1 DEF InUse
<1>4. \A i \in 1..last : s[i].k # k
  BY <1>2, <1>3 DEF ListInv, IndexOK
<1>5. QED
  BY <1>2, <1>4, AtMissing

\* put of a key that is there.
LEMMA PutUpdateRefines ==
  ASSUME ListInv, PathChain, PathChain', NEW P, IsPath(dlnk, last, P),
         NEW k \in Keys, NEW v \in Values, PutUpdate(k, v)
  PROVE  PathOK' /\ Level!Put(k, v)
<1>1. /\ last \in Slots /\ m \in [Nodes -> NodeType] /\ dlnk \in LinkType
      /\ Mirrored(dlnk, Ring(last), "p", "n")
  BY DEF ListInv, TypesOK, LinksOK
<1>2. PICK s : s = Along(P, last, m)
  OBVIOUS
<1>3. PICK j \in 1..last : P[j] = hmap[k] /\ Level!At(s, k) = j
  BY <1>2, KeyFound DEF PutUpdate
<1>4. j # 0 /\ last \in Nat
  BY <1>1, PathFacts
<1>5. PICK Q : Q = Reordered(P, last, HeadFrom(last, j))
  OBVIOUS
<1>6. dlnk' = Adjust(dlnk, P[j], "p", "n") /\ last' = last
  BY <1>3 DEF PutUpdate
<1>7. IsPath(dlnk', last, Q)
  BY <1>1, <1>5, <1>6, PathHead
<1>8. Chain = s /\ Chain' = Along(Q, last, m')
  BY <1>2, <1>6, <1>7 DEF PathChain
<1>9. Node(k, v) \in NodeType /\ Node(k, v) = Level!Entry(k, v)
  BY DEF Node, NodeType, Level!Entry
<1>10. m'[P[j]] = Node(k, v) /\ \A y \in Nodes : y # P[j] => m'[y] = m[y]
  <2>1. P[j] \in Nodes
    BY <1>1, AlongType
  <2>2. QED
    BY <1>1, <1>3, <2>1 DEF PutUpdate
<1>11. Along(Q, last, m') = <<Node(k, v)>> \o Level!RemoveAt(s, j)
  BY <1>1, <1>2, <1>5, <1>9, <1>10, AlongHead
<1>12. Chain' = Level!PutList(Chain, Cap, k, v)
  BY <1>3, <1>4, <1>8, <1>9, <1>11 DEF Level!PutList
<1>13. out' = Level!PutOut(Chain, Cap, k)
  BY <1>3, <1>4, <1>8 DEF Level!PutOut, PutUpdate
<1>14. QED
  BY <1>6, <1>7, <1>12, <1>13 DEF PathOK, Level!Put

\* put of a new key on the tail's node.
LEMMA PutReuseRefines ==
  ASSUME ListInv, PathChain, PathChain', NEW P, IsPath(dlnk, last, P),
         NEW k \in Keys, NEW v \in Values, PutReuse(k, v)
  PROVE  PathOK' /\ Level!Put(k, v)
<1>1. /\ last \in Slots /\ m \in [Nodes -> NodeType] /\ dlnk \in LinkType
      /\ Mirrored(dlnk, Ring(last), "p", "n")
  BY DEF ListInv, TypesOK, LinksOK
<1>2. PICK s : s = Along(P, last, m)
  OBVIOUS
<1>3. Level!At(s, k) = 0
  BY <1>2, KeyMissing DEF PutReuse
<1>4. /\ last = Cap /\ last \in Nat /\ last # 0 /\ last \in 1..last /\ last \in 0..last
      /\ P[last + 1] = 0
  BY <1>1, CapIsPositive, PathFacts DEF PutReuse
<1>5. dlnk[0]["p"] = P[last]
  BY <1>1, <1>4, PathBack
<1>6. PICK Q : Q = Reordered(P, last, HeadFrom(last, last))
  OBVIOUS
<1>7. dlnk' = Adjust(dlnk, P[last], "p", "n") /\ last' = last
  BY <1>5 DEF PutReuse
<1>8. IsPath(dlnk', last, Q)
  BY <1>1, <1>4, <1>6, <1>7, PathHead
<1>9. Chain = s /\ Chain' = Along(Q, last, m')
  BY <1>2, <1>7, <1>8 DEF PathChain
<1>10. Node(k, v) \in NodeType /\ Node(k, v) = Level!Entry(k, v)
  BY DEF Node, NodeType, Level!Entry
<1>11. P[last] \in Nodes /\ s \in Seq(NodeType) /\ Len(s) = last /\ s[last] = m[P[last]]
  BY <1>1, <1>2, <1>4, AlongType
<1>12. m'[P[last]] = Node(k, v) /\ \A y \in Nodes : y # P[last] => m'[y] = m[y]
  BY <1>1, <1>5, <1>11 DEF PutReuse
<1>13. Along(Q, last, m') = <<Node(k, v)>> \o Level!RemoveAt(s, last)
  BY <1>1, <1>2, <1>4, <1>6, <1>10, <1>12, AlongHead
<1>14. Level!Front(s) = Level!RemoveAt(s, last)
  BY <1>4, <1>11, FrontIsRemoveAt
<1>15. Chain' = Level!PutList(Chain, Cap, k, v)
  BY <1>3, <1>4, <1>9, <1>10, <1>11, <1>13, <1>14 DEF Level!PutList
<1>16. out' = Level!PutOut(Chain, Cap, k)
  <2>1. out' = IF m[P[last]].deleted THEN <<>> ELSE <<m[P[last]]>>
    BY <1>5 DEF PutReuse
  <2>2. Level!Last(s) = m[P[last]]
    BY <1>11 DEF Level!Last
  <2>3. QED
    BY <1>3, <1>4, <1>9, <1>11, <2>1, <2>2 DEF Level!PutOut
<1>17. QED
  BY <1>7, <1>8, <1>15, <1>16 DEF PathOK, Level!Put

\* put of a new key on a free node.
LEMMA PutNewRefines ==
  ASSUME ListInv, PathChain, PathChain', NEW P, IsPath(dlnk, last, P),
         NEW k \in Keys, NEW v \in Values, PutNew(k, v)
  PROVE  PathOK' /\ Level!Put(k, v)
<1>1. last \in Slots /\ m \in [Nodes -> NodeType] /\ last # Cap /\ last' = last + 1
  BY DEF ListInv, TypesOK, PutNew
<1>2. PICK s : s = Along(P, last, m)
  OBVIOUS
<1>3. Level!At(s, k) = 0
  BY <1>2, KeyMissing DEF PutNew
<1>4. PICK Q : Q = NewHead(P, last, last + 1)
  OBVIOUS
<1>5. IsPath(dlnk', last + 1, Q)
  <2>1. \A i \in Slots : dlnk'[i]["n"] = IF i = 0 THEN last + 1
                            ELSE IF i = last + 1 THEN dlnk[0]["n"] ELSE dlnk[i]["n"]
    BY PutNewLinks
  <2>2. QED
    BY <1>1, <1>4, <2>1, PathNew
<1>6. Chain = s /\ Chain' = Along(Q, last + 1, m')
  BY <1>1, <1>2, <1>5 DEF PathChain
<1>7. Node(k, v) \in NodeType /\ Node(k, v) = Level!Entry(k, v)
  BY DEF Node, NodeType, Level!Entry
<1>8. m'[last + 1] = Node(k, v) /\ \A y \in Nodes : y # last + 1 => m'[y] = m[y]
  <2>1. last + 1 \in Nodes
    BY <1>1, OneMore
  <2>2. QED
    BY <1>1, <2>1 DEF PutNew
<1>9. Along(Q, last + 1, m') = <<Node(k, v)>> \o s
  BY <1>1, <1>2, <1>4, <1>7, <1>8, AlongNew
<1>10. Len(s) # Cap
  BY <1>1, <1>2, AlongType
<1>11. Chain' = Level!PutList(Chain, Cap, k, v)
  BY <1>3, <1>6, <1>7, <1>9, <1>10 DEF Level!PutList
<1>12. out' = Level!PutOut(Chain, Cap, k)
  BY <1>3, <1>6, <1>10 DEF Level!PutOut, PutNew
<1>13. QED
  BY <1>1, <1>5, <1>11, <1>12 DEF PathOK, Level!Put

LEMMA GetRefines ==
  ASSUME ListInv, PathChain, PathChain', NEW P, IsPath(dlnk, last, P),
         NEW k \in Keys, Get(k)
  PROVE  PathOK' /\ Level!Get(k)
<1>1. /\ last \in Slots /\ m \in [Nodes -> NodeType] /\ dlnk \in LinkType
      /\ Mirrored(dlnk, Ring(last), "p", "n") /\ last' = last /\ m' = m
  BY DEF ListInv, TypesOK, LinksOK, Get
<1>2. PICK s : s = Along(P, last, m)
  OBVIOUS
<1>3. CASE hmap[k] = 0
  <2>1. Level!At(s, k) = 0
    BY <1>2, <1>3, KeyMissing
  <2>2. dlnk' = dlnk /\ out' = <<>>
    BY <1>3 DEF Get
  <2>3. Chain = s /\ Chain' = s
    BY <1>1, <1>2, <2>2 DEF PathChain
  <2>4. QED
    BY <1>1, <2>1, <2>2, <2>3 DEF PathOK, Level!Get, Level!GetList, Level!GetOut
<1>4. CASE hmap[k] # 0
  <2>1. PICK j \in 1..last : P[j] = hmap[k] /\ Level!At(s, k) = j /\ s[j] = m[P[j]]
    BY <1>2, <1>4, KeyFound
  <2>2. j # 0 /\ last \in Nat
    BY <1>1, PathFacts
  <2>3. PICK Q : Q = Reordered(P, last, HeadFrom(last, j))
    OBVIOUS
  <2>4. dlnk' = Adjust(dlnk, P[j], "p", "n") /\ out' = <<m[P[j]]>>
    BY <1>4, <2>1 DEF Get
  <2>5. IsPath(dlnk', last, Q)
    BY <1>1, <2>3, <2>4, PathHead
  <2>6. Chain = s /\ Chain' = Along(Q, last, m)
    BY <1>1, <1>2, <2>5 DEF PathChain
  <2>7. m[P[j]] \in NodeType
    BY <1>1, AlongType
  <2>8. Along(Q, last, m) = <<m[P[j]]>> \o Level!RemoveAt(s, j)
    BY <1>1, <1>2, <2>3, <2>7, AlongHead
  <2>9. QED
    BY <1>1, <2>1, <2>2, <2>4, <2>5, <2>6, <2>8
    DEF PathOK, Level!Get, Level!GetList, Level!GetOut
<1>5. QED
  BY <1>3, <1>4

LEMMA DelRefines ==
  ASSUME ListInv, PathChain, PathChain', NEW P, IsPath(dlnk, last, P),
         NEW k \in Keys, DelHit(k) \/ DelMiss(k)
  PROVE  PathOK' /\ Level!Del(k)
<1>1. /\ last \in Slots /\ m \in [Nodes -> NodeType] /\ dlnk \in LinkType
      /\ Mirrored(dlnk, Ring(last), "p", "n") /\ last' = last
  BY DEF ListInv, TypesOK, LinksOK, DelHit, DelMiss
<1>2. PICK s : s = Along(P, last, m)
  OBVIOUS
<1>3. CASE DelMiss(k)
  <2>1. dlnk' = dlnk /\ m' = m /\ out' = <<>>
    BY <1>3 DEF DelMiss
  <2>2. Chain = s /\ Chain' = s
    BY <1>1, <1>2, <2>1 DEF PathChain
  <2>3. ~Level!Live(s, k)
    <3>1. CASE hmap[k] = 0
      BY <1>2, <3>1, KeyMissing DEF Level!Live
    <3>2. CASE hmap[k] # 0
      <4>1. PICK j \in 1..last : P[j] = hmap[k] /\ Level!At(s, k) = j /\ s[j] = m[P[j]]
        BY <1>2, <3>2, KeyFound
      <4>2. m[hmap[k]].deleted
        BY <1>3, <3>2 DEF DelMiss
      <4>3. QED
        BY <4>1, <4>2 DEF Level!Live
    <3>3. QED
      BY <3>1, <3>2
  <2>4. QED
    BY <1>1, <2>1, <2>2, <2>3 DEF PathOK, Level!Del, Level!DelList, Level!DelOut
<1>4. CASE DelHit(k)
  <2>1. PICK j \in 1..last : P[j] = hmap[k] /\ Level!At(s, k) = j /\ s[j] = m[P[j]]
    BY <1>2, <1>4, KeyFound DEF DelHit
  <2>2. j # 0 /\ last \in Nat
    BY <1>1, PathFacts
  <2>3. PICK Q : Q = Reordered(P, last, TailFrom(last, j))
    OBVIOUS
  <2>4. PICK x : x = [m[P[j]] EXCEPT !.deleted = TRUE]
    OBVIOUS
  <2>5. P[j] \in Nodes /\ m[P[j]] \in NodeType
    BY <1>1, AlongType
  <2>6. x \in NodeType
    BY <2>4, <2>5 DEF NodeType
  <2>7. m' = [m EXCEPT ![P[j]] = x]
    BY <1>4, <2>1, <2>4 DEF DelHit
  <2>8. m'[P[j]] = x /\ \A y \in Nodes : y # P[j] => m'[y] = m[y]
    BY <1>1, <2>5, <2>7
  <2>9. dlnk' = Adjust(dlnk, P[j], "n", "p") /\ out' = <<x>>
    BY <1>4, <2>1, <2>8 DEF DelHit
  <2>10. IsPath(dlnk', last, Q)
    BY <1>1, <2>3, <2>9, PathTail
  <2>11. Chain = s /\ Chain' = Along(Q, last, m')
    BY <1>1, <1>2, <2>10 DEF PathChain
  <2>12. Along(Q, last, m') = Level!RemoveAt(s, j) \o <<x>>
    BY <1>1, <1>2, <2>3, <2>6, <2>8, AlongTail
  <2>13. Level!Live(s, k)
    BY <1>4, <2>1, <2>2 DEF Level!Live, DelHit
  <2>14. Level!DelOut(s, k) = <<x>>
    BY <2>1, <2>4, <2>13 DEF Level!DelOut
  <2>15. Level!DelList(s, k) = Level!RemoveAt(s, j) \o <<x>>
    BY <2>1, <2>13, <2>14 DEF Level!DelList
  <2>16. QED
    BY <1>1, <2>9, <2>10, <2>11, <2>12, <2>14, <2>15 DEF PathOK, Level!Del
<1>5. QED
  BY <1>3, <1>4

\* The links never fall apart: they lead from the sentinel through every node in
\* use, once, and back (adjust, store/lru2.go lines 340-350, and the callers).
\* The array of nodes and index links does what the list of entries LRULevel
\* promises: same returned and evicted entries, in LRU order.
THEOREM LevelRefinement == Spec => []PathOK /\ ImplementsLevel
<1>1. Init => PathOK
  <2> SUFFICES ASSUME Init PROVE PathOK
    OBVIOUS
  <2>1. last \in Slots /\ last = 0
    BY IndexSets DEF Init
  <2>2. PICK P : P = [i \in 0..(last + 1) |-> 0]
    OBVIOUS
  <2>3. /\ P \in [0..(last + 1) -> 0..last] /\ P[0] = 0 /\ P[last + 1] = 0
        /\ 1..last = {} /\ 0..last = {0} /\ P[0 + 1] = 0
    BY <2>1, <2>2
  <2>4. dlnk[0]["n"] = 0
    BY IndexSets DEF Init, Slots, Dir
  <2>5. \A i \in 0..last : dlnk[P[i]]["n"] = P[i + 1]
    BY <2>3, <2>4
  <2>6. IsPath(dlnk, last, P)
    BY <2>1, <2>3, <2>5, PathIntro
  <2>7. QED
    BY <2>6 DEF PathOK
<1>2. Init => Level!Init
  <2> SUFFICES ASSUME Init PROVE Level!Init
    OBVIOUS
  <2>1. last = 0 /\ out = <<>>
    BY DEF Init
  <2>2. Chain = <<>>
    BY <2>1 DEF Chain
  <2>3. QED
    BY <2>1, <2>2 DEF Level!Init
<1>3. ListInv /\ PathChain /\ PathChain' /\ PathOK /\ [Next]_vars
        => PathOK' /\ [Level!Next]_Level!levelVars
  <2> SUFFICES ASSUME ListInv, PathChain, PathChain', PathOK, [Next]_vars
               PROVE  PathOK' /\ [Level!Next]_Level!levelVars
    OBVIOUS
  <2>1. PICK P : IsPath(dlnk, last, P)
    BY DEF PathOK
  <2>2. CASE UNCHANGED vars
    <3>1. Chain' = Chain /\ out' = out /\ PathOK'
      BY <2>1, <2>2 DEF vars, PathChain, PathOK
    <3>2. QED
      BY <3>1 DEF Level!levelVars
  <2>3. ASSUME NEW k \in Keys, Get(k)
        PROVE  PathOK' /\ Level!Next
    BY <2>1, <2>3, GetRefines DEF Level!Next
  <2>4. ASSUME NEW k \in Keys, DelHit(k) \/ DelMiss(k)
        PROVE  PathOK' /\ Level!Next
    BY <2>1, <2>4, DelRefines DEF Level!Next
  <2>5. ASSUME NEW k \in Keys, NEW v \in Values, Put(k, v)
        PROVE  PathOK' /\ Level!Next
    BY <2>1, <2>5, PutUpdateRefines, PutReuseRefines, PutNewRefines DEF Put, Level!Next
  <2>6. QED
    BY <2>2, <2>3, <2>4, <2>5 DEF Next
<1>4. QED
  BY <1>1, <1>2, <1>3, ListInvariant, ChainIsAlong, PTL DEF Spec, ImplementsLevel, Level!Spec
=============================================================================
