--------------------------- MODULE LRU2StoreProofs --------------------------
(***************************************************************************)
(* The two-level store, for every number of buckets, every capacity, set   *)
(* of keys, expirations and interleaving of Get, Set, Delete, Clear and    *)
(* cleanup.                                                                *)
(*                                                                         *)
(* The proofs go in three layers: sequences (what removing an entry and    *)
(* putting one at either end does), levels (what put, get and del do to    *)
(* the set of entries a level holds, LevelOps) and the store.              *)
(***************************************************************************)
EXTENDS LRU2Store, SequenceTheorems, WellFoundedInduction, TLAPS

ValueType == [val : Values, exp : Nat]

Lists == Seq(EntryType)

\* No two entries of a level have the same key.
Distinct(list) == \A i, j \in DOMAIN list : list[i].k = list[j].k => i = j

LevelOK(list) == list \in Lists /\ Distinct(list)

\* The tombstones are behind all live entries.
TombstonesLast(list) ==
  \A i, j \in DOMAIN list : i < j /\ list[i].deleted => list[j].deleted

\* A level has a live entry (k, v).
Holds(list, k, v) == Entry(k, v) \in Entries(list)

-----------------------------------------------------------------------------
(* Sequences *)

\* A set of natural numbers has a least one.
LEMMA Least ==
  ASSUME NEW T, T \subseteq Nat, T # {}
  PROVE  \E x \in T : \A y \in T : x <= y
<1>1. PICK x \in T : \A y \in T : ~(<<y, x>> \in OpToRel(<, Nat))
  BY NatLessThanWellFounded, WFMin
<1>2. \A y \in T : <<y, x>> \in Nat \X Nat /\ ~(<<y, x>>[1] < <<y, x>>[2])
  BY <1>1 DEF OpToRel
<1>3. \A y \in T : x \in Nat /\ y \in Nat /\ ~(y < x)
  BY <1>2
<1>4. QED
  BY <1>3

LEMMA RemoveAtProperties ==
  ASSUME NEW S, NEW s \in Seq(S), NEW i \in 1..Len(s)
  PROVE  /\ RemoveAt(s, i) \in Seq(S)
         /\ Len(RemoveAt(s, i)) = Len(s) - 1
         /\ \A j \in 1..(Len(s) - 1) : RemoveAt(s, i)[j] = IF j < i THEN s[j] ELSE s[j + 1]
<1>1. Len(s) \in Nat /\ \A j \in 1..Len(s) : s[j] \in S
  BY LenProperties, ElementOfSeq
<1>2. PICK u : u = SubSeq(s, 1, i - 1)
  OBVIOUS
<1>3. u \in Seq(S) /\ Len(u) = i - 1 /\ \A j \in 1..(i - 1) : u[j] = s[j]
  <2>1. /\ SubSeq(s, 1, i - 1) \in Seq(S)
        /\ Len(SubSeq(s, 1, i - 1)) = IF 1 <= i - 1 THEN (i - 1) - 1 + 1 ELSE 0
        /\ \A j \in 1..((i - 1) - 1 + 1) : SubSeq(s, 1, i - 1)[j] = s[1 + j - 1]
    BY <1>1, SubSeqProperties
  <2>2. QED
    BY <1>1, <1>2, <2>1
<1>4. PICK w : w = SubSeq(s, i + 1, Len(s))
  OBVIOUS
<1>5. w \in Seq(S) /\ Len(w) = Len(s) - i /\ \A j \in 1..(Len(s) - i) : w[j] = s[i + j]
  <2>1. /\ SubSeq(s, i + 1, Len(s)) \in Seq(S)
        /\ Len(SubSeq(s, i + 1, Len(s))) =
             IF i + 1 <= Len(s) THEN Len(s) - (i + 1) + 1 ELSE 0
        /\ \A j \in 1..(Len(s) - (i + 1) + 1) : SubSeq(s, i + 1, Len(s))[j] = s[(i + 1) + j - 1]
    BY <1>1, SubSeqProperties
  <2>2. QED
    BY <1>1, <1>4, <2>1
<1>6. RemoveAt(s, i) = u \o w
  BY <1>2, <1>4 DEF RemoveAt
<1>7. /\ u \o w \in Seq(S) /\ Len(u \o w) = Len(u) + Len(w)
      /\ \A j \in 1..(Len(u) + Len(w)) :
           (u \o w)[j] = IF j <= Len(u) THEN u[j] ELSE w[j - Len(u)]
  BY <1>3, <1>5, ConcatProperties
<1>8. QED
  BY <1>1, <1>3, <1>5, <1>6, <1>7

LEMMA FrontIsRemoveAt ==
  ASSUME NEW S, NEW s \in Seq(S), Len(s) # 0
  PROVE  Front(s) = RemoveAt(s, Len(s))
<1>1. Len(s) \in Nat /\ \A j \in 1..(Len(s) - 1) : s[j] \in S
  BY LenProperties, ElementOfSeq
<1>2. SubSeq(s, Len(s) + 1, Len(s)) = <<>>
  BY <1>1, SubSeqEmpty
<1>3. SubSeq(s, 1, Len(s) - 1) \in Seq(S)
  BY <1>1, SubSeqProperties
<1>4. SubSeq(s, 1, Len(s) - 1) \o <<>> = SubSeq(s, 1, Len(s) - 1)
  BY <1>3, ConcatEmptySeq
<1>5. QED
  BY <1>2, <1>4 DEF Front, RemoveAt

-----------------------------------------------------------------------------
(* A level without one of its entries, and with a new one at either end *)

LEMMA LevelFacts ==
  ASSUME NEW list, LevelOK(list)
  PROVE  /\ Len(list) \in Nat /\ DOMAIN list = 1..Len(list)
         /\ \A i \in 1..Len(list) : list[i] \in EntryType
         /\ Entries(list) = {list[i] : i \in 1..Len(list)}
BY LenProperties, ElementOfSeq DEF LevelOK, Lists, Entries

LEMMA WithoutEntry ==
  ASSUME NEW list, LevelOK(list), NEW i \in 1..Len(list), NEW r, r = RemoveAt(list, i)
  PROVE  /\ LevelOK(r) /\ Len(r) = Len(list) - 1
         /\ Entries(r) = Entries(list) \ {list[i]}
         /\ \A x \in Entries(r) : x.k # list[i].k
         /\ TombstonesLast(list) => TombstonesLast(r)
<1>1. /\ Len(list) \in Nat /\ DOMAIN list = 1..Len(list)
      /\ Entries(list) = {list[j] : j \in 1..Len(list)}
  BY LevelFacts
<1>2. /\ r \in Lists /\ Len(r) = Len(list) - 1
      /\ \A j \in 1..(Len(list) - 1) : r[j] = IF j < i THEN list[j] ELSE list[j + 1]
  BY RemoveAtProperties DEF LevelOK, Lists
<1>3. DOMAIN r = 1..(Len(list) - 1)
  BY <1>2, LenProperties DEF Lists
<1>4. \A j, n \in 1..Len(list) : list[j].k = list[n].k => j = n
  BY <1>1 DEF LevelOK, Distinct
<1>5. Distinct(r)
  BY <1>1, <1>2, <1>3, <1>4 DEF Distinct
<1>6. \A x \in Entries(r) : x \in Entries(list) /\ x.k # list[i].k
  <2> SUFFICES ASSUME NEW j \in 1..(Len(list) - 1)
               PROVE  r[j] \in Entries(list) /\ r[j].k # list[i].k
    BY <1>3 DEF Entries
  <2>1. PICK n \in 1..Len(list) : r[j] = list[n] /\ n # i
    <3>1. CASE j < i
      BY <1>1, <1>2, <3>1
    <3>2. CASE ~(j < i)
      <4>1. j + 1 \in 1..Len(list) /\ j + 1 # i /\ r[j] = list[j + 1]
        BY <1>1, <1>2, <3>2
      <4>2. QED
        BY <4>1
    <3>3. QED
      BY <3>1, <3>2
  <2>2. QED
    BY <1>1, <1>4, <2>1
<1>7. \A x \in Entries(list) : x # list[i] => x \in Entries(r)
  <2> SUFFICES ASSUME NEW j \in 1..Len(list), j # i PROVE list[j] \in Entries(r)
    BY <1>1
  <2>1. CASE j < i
    <3>1. j \in 1..(Len(list) - 1) /\ r[j] = list[j]
      BY <1>1, <1>2, <2>1
    <3>2. QED
      BY <1>3, <3>1 DEF Entries
  <2>2. CASE j > i
    <3>1. j - 1 \in 1..(Len(list) - 1) /\ r[j - 1] = list[j]
      BY <1>1, <1>2, <2>2
    <3>2. QED
      BY <1>3, <3>1 DEF Entries
  <2>3. QED
    BY <1>1, <2>1, <2>2
<1>8. TombstonesLast(list) => TombstonesLast(r)
  <2> SUFFICES ASSUME TombstonesLast(list), NEW j \in 1..(Len(list) - 1),
                      NEW n \in 1..(Len(list) - 1), j < n, r[j].deleted
               PROVE  r[n].deleted
    BY <1>3 DEF TombstonesLast
  <2>1. \A a, b \in 1..Len(list) : a < b /\ list[a].deleted => list[b].deleted
    BY <1>1 DEF TombstonesLast
  <2>2. PICK a \in 1..Len(list) : r[j] = list[a] /\ a = IF j < i THEN j ELSE j + 1
    BY <1>1, <1>2
  <2>3. PICK b \in 1..Len(list) : r[n] = list[b] /\ b = IF n < i THEN n ELSE n + 1
    BY <1>1, <1>2
  <2>4. QED
    BY <1>1, <2>1, <2>2, <2>3
<1>9. QED
  BY <1>2, <1>5, <1>6, <1>7, <1>8 DEF LevelOK

LEMMA EntryAtHead ==
  ASSUME NEW list, LevelOK(list), NEW e \in EntryType, \A x \in Entries(list) : x.k # e.k,
         NEW r, r = <<e>> \o list
  PROVE  /\ LevelOK(r) /\ Len(r) = Len(list) + 1
         /\ Entries(r) = Entries(list) \cup {e}
         /\ TombstonesLast(list) /\ ~e.deleted => TombstonesLast(r)
<1>1. /\ Len(list) \in Nat /\ DOMAIN list = 1..Len(list)
      /\ Entries(list) = {list[j] : j \in 1..Len(list)}
  BY LevelFacts
<1>2. <<e>> \in Lists /\ Len(<<e>>) = 1 /\ <<e>>[1] = e
  BY DEF Lists
<1>3. /\ r \in Lists /\ Len(r) = Len(list) + 1
      /\ \A j \in 1..(Len(list) + 1) : r[j] = IF j = 1 THEN e ELSE list[j - 1]
  <2>1. /\ r \in Lists /\ Len(r) = 1 + Len(list)
        /\ \A j \in 1..(1 + Len(list)) : r[j] = IF j <= 1 THEN <<e>>[j] ELSE list[j - 1]
    BY <1>2, ConcatProperties DEF LevelOK, Lists
  <2>2. QED
    BY <1>1, <1>2, <2>1
<1>4. DOMAIN r = 1..(Len(list) + 1)
  BY <1>3, LenProperties DEF Lists
<1>5. \A j \in 1..Len(list) : list[j].k # e.k
  BY <1>1
<1>6. Distinct(r)
  BY <1>1, <1>3, <1>4, <1>5 DEF LevelOK, Distinct
<1>7. \A x \in Entries(r) : x \in Entries(list) \cup {e}
  BY <1>1, <1>3, <1>4 DEF Entries
<1>8. \A x \in Entries(list) \cup {e} : x \in Entries(r)
  <2>1. e \in Entries(r)
    <3>1. 1 \in DOMAIN r /\ r[1] = e
      BY <1>1, <1>3, <1>4
    <3>2. QED
      BY <3>1 DEF Entries
  <2>2. ASSUME NEW j \in 1..Len(list) PROVE list[j] \in Entries(r)
    <3>1. j + 1 \in DOMAIN r /\ r[j + 1] = list[j]
      BY <1>1, <1>3, <1>4
    <3>2. QED
      BY <3>1 DEF Entries
  <2>3. QED
    BY <1>1, <2>1, <2>2
<1>9. TombstonesLast(list) /\ ~e.deleted => TombstonesLast(r)
  BY <1>1, <1>3, <1>4 DEF TombstonesLast
<1>10. QED
  BY <1>3, <1>6, <1>7, <1>8, <1>9 DEF LevelOK

LEMMA EntryAtTail ==
  ASSUME NEW list, LevelOK(list), NEW e \in EntryType, \A x \in Entries(list) : x.k # e.k,
         NEW r, r = list \o <<e>>
  PROVE  /\ LevelOK(r) /\ Len(r) = Len(list) + 1
         /\ Entries(r) = Entries(list) \cup {e}
         /\ TombstonesLast(list) /\ e.deleted => TombstonesLast(r)
<1>1. /\ Len(list) \in Nat /\ DOMAIN list = 1..Len(list)
      /\ Entries(list) = {list[j] : j \in 1..Len(list)}
  BY LevelFacts
<1>2. <<e>> \in Lists /\ Len(<<e>>) = 1 /\ <<e>>[1] = e
  BY DEF Lists
<1>3. /\ r \in Lists /\ Len(r) = Len(list) + 1
      /\ \A j \in 1..(Len(list) + 1) : r[j] = IF j <= Len(list) THEN list[j] ELSE e
  <2>1. /\ r \in Lists /\ Len(r) = Len(list) + 1
        /\ \A j \in 1..(Len(list) + 1) :
             r[j] = IF j <= Len(list) THEN list[j] ELSE <<e>>[j - Len(list)]
    BY <1>2, ConcatProperties DEF LevelOK, Lists
  <2>2. QED
    BY <1>1, <1>2, <2>1
<1>4. DOMAIN r = 1..(Len(list) + 1)
  BY <1>3, LenProperties DEF Lists
<1>5. \A j \in 1..Len(list) : list[j].k # e.k
  BY <1>1
<1>6. Distinct(r)
  BY <1>1, <1>3, <1>4, <1>5 DEF LevelOK, Distinct
<1>7. \A x \in Entries(r) : x \in Entries(list) \cup {e}
  BY <1>1, <1>3, <1>4 DEF Entries
<1>8. \A x \in Entries(list) \cup {e} : x \in Entries(r)
  <2>1. e \in Entries(r)
    <3>1. Len(list) + 1 \in DOMAIN r /\ r[Len(list) + 1] = e
      BY <1>1, <1>3, <1>4
    <3>2. QED
      BY <3>1 DEF Entries
  <2>2. ASSUME NEW j \in 1..Len(list) PROVE list[j] \in Entries(r)
    <3>1. j \in DOMAIN r /\ r[j] = list[j]
      BY <1>1, <1>3, <1>4
    <3>2. QED
      BY <3>1 DEF Entries
  <2>3. QED
    BY <1>1, <2>1, <2>2
<1>9. TombstonesLast(list) /\ e.deleted => TombstonesLast(r)
  BY <1>1, <1>3, <1>4 DEF TombstonesLast
<1>10. QED
  BY <1>3, <1>6, <1>7, <1>8, <1>9 DEF LevelOK

-----------------------------------------------------------------------------
(* What get, del and put do to the entries a level holds *)

\* The lookup in hmap finds the one entry of a key.
LEMMA AtEntry ==
  ASSUME NEW list, LevelOK(list), NEW k
  PROVE  \/ At(list, k) = 0 /\ \A x \in Entries(list) : x.k # k
         \/ /\ At(list, k) \in 1..Len(list) /\ At(list, k) # 0
            /\ list[At(list, k)] \in Entries(list) /\ list[At(list, k)] \in EntryType
            /\ list[At(list, k)].k = k
            /\ \A x \in Entries(list) : x.k = k => x = list[At(list, k)]
<1>1. /\ Len(list) \in Nat /\ DOMAIN list = 1..Len(list)
      /\ \A i \in 1..Len(list) : list[i] \in EntryType
      /\ Entries(list) = {list[j] : j \in 1..Len(list)}
  BY LevelFacts
<1>2. CASE \E i \in DOMAIN list : list[i].k = k
  <2>1. At(list, k) \in DOMAIN list /\ list[At(list, k)].k = k
    BY <1>2 DEF At
  <2>2. \A x \in Entries(list) : x.k = k => x = list[At(list, k)]
    BY <1>1, <2>1 DEF LevelOK, Distinct
  <2>3. QED
    BY <1>1, <2>1, <2>2
<1>3. CASE ~\E i \in DOMAIN list : list[i].k = k
  BY <1>1, <1>3 DEF At
<1>4. QED
  BY <1>2, <1>3

\* A live entry is one the level holds.
LEMMA LiveHolds ==
  ASSUME NEW list, LevelOK(list), NEW k
  PROVE  /\ Live(list, k) => /\ At(list, k) \in 1..Len(list) /\ k \in Keys
                             /\ list[At(list, k)].v \in ValueType
                             /\ list[At(list, k)] = Entry(k, list[At(list, k)].v)
                             /\ Holds(list, k, list[At(list, k)].v)
         /\ \A v : Holds(list, k, v) => Live(list, k) /\ list[At(list, k)].v = v
<1>1. ASSUME Live(list, k)
      PROVE  /\ At(list, k) \in 1..Len(list) /\ k \in Keys
             /\ list[At(list, k)].v \in ValueType
             /\ list[At(list, k)] = Entry(k, list[At(list, k)].v)
             /\ Holds(list, k, list[At(list, k)].v)
  <2>1. PICK e : e = list[At(list, k)]
    OBVIOUS
  <2>2. /\ At(list, k) \in 1..Len(list) /\ e \in Entries(list) /\ e \in EntryType
        /\ e.k = k /\ ~e.deleted
    BY <1>1, <2>1, AtEntry DEF Live
  <2>3. e = Entry(k, e.v) /\ k \in Keys /\ e.v \in ValueType
    BY <2>2 DEF EntryType, ValueType, Entry
  <2>4. QED
    BY <2>1, <2>2, <2>3 DEF Holds
<1>2. ASSUME NEW v, Holds(list, k, v)
      PROVE  Live(list, k) /\ list[At(list, k)].v = v
  <2>1. PICK e : e = Entry(k, v)
    OBVIOUS
  <2>2. e \in Entries(list) /\ e.k = k /\ e.v = v /\ ~e.deleted
    BY <1>2, <2>1 DEF Holds, Entry
  <2>3. At(list, k) # 0 /\ e = list[At(list, k)]
    BY <2>2, AtEntry
  <2>4. QED
    BY <2>2, <2>3 DEF Live
<1>3. QED
  BY <1>1, <1>2

\* get only changes the order.
LEMMA GetEffect ==
  ASSUME NEW list, LevelOK(list), NEW k, NEW r, r = GetList(list, k)
  PROVE  LevelOK(r) /\ Len(r) = Len(list) /\ Entries(r) = Entries(list)
<1>1. CASE At(list, k) = 0
  BY <1>1 DEF GetList
<1>2. CASE At(list, k) # 0
  <2>1. PICK i, e, u : i = At(list, k) /\ e = list[i] /\ u = RemoveAt(list, i)
    OBVIOUS
  <2>2. i \in 1..Len(list) /\ e \in Entries(list) /\ e \in EntryType
    BY <1>2, <2>1, AtEntry
  <2>3. /\ LevelOK(u) /\ Len(u) = Len(list) - 1 /\ Entries(u) = Entries(list) \ {e}
        /\ \A x \in Entries(u) : x.k # e.k
    BY <2>1, <2>2, WithoutEntry
  <2>4. r = <<e>> \o u
    BY <1>2, <2>1 DEF GetList
  <2>5. LevelOK(r) /\ Len(r) = Len(u) + 1 /\ Entries(r) = Entries(u) \cup {e}
    BY <2>2, <2>3, <2>4, EntryAtHead
  <2>6. Len(list) \in Nat
    BY LevelFacts
  <2>7. QED
    BY <2>2, <2>3, <2>5, <2>6
<1>3. QED
  BY <1>1, <1>2

\* del takes the live entry of one key away and nothing else; the tombstone goes
\* to the end.
LEMMA DelEffect ==
  ASSUME NEW list, LevelOK(list), NEW k, NEW r, r = DelList(list, k)
  PROVE  /\ LevelOK(r) /\ Len(r) = Len(list)
         /\ TombstonesLast(list) => TombstonesLast(r)
         /\ \A j, w : Holds(r, j, w) <=> Holds(list, j, w) /\ j # k
<1>1. CASE ~Live(list, k)
  BY <1>1, LiveHolds DEF DelList
<1>2. CASE Live(list, k)
  <2>1. PICK i, e, u : i = At(list, k) /\ e = list[i] /\ u = RemoveAt(list, i)
    OBVIOUS
  <2>2. i \in 1..Len(list) /\ e \in Entries(list) /\ e \in EntryType /\ e.k = k
    BY <1>2, <2>1, AtEntry DEF Live
  <2>3. PICK t : t = [e EXCEPT !.deleted = TRUE]
    OBVIOUS
  <2>4. t \in EntryType /\ t.k = k /\ t.deleted
    BY <2>2, <2>3 DEF EntryType
  <2>5. /\ LevelOK(u) /\ Len(u) = Len(list) - 1 /\ Entries(u) = Entries(list) \ {e}
        /\ \A x \in Entries(u) : x.k # k
        /\ TombstonesLast(list) => TombstonesLast(u)
    BY <2>1, <2>2, WithoutEntry
  <2>6. r = u \o <<t>>
    BY <1>2, <2>1, <2>3 DEF DelList, DelOut
  <2>7. /\ LevelOK(r) /\ Len(r) = Len(u) + 1 /\ Entries(r) = Entries(u) \cup {t}
        /\ TombstonesLast(u) => TombstonesLast(r)
    BY <2>4, <2>5, <2>6, EntryAtTail
  <2>8. Len(list) \in Nat
    BY LevelFacts
  <2>9. \A j, w : Entry(j, w).k = j /\ Entry(j, w) # t
    BY <2>4 DEF Entry
  <2>10. ASSUME NEW j, NEW w PROVE Holds(r, j, w) <=> Holds(list, j, w) /\ j # k
    <3>1. Holds(r, j, w) <=> Entry(j, w) \in Entries(list) /\ Entry(j, w) # e
      BY <2>5, <2>7, <2>9 DEF Holds
    <3>2. Entry(j, w) \in Entries(list) => (Entry(j, w) = e <=> j = k)
      BY <2>1, <2>2, <2>9, AtEntry
    <3>3. QED
      BY <3>1, <3>2 DEF Holds
  <2>11. QED
    BY <2>5, <2>7, <2>8, <2>10
<1>3. QED
  BY <1>1, <1>2

\* put makes the entry of one key the given one; it pushes at most one other
\* entry out, and returns that one if it was live.
PutFacts(list, cap, k, v, r, o) ==
  /\ LevelOK(r) /\ Len(r) <= cap
  /\ TombstonesLast(list) => TombstonesLast(r)
  /\ \A w : Holds(r, k, w) <=> w = v
  /\ \A j, w : Holds(r, j, w) /\ j # k => Holds(list, j, w)
  /\ \A j, w : Holds(list, j, w) /\ j # k /\ ~Holds(r, j, w) => o = <<Entry(j, w)>>
  /\ o # <<>> => \E j \in Keys, w \in ValueType :
                   o = <<Entry(j, w)>> /\ Holds(list, j, w) /\ j # k

LEMMA PutEffect ==
  ASSUME NEW list, LevelOK(list), NEW cap \in Nat \ {0}, Len(list) <= cap,
         NEW k \in Keys, NEW v \in ValueType,
         NEW r, r = PutList(list, cap, k, v), NEW o, o = PutOut(list, cap, k)
  PROVE  PutFacts(list, cap, k, v, r, o)
<1>1. PICK e : e = Entry(k, v)
  OBVIOUS
<1>2. e \in EntryType /\ e.k = k /\ ~e.deleted
  BY <1>1 DEF EntryType, ValueType, Entry
<1>3. /\ Len(list) \in Nat
      /\ \A i \in 1..Len(list) : list[i] \in EntryType /\ list[i] \in Entries(list)
  BY LevelFacts
<1>4. \A j, w : Entry(j, w).k = j /\ (Entry(j, w) = e <=> j = k /\ w = v)
  BY <1>1 DEF Entry
\* The level without the entry that goes, u, and the entry that goes, gone.
<1>5. PICK u, gone :
        /\ r = <<e>> \o u
        /\ LevelOK(u) /\ Len(u) < cap /\ Entries(u) = Entries(list) \ gone
        /\ \A x \in Entries(u) : x.k # k
        /\ TombstonesLast(list) => TombstonesLast(u)
        /\ \/ o = <<>> /\ \A x \in gone : x.k = k \/ x.deleted
           \/ \E x \in Entries(list) : /\ x \in EntryType /\ gone = {x} /\ o = <<x>>
                                       /\ ~x.deleted /\ x.k # k
  <2>1. CASE At(list, k) # 0
    <3>1. PICK i, u : i = At(list, k) /\ u = RemoveAt(list, i)
      OBVIOUS
    <3>2. i \in 1..Len(list) /\ list[i].k = k
      BY <2>1, <3>1, AtEntry
    <3>3. /\ LevelOK(u) /\ Len(u) = Len(list) - 1 /\ Entries(u) = Entries(list) \ {list[i]}
          /\ \A x \in Entries(u) : x.k # k
          /\ TombstonesLast(list) => TombstonesLast(u)
      <4>1. i \in 1..Len(list) /\ u = RemoveAt(list, i)
        BY <3>1, <3>2
      <4>2. /\ LevelOK(u) /\ Len(u) = Len(list) - 1
            /\ Entries(u) = Entries(list) \ {list[i]}
            /\ \A x \in Entries(u) : x.k # list[i].k
            /\ TombstonesLast(list) => TombstonesLast(u)
        BY <4>1, WithoutEntry
      <4>3. QED
        BY <3>2, <4>2
    <3>4. r = <<e>> \o u /\ o = <<>>
      BY <1>1, <2>1, <3>1 DEF PutList, PutOut
    <3>5. Len(u) < cap
      BY <1>3, <3>3
    <3>6. QED
      BY <3>2, <3>3, <3>4, <3>5
  <2>2. CASE At(list, k) = 0 /\ Len(list) = cap
    <3>1. PICK i, u : i = Len(list) /\ u = RemoveAt(list, i)
      OBVIOUS
    <3>2. i \in 1..Len(list) /\ u = Front(list)
      BY <1>3, <2>2, <3>1, FrontIsRemoveAt DEF LevelOK, Lists
    <3>3. /\ LevelOK(u) /\ Len(u) = Len(list) - 1 /\ Entries(u) = Entries(list) \ {list[i]}
          /\ TombstonesLast(list) => TombstonesLast(u)
      BY <3>1, <3>2, WithoutEntry
    <3>4. \A x \in Entries(list) : x.k # k
      BY <2>2, AtEntry
    <3>5. r = <<e>> \o u
      BY <1>1, <2>2, <3>2 DEF PutList
    <3>6. o = IF list[i].deleted THEN <<>> ELSE <<list[i]>>
      BY <2>2, <3>1 DEF PutOut, Last
    <3>7. Len(u) < cap
      BY <1>3, <2>2, <3>3
    <3>8. list[i] \in Entries(list) /\ list[i] \in EntryType
      BY <1>3, <3>2
    <3>9. QED
      BY <3>3, <3>4, <3>5, <3>6, <3>7, <3>8
  <2>3. CASE At(list, k) = 0 /\ Len(list) # cap
    <3>1. r = <<e>> \o list /\ o = <<>>
      BY <1>1, <2>3 DEF PutList, PutOut
    <3>2. \A x \in Entries(list) : x.k # k
      BY <2>3, AtEntry
    <3>3. Len(list) < cap
      BY <1>3, <2>3
    <3>4. PICK gone : gone = {}
      OBVIOUS
    <3>5. Entries(list) = Entries(list) \ gone /\ \A x \in gone : x.k = k \/ x.deleted
      BY <3>4
    <3>6. QED
      BY <3>1, <3>2, <3>3, <3>5
  <2>4. QED
    BY <2>1, <2>2, <2>3
<1>6. /\ LevelOK(r) /\ Len(r) = Len(u) + 1 /\ Entries(r) = Entries(u) \cup {e}
      /\ TombstonesLast(u) => TombstonesLast(r)
  BY <1>2, <1>5, EntryAtHead
<1>7. Len(r) <= cap
  <2>1. Len(u) \in Nat
    BY <1>5, LevelFacts
  <2>2. QED
    BY <1>5, <1>6, <2>1
<1>8. \A w : Holds(r, k, w) <=> w = v
  BY <1>4, <1>5, <1>6 DEF Holds
<1>9. \A j, w : Holds(r, j, w) /\ j # k => Holds(list, j, w)
  BY <1>4, <1>5, <1>6 DEF Holds
<1>10. ASSUME NEW j, NEW w, Holds(list, j, w), j # k, ~Holds(r, j, w)
       PROVE  o = <<Entry(j, w)>>
  <2>1. Entry(j, w) \in gone /\ Entry(j, w).k # k /\ ~Entry(j, w).deleted
    BY <1>4, <1>5, <1>6, <1>10 DEF Holds, Entry
  <2>2. QED
    BY <1>5, <2>1
<1>11. ASSUME o # <<>>
       PROVE  \E j \in Keys, w \in ValueType :
                o = <<Entry(j, w)>> /\ Holds(list, j, w) /\ j # k
  <2>1. PICK x \in Entries(list) : x \in EntryType /\ o = <<x>> /\ ~x.deleted /\ x.k # k
    BY <1>5, <1>11
  <2>2. x = Entry(x.k, x.v) /\ x.k \in Keys /\ x.v \in ValueType
    BY <2>1 DEF EntryType, ValueType, Entry
  <2>3. QED
    BY <2>1, <2>2 DEF Holds
<1>12. QED
  BY <1>5, <1>6, <1>7, <1>8, <1>9, <1>10, <1>11 DEF PutFacts
-----------------------------------------------------------------------------
(* The two loops over the keys of a bucket, by induction: a least index at   *)
(* which the claim fails is not 0 and not a successor.                       *)

\* f is the function ExpiredIn defines, on the first n entries of the list.
Collects(f, list, now, known, n) ==
  f = [i \in 0..n |->
         IF i = 0 THEN <<>>
         ELSE IF ~list[i].deleted /\ Expired(list[i], now) /\ list[i].k \notin known
              THEN Append(f[i - 1], list[i].k) ELSE f[i - 1]]

LEMMA CollectsExists ==
  ASSUME NEW list, NEW now, NEW known, NEW n \in Nat
  PROVE  \E f : Collects(f, list, now, known, n)
<1> DEFINE T == {i \in Nat : ~\E f : Collects(f, list, now, known, i)}
<1> SUFFICES ASSUME T # {} PROVE FALSE
  OBVIOUS
<1>1. PICK x \in T : \A y \in T : x <= y
  BY Least
<1>2. CASE x = 0
  <2>1. PICK f : f = [i \in 0..0 |-> <<>>]
    OBVIOUS
  <2>2. Collects(f, list, now, known, 0)
    BY <2>1 DEF Collects
  <2>3. QED
    BY <1>2, <2>2
<1>3. CASE x # 0
  <2>1. x - 1 \in Nat /\ x - 1 \notin T /\ x \in Nat
    BY <1>1, <1>3
  <2>2. PICK f : Collects(f, list, now, known, x - 1)
    BY <2>1
  <2> DEFINE Add(s, i) ==
               IF ~list[i].deleted /\ Expired(list[i], now) /\ list[i].k \notin known
               THEN Append(s, list[i].k) ELSE s
  <2>3. f = [i \in 0..(x - 1) |-> IF i = 0 THEN <<>> ELSE Add(f[i - 1], i)]
    BY <2>2 DEF Collects
  <2> HIDE DEF Add
  <2>4. PICK g : g = [i \in 0..x |-> IF i < x THEN f[i] ELSE Add(f[x - 1], x)]
    OBVIOUS
  <2>5. \A i \in 0..x : g[i] = IF i = 0 THEN <<>> ELSE Add(g[i - 1], i)
    BY <1>3, <2>1, <2>3, <2>4
  <2>6. g = [i \in 0..x |-> IF i = 0 THEN <<>> ELSE Add(g[i - 1], i)]
    BY <2>4, <2>5
  <2>7. Collects(g, list, now, known, x)
    BY <2>6 DEF Collects, Add
  <2>8. QED
    BY <1>1, <2>7
<1>4. QED
  BY <1>2, <1>3

\* The time of a value is over.
Over(w, now) == w.exp # noExpiration /\ now >= w.exp

LEMMA AppendSet ==
  ASSUME NEW S, NEW s \in Seq(S), NEW e \in S
  PROVE  Append(s, e) \in Seq(S) /\ ToSet(Append(s, e)) = ToSet(s) \cup {e}
<1>1. /\ Append(s, e) \in Seq(S) /\ Len(Append(s, e)) = Len(s) + 1
      /\ \A i \in 1..Len(s) : Append(s, e)[i] = s[i]
      /\ Append(s, e)[Len(s) + 1] = e
  BY AppendProperties
<1>2. Len(s) \in Nat /\ DOMAIN s = 1..Len(s) /\ DOMAIN Append(s, e) = 1..(Len(s) + 1)
  BY <1>1, LenProperties
<1>3. ToSet(s) = {s[i] : i \in 1..Len(s)}
  BY <1>2 DEF ToSet
<1>4. ToSet(Append(s, e)) = {Append(s, e)[i] : i \in 1..(Len(s) + 1)}
  BY <1>2 DEF ToSet
<1>5. \A x : x \in ToSet(Append(s, e)) => x \in ToSet(s) \cup {e}
  BY <1>1, <1>2, <1>3, <1>4
<1>6. \A x : x \in ToSet(s) => x \in ToSet(Append(s, e))
  BY <1>1, <1>2, <1>3, <1>4
<1>7. e \in ToSet(Append(s, e))
  BY <1>1, <1>2, <1>4
<1>8. QED
  BY <1>1, <1>5, <1>6, <1>7

\* The cleanup loop finds the expired keys of a level that it does not know yet.
LEMMA ExpiredInKeys ==
  ASSUME NEW list, LevelOK(list), NEW now, NEW known, NEW s, s = ExpiredIn(list, now, known)
  PROVE  /\ s \in Seq(Keys)
         /\ \A j : j \in ToSet(s) <=>
                     j \notin known /\ \E w : Holds(list, j, w) /\ Over(w, now)
<1>1. /\ Len(list) \in Nat /\ DOMAIN list = 1..Len(list)
      /\ \A i \in 1..Len(list) : list[i] \in EntryType
      /\ Entries(list) = {list[i] : i \in 1..Len(list)}
  BY LevelFacts
<1>2. PICK f : Collects(f, list, now, known, Len(list)) /\ s = f[Len(list)]
  <2>1. \E f : Collects(f, list, now, known, Len(list))
    BY <1>1, CollectsExists
  <2>2. QED
    BY <2>1 DEF ExpiredIn, Collects
<1> DEFINE Takes(i) == ~list[i].deleted /\ Expired(list[i], now) /\ list[i].k \notin known
<1>3. /\ f[0] = <<>>
      /\ \A i \in 1..Len(list) :
           f[i] = IF Takes(i) THEN Append(f[i - 1], list[i].k) ELSE f[i - 1]
  <2>1. f = [i \in 0..Len(list) |->
               IF i = 0 THEN <<>>
               ELSE IF Takes(i) THEN Append(f[i - 1], list[i].k) ELSE f[i - 1]]
    BY <1>2 DEF Collects
  <2> HIDE DEF Takes
  <2>2. \A i \in 0..Len(list) :
          f[i] = IF i = 0 THEN <<>>
                 ELSE IF Takes(i) THEN Append(f[i - 1], list[i].k) ELSE f[i - 1]
    BY <2>1
  <2>3. 0 \in 0..Len(list) /\ \A i \in 1..Len(list) : i \in 0..Len(list) /\ i # 0
    BY <1>1
  <2>4. QED
    BY <2>2, <2>3
<1> HIDE DEF Takes
<1> DEFINE Good(i) == /\ f[i] \in Seq(Keys)
                      /\ \A j : j \in ToSet(f[i]) <=>
                                  \E m \in 1..Len(list) : m <= i /\ Takes(m) /\ list[m].k = j
<1>4. \A i \in Nat : i <= Len(list) => Good(i)
  <2> DEFINE T == {i \in Nat : i <= Len(list) /\ ~Good(i)}
  <2> HIDE DEF Good
  <2> SUFFICES ASSUME T # {} PROVE FALSE
    OBVIOUS
  <2>1. PICK x \in T : \A y \in T : x <= y
    BY Least
  <2>2. x \in Nat /\ x <= Len(list) /\ ~Good(x)
    OBVIOUS
  <2>3. CASE x = 0
    <3>1. f[0] \in Seq(Keys) /\ ToSet(f[0]) = {}
      BY <1>3 DEF ToSet
    <3>2. QED
      BY <1>1, <2>2, <2>3, <3>1 DEF Good
  <2>4. CASE x # 0
    <3>1. x - 1 \in Nat /\ x \in 1..Len(list) /\ Good(x - 1)
      <4>1. x - 1 \in Nat /\ x \in 1..Len(list) /\ x - 1 <= Len(list) /\ ~(x <= x - 1)
        BY <1>1, <2>2, <2>4
      <4>2. QED
        BY <2>1, <4>1
    <3>2. PICK u, t : u = f[x - 1] /\ t = f[x]
      OBVIOUS
    <3>3. /\ u \in Seq(Keys)
          /\ \A j : j \in ToSet(u) <=>
                      \E m \in 1..Len(list) : m <= x - 1 /\ Takes(m) /\ list[m].k = j
      BY <3>1, <3>2 DEF Good
    <3>4. t = IF Takes(x) THEN Append(u, list[x].k) ELSE u
      BY <1>3, <3>1, <3>2
    <3>5. list[x].k \in Keys
      BY <1>1, <3>1 DEF EntryType
    <3>6. \A m \in 1..Len(list) : m <= x <=> m <= x - 1 \/ m = x
      BY <1>1, <3>1
    <3>7. CASE Takes(x)
      <4>1. t \in Seq(Keys) /\ ToSet(t) = ToSet(u) \cup {list[x].k}
        BY <3>3, <3>4, <3>5, <3>7, AppendSet
      <4>2. Good(x)
        BY <3>1, <3>2, <3>3, <3>6, <3>7, <4>1 DEF Good
      <4>3. QED
        BY <2>2, <4>2
    <3>8. CASE ~Takes(x)
      <4>1. Good(x)
        BY <3>1, <3>2, <3>3, <3>4, <3>6, <3>8 DEF Good
      <4>2. QED
        BY <2>2, <4>1
    <3>9. QED
      BY <3>7, <3>8
  <2>5. QED
    BY <2>3, <2>4
<1>5. Good(Len(list))
  <2> HIDE DEF Good
  <2>1. Len(list) <= Len(list)
    BY <1>1
  <2>2. QED
    BY <1>1, <1>4, <2>1
<1>6. ASSUME NEW j
      PROVE  (\E m \in 1..Len(list) : Takes(m) /\ list[m].k = j)
               <=> j \notin known /\ \E w : Holds(list, j, w) /\ Over(w, now)
  <2>1. ASSUME NEW m \in 1..Len(list), Takes(m), list[m].k = j
        PROVE  j \notin known /\ \E w : Holds(list, j, w) /\ Over(w, now)
    <3>1. PICK e : e = list[m]
      OBVIOUS
    <3>2. e \in EntryType /\ e \in Entries(list) /\ ~e.deleted /\ e.k = j /\ j \notin known
          /\ Over(e.v, now)
      BY <1>1, <2>1, <3>1 DEF Takes, Expired, Over
    <3>3. e = Entry(j, e.v)
      BY <3>2 DEF EntryType, Entry
    <3>4. QED
      BY <3>2, <3>3 DEF Holds
  <2>2. ASSUME NEW w, Holds(list, j, w), Over(w, now), j \notin known
        PROVE  \E m \in 1..Len(list) : Takes(m) /\ list[m].k = j
    <3>1. PICK m \in 1..Len(list) : list[m] = Entry(j, w)
      BY <1>1, <2>2 DEF Holds
    <3>2. Takes(m) /\ list[m].k = j
      BY <2>2, <3>1 DEF Takes, Expired, Over, Entry
    <3>3. QED
      BY <3>2
  <2>3. QED
    BY <2>1, <2>2
<1>7. \A m \in 1..Len(list) : m <= Len(list)
  BY <1>1
<1>8. QED
  BY <1>2, <1>5, <1>6, <1>7

-----------------------------------------------------------------------------
(* Buckets *)

\* A bucket is well formed.
BucketOK(levels) ==
  /\ levels \in Lists \X Lists
  /\ LevelOK(levels[1]) /\ Len(levels[1]) <= Cap1 /\ TombstonesLast(levels[1])
  /\ LevelOK(levels[2]) /\ Len(levels[2]) <= Cap2

LEMMA PairOK ==
  ASSUME NEW l1, NEW l2, LevelOK(l1), LevelOK(l2), Len(l1) <= Cap1, Len(l2) <= Cap2,
         TombstonesLast(l1)
  PROVE  BucketOK(<<l1, l2>>) /\ <<l1, l2>>[1] = l1 /\ <<l1, l2>>[2] = l2
BY DEF BucketOK, LevelOK

\* n is p without the keys in gone.
Without(p, n, gone) ==
  /\ \A j, w : Holds(n[1], j, w) <=> Holds(p[1], j, w) /\ j \notin gone
  /\ \A j, w : Holds(n[2], j, w) <=> Holds(p[2], j, w) /\ j \notin gone

LEMMA DeleteLevelsEffect ==
  ASSUME NEW p, BucketOK(p), NEW k, NEW n, n = DeleteLevels(p, k)
  PROVE  BucketOK(n) /\ Without(p, n, {k})
<1>1. PICK l1, l2 : l1 = DelList(p[1], k) /\ l2 = DelList(p[2], k)
  OBVIOUS
<1>2. /\ LevelOK(l1) /\ Len(l1) = Len(p[1]) /\ TombstonesLast(l1)
      /\ \A j, w : Holds(l1, j, w) <=> Holds(p[1], j, w) /\ j # k
  BY <1>1, DelEffect DEF BucketOK
<1>3. /\ LevelOK(l2) /\ Len(l2) = Len(p[2])
      /\ \A j, w : Holds(l2, j, w) <=> Holds(p[2], j, w) /\ j # k
  BY <1>1, DelEffect DEF BucketOK
<1>4. n = <<l1, l2>>
  BY <1>1 DEF DeleteLevels
<1>5. BucketOK(n) /\ n[1] = l1 /\ n[2] = l2
  BY <1>2, <1>3, <1>4, PairOK DEF BucketOK
<1>6. QED
  BY <1>2, <1>3, <1>5 DEF Without

\* f is the function DeleteAll defines, on the first n keys.
Deletes(f, levels, keys, n) ==
  f = [i \in 0..n |-> IF i = 0 THEN levels ELSE DeleteLevels(f[i - 1], keys[i])]

LEMMA DeletesExists ==
  ASSUME NEW levels, NEW keys, NEW n \in Nat
  PROVE  \E f : Deletes(f, levels, keys, n)
<1> DEFINE T == {i \in Nat : ~\E f : Deletes(f, levels, keys, i)}
<1> SUFFICES ASSUME T # {} PROVE FALSE
  OBVIOUS
<1>1. PICK x \in T : \A y \in T : x <= y
  BY Least
<1>2. CASE x = 0
  <2>1. PICK f : f = [i \in 0..0 |-> levels]
    OBVIOUS
  <2>2. Deletes(f, levels, keys, 0)
    BY <2>1 DEF Deletes
  <2>3. QED
    BY <1>2, <2>2
<1>3. CASE x # 0
  <2>1. x - 1 \in Nat /\ x - 1 \notin T /\ x \in Nat
    BY <1>1, <1>3
  <2>2. PICK f : Deletes(f, levels, keys, x - 1)
    BY <2>1
  <2>3. f = [i \in 0..(x - 1) |-> IF i = 0 THEN levels ELSE DeleteLevels(f[i - 1], keys[i])]
    BY <2>2 DEF Deletes
  <2>4. PICK g : g = [i \in 0..x |-> IF i < x THEN f[i] ELSE DeleteLevels(f[x - 1], keys[x])]
    OBVIOUS
  <2>5. \A i \in 0..x : g[i] = IF i = 0 THEN levels ELSE DeleteLevels(g[i - 1], keys[i])
    BY <1>3, <2>1, <2>3, <2>4
  <2>6. g = [i \in 0..x |-> IF i = 0 THEN levels ELSE DeleteLevels(g[i - 1], keys[i])]
    BY <2>4, <2>5
  <2>7. Deletes(g, levels, keys, x)
    BY <2>6 DEF Deletes
  <2>8. QED
    BY <1>1, <2>7
<1>4. QED
  BY <1>2, <1>3

\* The loop of the cleanup over a bucket's expired keys deletes those keys.
LEMMA DeleteAllEffect ==
  ASSUME NEW p, BucketOK(p), NEW keys \in Seq(Keys), NEW n, n = DeleteAll(p, keys)
  PROVE  BucketOK(n) /\ Without(p, n, ToSet(keys))
<1>1. Len(keys) \in Nat /\ ToSet(keys) = {keys[i] : i \in 1..Len(keys)}
  BY LenProperties DEF ToSet
<1>2. PICK f : Deletes(f, p, keys, Len(keys)) /\ n = f[Len(keys)]
  <2>1. \E f : Deletes(f, p, keys, Len(keys))
    BY <1>1, DeletesExists
  <2>2. QED
    BY <2>1 DEF DeleteAll, Deletes
<1>3. /\ f[0] = p
      /\ \A i \in 1..Len(keys) : f[i] = DeleteLevels(f[i - 1], keys[i])
  <2>1. \A i \in 0..Len(keys) :
          f[i] = IF i = 0 THEN p ELSE DeleteLevels(f[i - 1], keys[i])
    BY <1>2 DEF Deletes
  <2>2. 0 \in 0..Len(keys) /\ \A i \in 1..Len(keys) : i \in 0..Len(keys) /\ i # 0
    BY <1>1
  <2>3. QED
    BY <2>1, <2>2
<1> DEFINE First(i) == {keys[m] : m \in {l \in 1..Len(keys) : l <= i}}
<1> DEFINE Good(i) == BucketOK(f[i]) /\ Without(p, f[i], First(i))
<1>4. \A i \in Nat : i <= Len(keys) => Good(i)
  <2> DEFINE T == {i \in Nat : i <= Len(keys) /\ ~Good(i)}
  <2> HIDE DEF Good
  <2> SUFFICES ASSUME T # {} PROVE FALSE
    OBVIOUS
  <2>1. PICK x \in T : \A y \in T : x <= y
    BY Least
  <2>2. x \in Nat /\ x <= Len(keys) /\ ~Good(x)
    OBVIOUS
  <2>3. CASE x = 0
    <3>1. First(0) = {}
      BY <1>1
    <3> HIDE DEF First
    <3>2. Without(p, f[0], First(0))
      BY <1>3, <3>1 DEF Without
    <3>3. QED
      BY <1>3, <2>2, <2>3, <3>2 DEF Good
  <2>4. CASE x # 0
    <3>1. x - 1 \in Nat /\ x \in 1..Len(keys) /\ Good(x - 1)
      <4>1. x - 1 \in Nat /\ x \in 1..Len(keys) /\ x - 1 <= Len(keys) /\ ~(x <= x - 1)
        BY <1>1, <2>2, <2>4
      <4>2. QED
        BY <2>1, <4>1
    <3>2. First(x) = First(x - 1) \cup {keys[x]}
      <4>1. \A m \in 1..Len(keys) : m <= x <=> m <= x - 1 \/ m = x
        BY <1>1, <3>1
      <4>2. QED
        BY <3>1, <4>1
    <3> HIDE DEF First
    <3>3. BucketOK(f[x - 1]) /\ Without(p, f[x - 1], First(x - 1))
      BY <3>1 DEF Good
    <3>4. BucketOK(f[x]) /\ Without(f[x - 1], f[x], {keys[x]})
      BY <1>3, <3>1, <3>3, DeleteLevelsEffect
    <3>5. Without(p, f[x], First(x))
      BY <3>2, <3>3, <3>4 DEF Without
    <3>6. QED
      BY <2>2, <3>4, <3>5 DEF Good
  <2>5. QED
    BY <2>3, <2>4
<1>5. First(Len(keys)) = ToSet(keys)
  <2>1. \A m \in 1..Len(keys) : m <= Len(keys)
    BY <1>1
  <2>2. QED
    BY <1>1, <2>1
<1>6. Good(Len(keys))
  <2> HIDE DEF Good
  <2>1. Len(keys) <= Len(keys)
    BY <1>1
  <2>2. QED
    BY <1>1, <1>4, <2>1
<1>7. QED
  <2> HIDE DEF First
  <2>1. QED
    BY <1>2, <1>5, <1>6

\* The keys the cleanup deletes: those with an expired value in either level.
LEMMA ExpiredKeysOf ==
  ASSUME NEW p, BucketOK(p), NEW now, NEW s, s = ExpiredKeys(p, now)
  PROVE  /\ s \in Seq(Keys)
         /\ \A j : j \in ToSet(s) <=>
                     \E w : (Holds(p[1], j, w) \/ Holds(p[2], j, w)) /\ Over(w, now)
<1>1. PICK u, t : u = ExpiredIn(p[1], now, {}) /\ t = ExpiredIn(p[2], now, ToSet(u))
  OBVIOUS
<1>2. /\ u \in Seq(Keys)
      /\ \A j : j \in ToSet(u) <=> \E w : Holds(p[1], j, w) /\ Over(w, now)
  <2>1. LevelOK(p[1])
    BY DEF BucketOK
  <2>2. /\ u \in Seq(Keys)
        /\ \A j : j \in ToSet(u) <=> j \notin {} /\ \E w : Holds(p[1], j, w) /\ Over(w, now)
    BY <1>1, <2>1, ExpiredInKeys
  <2>3. QED
    BY <2>2
<1>3. /\ t \in Seq(Keys)
      /\ \A j : j \in ToSet(t) <=>
                  j \notin ToSet(u) /\ \E w : Holds(p[2], j, w) /\ Over(w, now)
  <2>1. LevelOK(p[2])
    BY DEF BucketOK
  <2>2. QED
    BY <1>1, <2>1, ExpiredInKeys
<1>4. s = u \o t
  BY <1>1 DEF ExpiredKeys
<1>5. /\ s \in Seq(Keys) /\ Len(s) = Len(u) + Len(t)
      /\ \A i \in 1..(Len(u) + Len(t)) : s[i] = IF i <= Len(u) THEN u[i] ELSE t[i - Len(u)]
  BY <1>2, <1>3, <1>4, ConcatProperties
<1>6. /\ Len(u) \in Nat /\ Len(t) \in Nat
      /\ DOMAIN s = 1..(Len(u) + Len(t)) /\ DOMAIN u = 1..Len(u) /\ DOMAIN t = 1..Len(t)
  BY <1>2, <1>3, <1>5, LenProperties
<1>7. \A x : x \in ToSet(s) => x \in ToSet(u) \/ x \in ToSet(t)
  <2> SUFFICES ASSUME NEW i \in 1..(Len(u) + Len(t))
               PROVE  s[i] \in ToSet(u) \/ s[i] \in ToSet(t)
    BY <1>6 DEF ToSet
  <2>1. CASE i <= Len(u)
    <3>1. i \in 1..Len(u) /\ s[i] = u[i]
      BY <1>5, <1>6, <2>1
    <3>2. QED
      BY <1>6, <3>1 DEF ToSet
  <2>2. CASE ~(i <= Len(u))
    <3>1. i - Len(u) \in 1..Len(t) /\ s[i] = t[i - Len(u)]
      BY <1>5, <1>6, <2>2
    <3>2. QED
      BY <1>6, <3>1 DEF ToSet
  <2>3. QED
    BY <2>1, <2>2
<1>8. \A x : x \in ToSet(u) => x \in ToSet(s)
  <2> SUFFICES ASSUME NEW i \in 1..Len(u) PROVE u[i] \in ToSet(s)
    BY <1>6 DEF ToSet
  <2>1. i \in 1..(Len(u) + Len(t)) /\ s[i] = u[i]
    BY <1>5, <1>6
  <2>2. QED
    BY <1>6, <2>1 DEF ToSet
<1>9. \A x : x \in ToSet(t) => x \in ToSet(s)
  <2> SUFFICES ASSUME NEW i \in 1..Len(t) PROVE t[i] \in ToSet(s)
    BY <1>6 DEF ToSet
  <2>1. i + Len(u) \in 1..(Len(u) + Len(t)) /\ s[i + Len(u)] = t[i]
    BY <1>5, <1>6
  <2>2. QED
    BY <1>6, <2>1 DEF ToSet
<1>10. QED
  BY <1>2, <1>3, <1>5, <1>7, <1>8, <1>9

\* A level has one value of a key.
LEMMA HoldsOne ==
  ASSUME NEW list, LevelOK(list), NEW k, NEW v, NEW w, Holds(list, k, v), Holds(list, k, w)
  PROVE  v = w
BY LiveHolds

LEMMA ReportOne ==
  ASSUME NEW o, NEW j, NEW w, o = <<Entry(j, w)>>
  PROVE  <<j, w.val>> \in Report(o)
<1>1. o[1] = Entry(j, w) /\ 1 \in DOMAIN o
  OBVIOUS
<1>2. Entry(j, w) \in Entries(o) /\ Entry(j, w).k = j /\ Entry(j, w).v = w
  BY <1>1 DEF Entries, Entry
<1>3. QED
  BY <1>2 DEF Report

\* What del returns is the entry, marked deleted.
LEMMA DelOutOf ==
  ASSUME NEW list, LevelOK(list), NEW k, Live(list, k)
  PROVE  /\ DelOut(list, k)[1].v \in ValueType /\ k \in Keys
         /\ Holds(list, k, DelOut(list, k)[1].v)
         /\ <<k, DelOut(list, k)[1].v.val>> \in Report(DelOut(list, k))
<1>1. PICK e, w, t : /\ e = list[At(list, k)] /\ w = e.v
                     /\ t = [e EXCEPT !.deleted = TRUE]
  OBVIOUS
<1>2. k \in Keys /\ w \in ValueType /\ e = Entry(k, w) /\ Holds(list, k, w)
  BY <1>1, LiveHolds
<1>3. t.k = k /\ t.v = w
  BY <1>1, <1>2 DEF Entry
<1>4. DelOut(list, k) = <<t>>
  BY <1>1 DEF DelOut
<1>5. DelOut(list, k)[1] = t /\ t \in Entries(DelOut(list, k))
  BY <1>4 DEF Entries
<1>6. QED
  BY <1>2, <1>3, <1>5 DEF Report

\* Get moves a value of level 1 to level 2, in the place of an older one there;
\* the entry level 2 drops is reported.
Promotes(p, n, k, v, rep) ==
  /\ Holds(p[1], k, v) /\ v \in ValueType
  /\ \A j, w : Holds(n[1], j, w) <=> Holds(p[1], j, w) /\ j # k
  /\ \A w : Holds(n[2], k, w) <=> w = v
  /\ \A j, w : Holds(n[2], j, w) /\ j # k => Holds(p[2], j, w)
  /\ \A j, w : Holds(p[2], j, w) /\ j # k /\ ~Holds(n[2], j, w) => <<j, w.val>> \in rep

LEMMA PromoteEffect ==
  ASSUME NEW p, BucketOK(p), NEW k \in Keys, Live(p[1], k),
         NEW v, v = DelOut(p[1], k)[1].v,
         NEW n, n = <<DelList(p[1], k), PutList(p[2], Cap2, k, v)>>,
         NEW rep, rep = Report(PutOut(p[2], Cap2, k))
  PROVE  BucketOK(n) /\ Promotes(p, n, k, v, rep)
<1>1. v \in ValueType /\ Holds(p[1], k, v)
  BY DelOutOf DEF BucketOK
<1>2. PICK l1, l2, o : /\ l1 = DelList(p[1], k) /\ l2 = PutList(p[2], Cap2, k, v)
                       /\ o = PutOut(p[2], Cap2, k)
  OBVIOUS
<1>3. /\ LevelOK(l1) /\ Len(l1) = Len(p[1]) /\ TombstonesLast(l1)
      /\ \A j, w : Holds(l1, j, w) <=> Holds(p[1], j, w) /\ j # k
  BY <1>2, DelEffect DEF BucketOK
<1>4. /\ LevelOK(l2) /\ Len(l2) <= Cap2
      /\ \A w : Holds(l2, k, w) <=> w = v
      /\ \A j, w : Holds(l2, j, w) /\ j # k => Holds(p[2], j, w)
      /\ \A j, w : Holds(p[2], j, w) /\ j # k /\ ~Holds(l2, j, w) => o = <<Entry(j, w)>>
  <2>1. LevelOK(p[2]) /\ Len(p[2]) <= Cap2 /\ Cap2 \in Nat \ {0}
    BY LRU2Assumption DEF BucketOK
  <2>2. PutFacts(p[2], Cap2, k, v, l2, o)
    BY <1>1, <1>2, <2>1, PutEffect
  <2>3. QED
    BY <2>2 DEF PutFacts
<1>5. BucketOK(n) /\ n[1] = l1 /\ n[2] = l2
  BY <1>2, <1>3, <1>4, PairOK DEF BucketOK
<1>6. QED
  BY <1>1, <1>2, <1>3, <1>4, <1>5, ReportOne DEF Promotes

\* Set: a value pushed out of level 1 is the one level 2 has from then on.
Sets(p, n, k, v, rep) ==
  /\ \A w : Holds(n[1], k, w) <=> w = v
  /\ \A j, w : Holds(n[1], j, w) /\ j # k => Holds(p[1], j, w)
  /\ \A j, w : Holds(p[1], j, w) /\ j # k /\ ~Holds(n[1], j, w) =>
                 \A x : Holds(n[2], j, x) <=> x = w
  /\ \A j, w : Holds(n[2], j, w) => Holds(p[2], j, w) \/ Holds(p[1], j, w)
  /\ \A j, w : Holds(p[2], j, w) /\ ~Holds(n[2], j, w) =>
                 (\E u : Holds(p[1], j, u)) \/ <<j, w.val>> \in rep

LEMMA SetEffect ==
  ASSUME NEW p, BucketOK(p), NEW k \in Keys, NEW v \in ValueType,
         NEW ev, ev = PutOut(p[1], Cap1, k),
         NEW n, n = <<PutList(p[1], Cap1, k, v),
                      IF ev = <<>> THEN p[2] ELSE PutList(p[2], Cap2, ev[1].k, ev[1].v)>>,
         NEW rep, rep = IF ev = <<>> THEN {} ELSE Report(PutOut(p[2], Cap2, ev[1].k))
  PROVE  BucketOK(n) /\ Sets(p, n, k, v, rep)
<1>1. PICK l1, l2 : /\ l1 = PutList(p[1], Cap1, k, v)
                    /\ l2 = IF ev = <<>> THEN p[2] ELSE PutList(p[2], Cap2, ev[1].k, ev[1].v)
  OBVIOUS
<1>2. /\ LevelOK(l1) /\ Len(l1) <= Cap1 /\ TombstonesLast(l1)
      /\ \A w : Holds(l1, k, w) <=> w = v
      /\ \A j, w : Holds(l1, j, w) /\ j # k => Holds(p[1], j, w)
      /\ \A j, w : Holds(p[1], j, w) /\ j # k /\ ~Holds(l1, j, w) => ev = <<Entry(j, w)>>
      /\ ev # <<>> => \E j \in Keys, w \in ValueType :
                        ev = <<Entry(j, w)>> /\ Holds(p[1], j, w) /\ j # k
  <2>1. /\ LevelOK(p[1]) /\ Len(p[1]) <= Cap1 /\ Cap1 \in Nat \ {0}
        /\ TombstonesLast(p[1])
    BY LRU2Assumption DEF BucketOK
  <2>2. PutFacts(p[1], Cap1, k, v, l1, ev)
    BY <1>1, <2>1, PutEffect
  <2>3. QED
    BY <2>1, <2>2 DEF PutFacts
<1>3. CASE ev = <<>>
  <2>1. l2 = p[2]
    BY <1>1, <1>3
  <2>2. BucketOK(n) /\ n[1] = l1 /\ n[2] = l2
    BY <1>1, <1>2, <2>1, PairOK DEF BucketOK
  <2>3. \A j, w : ev # <<Entry(j, w)>>
    BY <1>3
  <2>4. QED
    BY <1>2, <2>1, <2>2, <2>3 DEF Sets
<1>4. CASE ev # <<>>
  <2>1. PICK m \in Keys, y \in ValueType : ev = <<Entry(m, y)>> /\ Holds(p[1], m, y) /\ m # k
    BY <1>2, <1>4
  <2>2. ev[1].k = m /\ ev[1].v = y
    BY <2>1 DEF Entry
  <2>3. PICK o : o = PutOut(p[2], Cap2, m)
    OBVIOUS
  <2>4. l2 = PutList(p[2], Cap2, m, y) /\ rep = Report(o)
    BY <1>1, <1>4, <2>2, <2>3
  <2>5. /\ LevelOK(l2) /\ Len(l2) <= Cap2
        /\ \A w : Holds(l2, m, w) <=> w = y
        /\ \A j, w : Holds(l2, j, w) /\ j # m => Holds(p[2], j, w)
        /\ \A j, w : Holds(p[2], j, w) /\ j # m /\ ~Holds(l2, j, w) => o = <<Entry(j, w)>>
    <3>1. LevelOK(p[2]) /\ Len(p[2]) <= Cap2 /\ Cap2 \in Nat \ {0}
      BY LRU2Assumption DEF BucketOK
    <3>2. PutFacts(p[2], Cap2, m, y, l2, o)
      BY <2>3, <2>4, <3>1, PutEffect
    <3>3. QED
      BY <3>2 DEF PutFacts
  <2>6. BucketOK(n) /\ n[1] = l1 /\ n[2] = l2
    BY <1>1, <1>2, <2>5, PairOK DEF BucketOK
  <2>7. \A j, w : Holds(p[1], j, w) /\ j # k /\ ~Holds(l1, j, w) => j = m /\ w = y
    <3>1. \A j, w : ev = <<Entry(j, w)>> => j = m /\ w = y
      BY <2>1 DEF Entry
    <3>2. QED
      BY <1>2, <3>1
  <2>8. \A j, w : Holds(l2, j, w) => Holds(p[2], j, w) \/ Holds(p[1], j, w)
    BY <2>1, <2>5
  <2>9. \A j, w : Holds(p[2], j, w) /\ ~Holds(l2, j, w) =>
                    (\E u : Holds(p[1], j, u)) \/ <<j, w.val>> \in rep
    BY <2>1, <2>4, <2>5, ReportOne
  <2>10. QED
    BY <1>2, <2>5, <2>6, <2>7, <2>8, <2>9 DEF Sets
<1>5. QED
  BY <1>3, <1>4

\* delete reports the value of level 1, or else that of level 2.
LEMMA DeleteReportOf ==
  ASSUME NEW p, BucketOK(p), NEW k, NEW w,
         Holds(p[1], k, w) \/ (Holds(p[2], k, w) /\ \A u : ~Holds(p[1], k, u))
  PROVE  <<k, w.val>> \in DeleteReport(p, k)
<1>1. LevelOK(p[1]) /\ LevelOK(p[2])
  BY DEF BucketOK
<1>2. CASE Holds(p[1], k, w)
  <2>1. Live(p[1], k) /\ DelOut(p[1], k)[1].v = w
    <3>1. Live(p[1], k)
      BY <1>1, <1>2, LiveHolds
    <3>2. Holds(p[1], k, DelOut(p[1], k)[1].v)
      BY <1>1, <3>1, DelOutOf
    <3>3. QED
      BY <1>1, <1>2, <3>1, <3>2, HoldsOne
  <2>2. <<k, w.val>> \in Report(DelOut(p[1], k))
    BY <1>1, <2>1, DelOutOf
  <2>3. QED
    BY <2>1, <2>2 DEF DeleteReport
<1>3. CASE Holds(p[2], k, w) /\ \A u : ~Holds(p[1], k, u)
  <2>1. Live(p[2], k) /\ DelOut(p[2], k)[1].v = w /\ ~Live(p[1], k)
    <3>1. Live(p[2], k) /\ ~Live(p[1], k)
      BY <1>1, <1>3, LiveHolds
    <3>2. Holds(p[2], k, DelOut(p[2], k)[1].v)
      BY <1>1, <3>1, DelOutOf
    <3>3. QED
      BY <1>1, <1>3, <3>1, <3>2, HoldsOne
  <2>2. <<k, w.val>> \in Report(DelOut(p[2], k))
    BY <1>1, <2>1, DelOutOf
  <2>3. QED
    BY <2>1, <2>2 DEF DeleteReport
<1>4. QED
  BY <1>2, <1>3

-----------------------------------------------------------------------------
(* The inductive invariant *)

\* A value in level 1 is the latest one.  One in level 2 that is not the latest
\* is behind a value in level 1, unless the latest one's time is over.
KeyOK(levels, k, val, exp, now) ==
  /\ \A w : Holds(levels[1], k, w) => w.val = val /\ w.exp = exp
  /\ \A w : Holds(levels[2], k, w) =>
              w.val = val \/ now >= exp \/ \E u : Holds(levels[1], k, u)

Held(levels, k) == \E w : Holds(levels[1], k, w) \/ Holds(levels[2], k, w)

Types ==
  /\ lv \in [Buckets -> Lists \X Lists]
  /\ clock \in 0..MaxTime
  /\ cleanup \in [next : 0..NBuckets, now : 0..MaxTime]
  /\ clear \in [next : 0..(NBuckets + 1), keys : SUBSET Keys, since : SUBSET Keys,
               calls : 0..MaxClears]
  /\ latest \in [Keys -> Values \cup {None}]
  /\ until \in [Keys -> Nat]

BucketsOK == \A b \in Buckets : BucketOK(lv[b])

KeysOK == \A k \in Keys : KeyOK(lv[Bucket[k]], k, latest[k], until[k], clock)

\* A Clear has collected every key of the buckets it has walked, or the key has
\* been set since it began.
Collected ==
  clear.next # 0 =>
    \A k \in Keys : Bucket[k] < clear.next /\ Held(lv[Bucket[k]], k)
                      => k \in clear.keys \cup clear.since

\* A cleanup pass uses a time that is not ahead of the clock.
CleanupTime == cleanup.now <= clock

StoreInv == Types /\ BucketsOK /\ KeysOK /\ Collected /\ CleanupTime

-----------------------------------------------------------------------------
(* What a step may do to the values of a key that it does not set *)

\* Values only go down a level; a value that leaves level 1 takes the place of
\* the one in level 2, or its time is over.
Moves(p, n, k, now) ==
  /\ \A w : Holds(n[1], k, w) => Holds(p[1], k, w)
  /\ \A w : Holds(n[2], k, w) => Holds(p[1], k, w) \/ Holds(p[2], k, w)
  /\ \A u, w : Holds(p[1], k, u) /\ ~Holds(n[1], k, u) /\ Holds(n[2], k, w)
                 => w = u \/ now >= u.exp

LEMMA MovesKeepKey ==
  ASSUME NEW p, NEW n, NEW k, NEW val, NEW exp \in Nat, NEW now \in Nat, NEW later \in Nat,
         now <= later, KeyOK(p, k, val, exp, now), Moves(p, n, k, now)
  PROVE  KeyOK(n, k, val, exp, later)
<1>1. \A w : Holds(n[1], k, w) => w.val = val /\ w.exp = exp
  BY DEF KeyOK, Moves
<1>2. ASSUME NEW w, Holds(n[2], k, w)
      PROVE  w.val = val \/ later >= exp \/ \E u : Holds(n[1], k, u)
  <2>1. CASE \E u : Holds(p[1], k, u)
    <3>1. PICK u : Holds(p[1], k, u)
      BY <2>1
    <3>2. u.val = val /\ u.exp = exp
      BY <3>1 DEF KeyOK
    <3>3. CASE ~Holds(n[1], k, u)
      <4>1. w = u \/ now >= u.exp
        BY <1>2, <3>1, <3>3 DEF Moves
      <4>2. QED
        BY <3>2, <4>1
    <3>4. QED
      BY <3>3
  <2>2. CASE ~\E u : Holds(p[1], k, u)
    <3>1. Holds(p[2], k, w)
      BY <1>2, <2>2 DEF Moves
    <3>2. w.val = val \/ now >= exp
      BY <2>2, <3>1 DEF KeyOK
    <3>3. QED
      BY <3>2
  <2>3. QED
    BY <2>1, <2>2
<1>3. QED
  BY <1>1, <1>2 DEF KeyOK

LEMMA MovesHeld ==
  ASSUME NEW p, NEW n, NEW k, NEW now, Moves(p, n, k, now), Held(n, k)
  PROVE  Held(p, k)
BY DEF Moves, Held

LEMMA SameMoves ==
  ASSUME NEW p, NEW k, NEW now
  PROVE  Moves(p, p, k, now)
BY DEF Moves

LEMMA WithoutMoves ==
  ASSUME NEW p, NEW n, NEW gone, Without(p, n, gone), NEW k, NEW now
  PROVE  Moves(p, n, k, now) /\ (k \in gone => ~Held(n, k))
BY DEF Moves, Without, Held

\* A bucket is replaced, the others stay.
LEMMA OneBucketStep ==
  ASSUME Types, BucketsOK, NEW b \in Buckets, NEW n, BucketOK(n), lv' = [lv EXCEPT ![b] = n]
  PROVE  /\ lv' \in [Buckets -> Lists \X Lists] /\ BucketsOK'
         /\ lv'[b] = n
         /\ \A c \in Buckets : c # b => lv'[c] = lv[c]
<1>1. lv' \in [Buckets -> Lists \X Lists] /\ lv'[b] = n
      /\ \A c \in Buckets : c # b => lv'[c] = lv[c]
  BY DEF Types, BucketOK
<1>2. BucketsOK'
  BY <1>1 DEF BucketsOK, Buckets
<1>3. QED
  BY <1>1, <1>2

\* A step that sets no key and changes one bucket.
LEMMA MovingStep ==
  ASSUME StoreInv, NEW b \in Buckets, NEW n, BucketOK(n), lv' = [lv EXCEPT ![b] = n],
         \A k \in Keys : Moves(lv[b], n, k, clock),
         UNCHANGED <<clock, clear, latest, until>>,
         cleanup' \in [next : 0..NBuckets, now : 0..MaxTime], cleanup'.now <= clock
  PROVE  StoreInv'
<1>1. /\ lv' \in [Buckets -> Lists \X Lists] /\ BucketsOK' /\ lv'[b] = n
      /\ \A c \in Buckets : c # b => lv'[c] = lv[c]
  BY OneBucketStep DEF StoreInv
<1>2. \A k \in Keys : Bucket[k] \in Buckets
  BY LRU2Assumption DEF Buckets
<1>3. \A k \in Keys : Moves(lv[Bucket[k]], lv'[Bucket[k]], k, clock)
  BY <1>1, <1>2, SameMoves
<1>4. Types'
  BY <1>1 DEF StoreInv, Types, Buckets
<1>5. clock \in Nat /\ clock' = clock /\ clock <= clock /\ \A k \in Keys : until[k] \in Nat
  BY LRU2Assumption DEF StoreInv, Types
<1>6. KeysOK'
  <2> SUFFICES ASSUME NEW k \in Keys
               PROVE  KeyOK(lv'[Bucket[k]], k, latest'[k], until'[k], clock')
    BY DEF KeysOK
  <2>1. KeyOK(lv[Bucket[k]], k, latest[k], until[k], clock)
    BY DEF StoreInv, KeysOK
  <2>2. KeyOK(lv'[Bucket[k]], k, latest[k], until[k], clock)
    BY <1>3, <1>5, <2>1, MovesKeepKey
  <2>3. QED
    BY <2>2
<1>7. Collected'
  BY <1>3, MovesHeld DEF StoreInv, Collected
<1>8. QED
  BY <1>1, <1>4, <1>6, <1>7 DEF StoreInv, CleanupTime

-----------------------------------------------------------------------------
(* What the actions do to the buckets *)

LEMMA PairExcept ==
  ASSUME NEW p \in Lists \X Lists, NEW x
  PROVE  [p EXCEPT ![1] = x] = <<x, p[2]>> /\ [p EXCEPT ![2] = x] = <<p[1], x>>
OBVIOUS

LEMMA BucketOf ==
  ASSUME StoreInv, NEW k \in Keys
  PROVE  /\ Bucket[k] \in Buckets /\ BucketOK(lv[Bucket[k]])
         /\ lv[Bucket[k]] \in Lists \X Lists
         /\ LevelOK(lv[Bucket[k]][1]) /\ LevelOK(lv[Bucket[k]][2])
BY LRU2Assumption DEF StoreInv, BucketsOK, Buckets, BucketOK

Drops(p, n, k, now) ==
  /\ \E v : Holds(p[1], k, v) /\ Over(v, now)
  /\ \A j, w : Holds(n[1], j, w) <=> Holds(p[1], j, w) /\ j # k
  /\ \A j, w : Holds(n[2], j, w) <=> Holds(p[2], j, w)

LEMMA GetExpiredEffect ==
  ASSUME StoreInv, NEW k \in Keys, GetExpired(k)
  PROVE  \E n : /\ BucketOK(n) /\ lv' = [lv EXCEPT ![Bucket[k]] = n]
                /\ Drops(lv[Bucket[k]], n, k, clock)
<1>1. PICK b, p, l1 : b = Bucket[k] /\ p = lv[b] /\ l1 = DelList(p[1], k)
  OBVIOUS
<1>2. BucketOK(p) /\ p \in Lists \X Lists /\ LevelOK(p[1]) /\ b \in Buckets
  BY <1>1, BucketOf
<1>3. /\ LevelOK(l1) /\ Len(l1) = Len(p[1]) /\ TombstonesLast(l1)
      /\ \A j, w : Holds(l1, j, w) <=> Holds(p[1], j, w) /\ j # k
  BY <1>1, <1>2, DelEffect DEF BucketOK
<1>4. PICK n : n = <<l1, p[2]>>
  OBVIOUS
<1>5. BucketOK(n) /\ n[1] = l1 /\ n[2] = p[2]
  BY <1>2, <1>3, <1>4, PairOK DEF BucketOK
<1>6. Live(p[1], k) /\ Expired(DelOut(p[1], k)[1], clock)
  BY <1>1 DEF GetExpired
<1>7. Holds(p[1], k, DelOut(p[1], k)[1].v) /\ Over(DelOut(p[1], k)[1].v, clock)
  BY <1>2, <1>6, DelOutOf DEF Expired, Over
<1>8. lv' = [lv EXCEPT ![b] = n]
  <2>1. lv' = [lv EXCEPT ![b] = [lv[b] EXCEPT ![1] = DelList(lv[b][1], k)]]
    BY <1>1 DEF GetExpired
  <2>2. QED
    BY <1>1, <1>2, <1>4, <2>1, PairExcept
<1>9. Drops(p, n, k, clock)
  BY <1>3, <1>5, <1>7 DEF Drops
<1>10. QED
  BY <1>1, <1>5, <1>8, <1>9

LEMMA GetLevel1Effect ==
  ASSUME StoreInv, NEW k \in Keys, GetLevel1(k)
  PROVE  \E n, v : /\ BucketOK(n) /\ lv' = [lv EXCEPT ![Bucket[k]] = n]
                   /\ Promotes(lv[Bucket[k]], n, k, v, evicted')
                   /\ ~Over(v, clock) /\ got' = v.val
<1>1. PICK b, p, v : b = Bucket[k] /\ p = lv[b] /\ v = DelOut(p[1], k)[1].v
  OBVIOUS
<1>2. BucketOK(p) /\ b \in Buckets
  BY <1>1, BucketOf
<1>3. PICK n : n = <<DelList(p[1], k), PutList(p[2], Cap2, k, v)>>
  OBVIOUS
<1>4. /\ Live(p[1], k) /\ ~Over(v, clock) /\ got' = v.val
      /\ evicted' = Report(PutOut(p[2], Cap2, k)) /\ lv' = [lv EXCEPT ![b] = n]
  BY <1>1, <1>3 DEF GetLevel1, Expired, Over
<1>5. BucketOK(n) /\ Promotes(p, n, k, v, evicted')
  BY <1>1, <1>2, <1>3, <1>4, PromoteEffect
<1>6. QED
  BY <1>1, <1>4, <1>5

Reorders(p, n) ==
  /\ \A j, w : Holds(n[1], j, w) <=> Holds(p[1], j, w)
  /\ \A j, w : Holds(n[2], j, w) <=> Holds(p[2], j, w)

LEMMA GetLevel2Effect ==
  ASSUME StoreInv, NEW k \in Keys, GetLevel2(k)
  PROVE  \E n : /\ BucketOK(n) /\ lv' = [lv EXCEPT ![Bucket[k]] = n]
                /\ Reorders(lv[Bucket[k]], n)
<1>1. PICK b, p, l2 : b = Bucket[k] /\ p = lv[b] /\ l2 = GetList(p[2], k)
  OBVIOUS
<1>2. BucketOK(p) /\ p \in Lists \X Lists /\ LevelOK(p[2]) /\ b \in Buckets
  BY <1>1, BucketOf
<1>3. LevelOK(l2) /\ Len(l2) = Len(p[2]) /\ Entries(l2) = Entries(p[2])
  BY <1>1, <1>2, GetEffect
<1>4. PICK n : n = <<p[1], l2>>
  OBVIOUS
<1>5. BucketOK(n) /\ n[1] = p[1] /\ n[2] = l2
  BY <1>2, <1>3, <1>4, PairOK DEF BucketOK
<1>6. lv' = [lv EXCEPT ![b] = n]
  <2>1. lv' = [lv EXCEPT ![b] = [lv[b] EXCEPT ![2] = GetList(lv[b][2], k)]]
    BY <1>1 DEF GetLevel2
  <2>2. QED
    BY <1>1, <1>2, <1>4, <2>1, PairExcept
<1>7. Reorders(p, n)
  BY <1>3, <1>5 DEF Reorders, Holds
<1>8. QED
  BY <1>1, <1>5, <1>6, <1>7

LEMMA SetCallEffect ==
  ASSUME StoreInv, NEW k \in Keys, NEW val \in Values, NEW ttl \in TTLs, NEW t0 \in 0..clock,
         SetWithExpiration(k, val, ttl, t0)
  PROVE  \E n, v : /\ BucketOK(n) /\ lv' = [lv EXCEPT ![Bucket[k]] = n]
                   /\ v = [val |-> val, exp |-> IF ttl > 0 THEN t0 + ttl ELSE noExpiration]
                   /\ v \in ValueType
                   /\ Sets(lv[Bucket[k]], n, k, v, evicted')
<1>1. PICK b, p, v, ev :
        /\ b = Bucket[k] /\ p = lv[b]
        /\ v = [val |-> val, exp |-> IF ttl > 0 THEN t0 + ttl ELSE noExpiration]
        /\ ev = PutOut(p[1], Cap1, k)
  OBVIOUS
<1>2. BucketOK(p) /\ b \in Buckets
  BY <1>1, BucketOf
<1>3. v \in ValueType
  <2>1. t0 \in Nat /\ ttl \in Nat /\ noExpiration \in Nat
    BY LRU2Assumption DEF StoreInv, Types, noExpiration
  <2>2. QED
    BY <1>1, <2>1 DEF ValueType
<1>4. PICK n : n = <<PutList(p[1], Cap1, k, v),
                     IF ev = <<>> THEN p[2] ELSE PutList(p[2], Cap2, ev[1].k, ev[1].v)>>
  OBVIOUS
<1>5. /\ lv' = [lv EXCEPT ![b] = n]
      /\ evicted' = IF ev = <<>> THEN {} ELSE Report(PutOut(p[2], Cap2, ev[1].k))
  BY <1>1, <1>4 DEF SetWithExpiration
<1>6. BucketOK(n) /\ Sets(p, n, k, v, evicted')
  BY <1>1, <1>2, <1>3, <1>4, <1>5, SetEffect
<1>7. QED
  BY <1>1, <1>3, <1>5, <1>6

LEMMA DeleteEffect ==
  ASSUME StoreInv, NEW k \in Keys, Delete(k)
  PROVE  \E n : /\ BucketOK(n) /\ lv' = [lv EXCEPT ![Bucket[k]] = n]
                /\ Without(lv[Bucket[k]], n, {k})
<1>1. PICK b, p, n : b = Bucket[k] /\ p = lv[b] /\ n = DeleteLevels(p, k)
  OBVIOUS
<1>2. BucketOK(p)
  BY <1>1, BucketOf
<1>3. BucketOK(n) /\ Without(p, n, {k})
  BY <1>1, <1>2, DeleteLevelsEffect
<1>4. QED
  BY <1>1, <1>3 DEF Delete

Cleans(p, n, keys, now) ==
  /\ BucketOK(p) /\ BucketOK(n)
  /\ keys \in Seq(Keys) /\ Without(p, n, ToSet(keys))
  /\ \A j : j \in ToSet(keys) <=>
              \E w : (Holds(p[1], j, w) \/ Holds(p[2], j, w)) /\ Over(w, now)

CleanReport(p, keys) == UNION {DeleteReport(p, keys[i]) : i \in DOMAIN keys}

LEMMA CleanupBucketEffect ==
  ASSUME StoreInv, NEW b, b = cleanup.next, CleanupBucket
  PROVE  /\ b \in Buckets
         /\ \E n, keys :
              /\ lv' = [lv EXCEPT ![b] = n] /\ Cleans(lv[b], n, keys, cleanup.now)
              /\ evicted' = CleanReport(lv[b], keys)
<1>1. PICK p, keys, n :
        p = lv[b] /\ keys = ExpiredKeys(p, cleanup.now) /\ n = DeleteAll(p, keys)
  OBVIOUS
<1>2. /\ b \in Buckets /\ lv' = [lv EXCEPT ![b] = n]
      /\ evicted' = CleanReport(p, keys)
  BY <1>1 DEF CleanupBucket, CleanReport
<1>3. BucketOK(p)
  BY <1>1, <1>2 DEF StoreInv, BucketsOK
<1>4. /\ keys \in Seq(Keys)
      /\ \A j : j \in ToSet(keys) <=>
                  \E w : (Holds(p[1], j, w) \/ Holds(p[2], j, w)) /\ Over(w, cleanup.now)
  BY <1>1, <1>3, ExpiredKeysOf
<1>5. BucketOK(n) /\ Without(p, n, ToSet(keys))
  BY <1>1, <1>3, <1>4, DeleteAllEffect
<1>6. Cleans(p, n, keys, cleanup.now)
  BY <1>3, <1>4, <1>5 DEF Cleans
<1>7. QED
  BY <1>1, <1>2, <1>6

-----------------------------------------------------------------------------
(* Every step keeps the invariant *)

LEMMA InitInv ==
  ASSUME Init
  PROVE  StoreInv
<1>1. \A k, w : ~Holds(<<>>, k, w)
  BY DEF Holds, Entries
<1>2. LevelOK(<<>>) /\ Len(<<>>) = 0 /\ TombstonesLast(<<>>)
  BY DEF LevelOK, Lists, Distinct, TombstonesLast
<1>3. PICK p : p = <<<<>>, <<>>>>
  OBVIOUS
<1>4. BucketOK(p) /\ p[1] = <<>> /\ p[2] = <<>> /\ p \in Lists \X Lists
  BY <1>2, <1>3, PairOK, LRU2Assumption DEF BucketOK
<1>5. lv = [b \in Buckets |-> p]
  BY <1>3 DEF Init
<1>6. \A k \in Keys : Bucket[k] \in Buckets /\ lv[Bucket[k]] = p
  BY <1>5, LRU2Assumption DEF Buckets
<1>7. Types
  <2>1. noExpiration \in Nat
    BY LRU2Assumption DEF noExpiration
  <2>2. lv \in [Buckets -> Lists \X Lists]
    BY <1>4, <1>5
  <2>3. QED
    BY <2>1, <2>2, LRU2Assumption DEF Init, Types
<1>8. BucketsOK
  BY <1>4, <1>5 DEF BucketsOK
<1>9. KeysOK
  BY <1>1, <1>4, <1>6 DEF KeysOK, KeyOK
<1>10. Collected /\ CleanupTime
  BY DEF Init, Collected, CleanupTime
<1>11. QED
  BY <1>7, <1>8, <1>9, <1>10 DEF StoreInv

LEMMA GetInv ==
  ASSUME StoreInv, NEW k \in Keys, Get(k)
  PROVE  StoreInv'
<1>1. PICK b, p : b = Bucket[k] /\ p = lv[b] /\ b \in Buckets /\ BucketOK(p)
  BY BucketOf
<1>2. /\ UNCHANGED <<clock, cleanup, clear, latest, until>>
      /\ cleanup' \in [next : 0..NBuckets, now : 0..MaxTime] /\ cleanup'.now <= clock
  BY DEF Get, GetExpired, GetLevel1, GetLevel2, StoreInv, Types, CleanupTime
<1>3. PICK n : /\ BucketOK(n) /\ lv' = [lv EXCEPT ![b] = n]
               /\ \A j \in Keys : Moves(p, n, j, clock)
  <2>1. CASE GetExpired(k)
    <3>1. PICK n : BucketOK(n) /\ lv' = [lv EXCEPT ![b] = n] /\ Drops(p, n, k, clock)
      BY <1>1, <2>1, GetExpiredEffect
    <3>2. PICK v : Holds(p[1], k, v) /\ Over(v, clock)
      BY <3>1 DEF Drops
    <3>3. LevelOK(p[1]) /\ clock >= v.exp
      BY <1>1, <3>2 DEF BucketOK, Over
    <3>4. \A u : Holds(p[1], k, u) => u = v
      BY <3>2, <3>3, HoldsOne
    <3>5. \A j \in Keys : Moves(p, n, j, clock)
      BY <3>1, <3>3, <3>4 DEF Drops, Moves
    <3>6. QED
      BY <3>1, <3>5
  <2>2. CASE GetLevel1(k)
    <3>1. PICK n, v : BucketOK(n) /\ lv' = [lv EXCEPT ![b] = n] /\ Promotes(p, n, k, v, evicted')
      BY <1>1, <2>2, GetLevel1Effect
    <3>2. LevelOK(p[1]) /\ Holds(p[1], k, v)
      BY <1>1, <3>1 DEF BucketOK, Promotes
    <3>3. \A u : Holds(p[1], k, u) => u = v
      BY <3>2, HoldsOne
    <3>4. \A j \in Keys : Moves(p, n, j, clock)
      BY <3>1, <3>2, <3>3 DEF Promotes, Moves
    <3>5. QED
      BY <3>1, <3>4
  <2>3. CASE GetLevel2(k)
    <3>1. PICK n : BucketOK(n) /\ lv' = [lv EXCEPT ![b] = n] /\ Reorders(p, n)
      BY <1>1, <2>3, GetLevel2Effect
    <3>2. \A j \in Keys : Moves(p, n, j, clock)
      BY <3>1 DEF Reorders, Moves
    <3>3. QED
      BY <3>1, <3>2
  <2>4. QED
    BY <2>1, <2>2, <2>3 DEF Get
<1>4. QED
  BY <1>1, <1>2, <1>3, MovingStep

LEMMA SetInv ==
  ASSUME StoreInv, NEW k \in Keys, SetCall(k)
  PROVE  StoreInv'
<1>1. PICK val \in Values, ttl \in TTLs, t0 \in 0..clock : SetWithExpiration(k, val, ttl, t0)
  BY DEF SetCall
<1>2. PICK b, p : b = Bucket[k] /\ p = lv[b] /\ b \in Buckets /\ BucketOK(p)
  BY BucketOf
<1>3. PICK n, v : /\ BucketOK(n) /\ lv' = [lv EXCEPT ![b] = n] /\ Sets(p, n, k, v, evicted')
                  /\ v = [val |-> val, exp |-> IF ttl > 0 THEN t0 + ttl ELSE noExpiration]
                  /\ v \in ValueType
  BY <1>1, <1>2, SetCallEffect
<1>4. v.val = val /\ v.exp \in Nat
  BY <1>3 DEF ValueType
<1>5. /\ latest' = [latest EXCEPT ![k] = v.val] /\ until' = [until EXCEPT ![k] = v.exp]
      /\ clear' = [clear EXCEPT !.since = IF clear.next = 0 THEN {} ELSE clear.since \cup {k}]
      /\ UNCHANGED <<clock, cleanup>>
  BY <1>1, <1>3, <1>4 DEF SetWithExpiration
<1>6. /\ lv' \in [Buckets -> Lists \X Lists] /\ BucketsOK' /\ lv'[b] = n
      /\ \A c \in Buckets : c # b => lv'[c] = lv[c]
  BY <1>2, <1>3, OneBucketStep DEF StoreInv
<1>7. \A j \in Keys : Bucket[j] \in Buckets
  BY LRU2Assumption DEF Buckets
<1>8. \A j \in Keys : j # k => Moves(lv[Bucket[j]], lv'[Bucket[j]], j, clock)
  <2>1. \A j \in Keys : j # k => Moves(p, n, j, clock)
    BY <1>3 DEF Sets, Moves
  <2>2. QED
    BY <1>2, <1>6, <1>7, <2>1, SameMoves
<1>9. Types'
  <2>1. v.val \in Values
    BY <1>4
  <2>2. latest' \in [Keys -> Values \cup {None}] /\ until' \in [Keys -> Nat]
    BY <1>4, <1>5, <2>1 DEF StoreInv, Types
  <2>3. clear' \in [next : 0..(NBuckets + 1), keys : SUBSET Keys, since : SUBSET Keys,
                    calls : 0..MaxClears]
    BY <1>5 DEF StoreInv, Types
  <2>4. QED
    BY <1>5, <1>6, <2>2, <2>3 DEF StoreInv, Types, Buckets
<1>10. KeysOK'
  <2> SUFFICES ASSUME NEW j \in Keys
               PROVE  KeyOK(lv'[Bucket[j]], j, latest'[j], until'[j], clock')
    BY DEF KeysOK
  <2>1. CASE j = k
    <3>1. lv'[Bucket[j]] = n /\ latest'[j] = v.val /\ until'[j] = v.exp
      BY <1>2, <1>5, <1>6, <2>1 DEF StoreInv, Types
    <3>2. KeyOK(n, k, v.val, v.exp, clock')
      BY <1>3 DEF Sets, KeyOK
    <3>3. QED
      BY <2>1, <3>1, <3>2
  <2>2. CASE j # k
    <3>1. KeyOK(lv[Bucket[j]], j, latest[j], until[j], clock)
      BY DEF StoreInv, KeysOK
    <3>2. clock \in Nat /\ clock <= clock /\ until[j] \in Nat
      BY LRU2Assumption DEF StoreInv, Types
    <3>3. KeyOK(lv'[Bucket[j]], j, latest[j], until[j], clock)
      BY <1>8, <2>2, <3>1, <3>2, MovesKeepKey
    <3>4. latest'[j] = latest[j] /\ until'[j] = until[j] /\ clock' = clock
      BY <1>5, <2>2 DEF StoreInv, Types
    <3>5. QED
      BY <3>3, <3>4
  <2>3. QED
    BY <2>1, <2>2
<1>11. Collected'
  <2> SUFFICES ASSUME clear'.next # 0, NEW j \in Keys, Bucket[j] < clear'.next,
                      Held(lv'[Bucket[j]], j)
               PROVE  j \in clear'.keys \cup clear'.since
    BY DEF Collected
  <2>1. /\ clear'.next = clear.next /\ clear'.keys = clear.keys
        /\ clear'.since = IF clear.next = 0 THEN {} ELSE clear.since \cup {k}
    BY <1>5 DEF StoreInv, Types
  <2>2. CASE j = k
    BY <2>1, <2>2
  <2>3. CASE j # k
    <3>1. Held(lv[Bucket[j]], j)
      BY <1>8, <2>3, MovesHeld
    <3>2. QED
      BY <2>1, <3>1 DEF StoreInv, Collected
  <2>4. QED
    BY <2>2, <2>3
<1>12. QED
  BY <1>5, <1>6, <1>9, <1>10, <1>11 DEF StoreInv, CleanupTime

\* A deletion, by a caller or by Clear, which takes the key off its list.
LEMMA DeleteInv ==
  ASSUME StoreInv, NEW k \in Keys, Delete(k),
         clear' = clear \/ clear' = [clear EXCEPT !.keys = clear.keys \ {k}]
  PROVE  StoreInv'
<1>1. PICK b, p : b = Bucket[k] /\ p = lv[b] /\ b \in Buckets /\ BucketOK(p)
  BY BucketOf
<1>2. PICK n : BucketOK(n) /\ lv' = [lv EXCEPT ![b] = n] /\ Without(p, n, {k})
  BY <1>1, DeleteEffect
<1>3. /\ latest' = [latest EXCEPT ![k] = None] /\ until' = [until EXCEPT ![k] = noExpiration]
      /\ UNCHANGED <<clock, cleanup>>
  BY DEF Delete
<1>4. /\ lv' \in [Buckets -> Lists \X Lists] /\ BucketsOK' /\ lv'[b] = n
      /\ \A c \in Buckets : c # b => lv'[c] = lv[c]
  BY <1>1, <1>2, OneBucketStep DEF StoreInv
<1>5. \A j \in Keys : Bucket[j] \in Buckets
  BY LRU2Assumption DEF Buckets
<1>6. \A j \in Keys : Moves(lv[Bucket[j]], lv'[Bucket[j]], j, clock)
  <2>1. \A j \in Keys : Moves(p, n, j, clock)
    BY <1>2, WithoutMoves
  <2>2. QED
    BY <1>1, <1>4, <1>5, <2>1, SameMoves
<1>7. ~Held(lv'[Bucket[k]], k)
  BY <1>1, <1>2, <1>4, WithoutMoves
<1>8. Types'
  <2>1. noExpiration \in Nat
    BY LRU2Assumption DEF noExpiration
  <2>2. latest' \in [Keys -> Values \cup {None}] /\ until' \in [Keys -> Nat]
    BY <1>3, <2>1 DEF StoreInv, Types
  <2>3. clear' \in [next : 0..(NBuckets + 1), keys : SUBSET Keys, since : SUBSET Keys,
                    calls : 0..MaxClears]
    BY DEF StoreInv, Types
  <2>4. QED
    BY <1>3, <1>4, <2>2, <2>3 DEF StoreInv, Types, Buckets
<1>9. KeysOK'
  <2> SUFFICES ASSUME NEW j \in Keys
               PROVE  KeyOK(lv'[Bucket[j]], j, latest'[j], until'[j], clock')
    BY DEF KeysOK
  <2>1. CASE j = k
    BY <1>7, <2>1 DEF KeyOK, Held
  <2>2. CASE j # k
    <3>1. KeyOK(lv[Bucket[j]], j, latest[j], until[j], clock)
      BY DEF StoreInv, KeysOK
    <3>2. clock \in Nat /\ clock <= clock /\ until[j] \in Nat
      BY LRU2Assumption DEF StoreInv, Types
    <3>3. KeyOK(lv'[Bucket[j]], j, latest[j], until[j], clock)
      BY <1>6, <3>1, <3>2, MovesKeepKey
    <3>4. latest'[j] = latest[j] /\ until'[j] = until[j] /\ clock' = clock
      BY <1>3, <2>2 DEF StoreInv, Types
    <3>5. QED
      BY <3>3, <3>4
  <2>3. QED
    BY <2>1, <2>2
<1>10. Collected'
  <2> SUFFICES ASSUME clear'.next # 0, NEW j \in Keys, Bucket[j] < clear'.next,
                      Held(lv'[Bucket[j]], j)
               PROVE  j \in clear'.keys \cup clear'.since
    BY DEF Collected
  <2>1. /\ clear'.next = clear.next /\ clear'.since = clear.since
        /\ clear.keys \subseteq clear'.keys \cup {k}
    BY DEF StoreInv, Types
  <2>2. j # k
    BY <1>7
  <2>3. Held(lv[Bucket[j]], j)
    BY <1>6, MovesHeld
  <2>4. QED
    BY <2>1, <2>2, <2>3 DEF StoreInv, Collected
<1>11. QED
  BY <1>3, <1>4, <1>8, <1>9, <1>10 DEF StoreInv, CleanupTime

LEMMA CleanupBucketInv ==
  ASSUME StoreInv, CleanupBucket
  PROVE  StoreInv'
<1>1. PICK b : b = cleanup.next
  OBVIOUS
<1>2. b \in Buckets
  BY <1>1, CleanupBucketEffect
<1>3. PICK n, keys : lv' = [lv EXCEPT ![b] = n] /\ Cleans(lv[b], n, keys, cleanup.now)
  BY <1>1, CleanupBucketEffect
<1>4. BucketOK(n) /\ Without(lv[b], n, ToSet(keys))
  BY <1>3 DEF Cleans
<1>5. \A j \in Keys : Moves(lv[b], n, j, clock)
  BY <1>4, WithoutMoves
<1>6. /\ UNCHANGED <<clock, clear, latest, until>>
      /\ cleanup' = [cleanup EXCEPT !.next = IF b = NBuckets THEN 0 ELSE b + 1]
  BY <1>1 DEF CleanupBucket
<1>7. (IF b = NBuckets THEN 0 ELSE b + 1) \in 0..NBuckets
  BY <1>2, LRU2Assumption DEF Buckets
<1>8. cleanup' \in [next : 0..NBuckets, now : 0..MaxTime] /\ cleanup'.now <= clock
  BY <1>6, <1>7 DEF StoreInv, Types, CleanupTime
<1>9. QED
  BY <1>2, <1>3, <1>4, <1>5, <1>6, <1>8, MovingStep

\* A live entry is in the set of keys walk shows.
LEMMA LiveKeysHeld ==
  ASSUME NEW list, NEW k, NEW w, Holds(list, k, w)
  PROVE  k \in LiveKeys(list)
<1>1. PICK e : e = Entry(k, w)
  OBVIOUS
<1>2. e \in Entries(list) /\ ~e.deleted /\ e.k = k
  BY <1>1 DEF Holds, Entry
<1>3. QED
  BY <1>2 DEF LiveKeys

LEMMA LiveKeysType ==
  ASSUME NEW list, LevelOK(list)
  PROVE  LiveKeys(list) \subseteq Keys
<1>1. Entries(list) \subseteq EntryType
  BY LevelFacts
<1>2. \A e \in EntryType : e.k \in Keys
  BY DEF EntryType
<1>3. QED
  BY <1>1, <1>2 DEF LiveKeys

LEMMA ClearCollectInv ==
  ASSUME StoreInv, ClearCollect
  PROVE  StoreInv'
<1>1. PICK b, found : b = clear.next /\ found = LiveKeys(lv[b][1]) \cup LiveKeys(lv[b][2])
  OBVIOUS
<1>2. /\ b \in Buckets /\ UNCHANGED <<lv, clock, cleanup, latest, until>>
      /\ clear' = [clear EXCEPT !.next = b + 1, !.keys = clear.keys \cup found]
  BY <1>1 DEF ClearCollect
<1>3. found \subseteq Keys
  BY <1>1, <1>2, LiveKeysType DEF StoreInv, BucketsOK, BucketOK
<1>4. /\ clear'.next = b + 1 /\ clear'.keys = clear.keys \cup found
      /\ clear'.since = clear.since
      /\ clear' \in [next : 0..(NBuckets + 1), keys : SUBSET Keys, since : SUBSET Keys,
                     calls : 0..MaxClears]
  <2>1. b + 1 \in 0..(NBuckets + 1) /\ clear.keys \cup found \in SUBSET Keys
    BY <1>2, <1>3, LRU2Assumption DEF StoreInv, Types, Buckets
  <2>2. QED
    BY <1>2, <2>1 DEF StoreInv, Types
<1>5. Types' /\ BucketsOK' /\ KeysOK' /\ CleanupTime'
  BY <1>2, <1>4 DEF StoreInv, Types, BucketsOK, KeysOK, CleanupTime, Buckets
<1>6. Collected'
  <2> SUFFICES ASSUME NEW j \in Keys, Bucket[j] < b + 1, Held(lv[Bucket[j]], j)
               PROVE  j \in clear'.keys \cup clear'.since
    BY <1>2, <1>4 DEF Collected
  <2>1. Bucket[j] \in Nat /\ b \in Nat /\ b # 0
    BY <1>2, LRU2Assumption DEF Buckets
  <2>2. CASE Bucket[j] = b
    <3>1. j \in found
      BY <1>1, <2>2, LiveKeysHeld DEF Held
    <3>2. QED
      BY <1>4, <3>1
  <2>3. CASE Bucket[j] < b
    BY <1>1, <1>4, <2>1, <2>3 DEF StoreInv, Collected
  <2>4. QED
    BY <2>1, <2>2, <2>3
<1>7. QED
  BY <1>5, <1>6 DEF StoreInv

LEMMA NextInv ==
  ASSUME StoreInv, [Next]_vars
  PROVE  StoreInv'
<1>1. ASSUME NEW k \in Keys, Get(k) PROVE StoreInv'
  BY <1>1, GetInv
<1>2. ASSUME NEW k \in Keys, SetCall(k) PROVE StoreInv'
  BY <1>2, SetInv
<1>3. ASSUME NEW k \in Keys, DeleteCall(k) PROVE StoreInv'
  BY <1>3, DeleteInv DEF DeleteCall
<1>4. ASSUME NEW k \in Keys, ClearDelete(k) PROVE StoreInv'
  BY <1>4, DeleteInv DEF ClearDelete
<1>5. CASE ClearStart
  <2>1. clear' = [next |-> 1, keys |-> {}, since |-> {}, calls |-> clear.calls + 1]
        /\ clear.calls < MaxClears /\ UNCHANGED <<lv, clock, cleanup, latest, until>>
    BY <1>5 DEF ClearStart
  <2>2. clear.calls + 1 \in 0..MaxClears /\ 1 \in 0..(NBuckets + 1)
    BY <2>1, LRU2Assumption DEF StoreInv, Types
  <2>3. Types'
    BY <2>1, <2>2 DEF StoreInv, Types, Buckets
  <2>4. \A k \in Keys : ~(Bucket[k] < 1)
    BY LRU2Assumption
  <2>5. Collected'
    BY <2>1, <2>4 DEF Collected
  <2>6. QED
    BY <2>1, <2>3, <2>5 DEF StoreInv, BucketsOK, KeysOK, CleanupTime, Buckets
<1>6. CASE ClearCollect
  BY <1>6, ClearCollectInv
<1>7. CASE ClearEnd
  <2>1. clear' = [clear EXCEPT !.next = 0, !.since = {}]
        /\ UNCHANGED <<lv, clock, cleanup, latest, until>>
    BY <1>7 DEF ClearEnd
  <2>2. 0 \in 0..(NBuckets + 1)
    BY LRU2Assumption
  <2>3. Types' /\ clear'.next = 0
    BY <2>1, <2>2 DEF StoreInv, Types, Buckets
  <2>4. QED
    BY <2>1, <2>3 DEF StoreInv, BucketsOK, KeysOK, Collected, CleanupTime, Buckets
<1>8. CASE CleanupTick
  <2>1. cleanup' = [next |-> 1, now |-> clock] /\ UNCHANGED <<lv, clock, clear, latest, until>>
    BY <1>8 DEF CleanupTick
  <2>2. 1 \in 0..NBuckets /\ clock <= clock
    BY LRU2Assumption DEF StoreInv, Types
  <2>3. Types' /\ CleanupTime'
    BY <2>1, <2>2 DEF StoreInv, Types, CleanupTime, Buckets
  <2>4. QED
    BY <2>1, <2>3 DEF StoreInv, BucketsOK, KeysOK, Collected, Buckets
<1>9. CASE CleanupBucket
  BY <1>9, CleanupBucketInv
<1>10. CASE Close
  BY <1>10 DEF Close, StoreInv, Types, BucketsOK, KeysOK, Collected, CleanupTime, Buckets
<1>11. CASE ClockTick
  <2>1. clock' = clock + 1 /\ clock < MaxTime /\ UNCHANGED <<lv, cleanup, clear, latest, until>>
    BY <1>11 DEF ClockTick
  <2>2. clock \in Nat /\ clock' \in Nat /\ clock' \in 0..MaxTime /\ clock <= clock'
    BY <2>1, LRU2Assumption DEF StoreInv, Types
  <2>3. Types' /\ CleanupTime'
    BY <2>1, <2>2, LRU2Assumption DEF StoreInv, Types, CleanupTime, Buckets
  <2>4. KeysOK'
    <3> SUFFICES ASSUME NEW j \in Keys
                 PROVE  KeyOK(lv'[Bucket[j]], j, latest'[j], until'[j], clock')
      BY DEF KeysOK
    <3>1. KeyOK(lv[Bucket[j]], j, latest[j], until[j], clock) /\ until[j] \in Nat
      BY DEF StoreInv, Types, KeysOK
    <3>2. KeyOK(lv[Bucket[j]], j, latest[j], until[j], clock')
      BY <2>2, <3>1, SameMoves, MovesKeepKey
    <3>3. QED
      BY <2>1, <3>2
  <2>5. QED
    BY <2>1, <2>3, <2>4 DEF StoreInv, BucketsOK, Collected, Buckets
<1>12. CASE UNCHANGED vars
  BY <1>12 DEF vars, StoreInv, Types, BucketsOK, KeysOK, Collected, CleanupTime, Buckets
<1>13. QED
  BY <1>1, <1>2, <1>3, <1>4, <1>5, <1>6, <1>7, <1>8, <1>9, <1>10, <1>11, <1>12 DEF Next

\* The invariant of the two-level store: whatever the interleaving of calls,
\* Clear and cleanup, level 1 has the latest value of a key or none, and an older
\* one in level 2 is behind it until its time is over.
THEOREM StoreInvariant == Spec => []StoreInv
<1>1. Init => StoreInv
  BY InitInv
<1>2. StoreInv /\ [Next]_vars => StoreInv'
  BY NextInv
<1>3. QED
  BY <1>1, <1>2, PTL DEF Spec

\* Level 1 never shows a stale value (lru2.go 63-81 and 110-119).
THEOREM Level1HasLatest == Spec => []Level1IsLatest
<1>1. StoreInv => Level1IsLatest
  <2> SUFFICES ASSUME StoreInv, NEW k \in Keys, Live(lv[Bucket[k]][1], k)
               PROVE  lv[Bucket[k]][1][At(lv[Bucket[k]][1], k)].v.val = latest[k]
    BY DEF Level1IsLatest
  <2>1. Holds(lv[Bucket[k]][1], k, lv[Bucket[k]][1][At(lv[Bucket[k]][1], k)].v)
    BY BucketOf, LiveHolds
  <2>2. QED
    BY <2>1 DEF StoreInv, KeysOK, KeyOK
<1>2. QED
  BY <1>1, StoreInvariant, PTL

\* The levels are well typed and within their capacities, and in level 1 the
\* tombstones stay last (lru2.go 110, 272-287 and 319-324).
THEOREM TombstonesStayLast == Spec => []Level1TombstonesLast
<1>1. StoreInv => Level1TombstonesLast
  <2> SUFFICES ASSUME StoreInv PROVE Level1TombstonesLast
    OBVIOUS
  <2>1. ASSUME NEW b \in Buckets
        PROVE  /\ Entries(lv[b][1]) \subseteq EntryType /\ Len(lv[b][1]) <= Cap1
               /\ Entries(lv[b][2]) \subseteq EntryType /\ Len(lv[b][2]) <= Cap2
               /\ TombstonesLast(lv[b][1])
    <3>1. BucketOK(lv[b])
      BY DEF StoreInv, BucketsOK
    <3>2. LevelOK(lv[b][1]) /\ LevelOK(lv[b][2])
      BY <3>1 DEF BucketOK
    <3>3. Entries(lv[b][1]) \subseteq EntryType /\ Entries(lv[b][2]) \subseteq EntryType
      BY <3>2, LevelFacts
    <3>4. QED
      BY <3>1, <3>3 DEF BucketOK
  <2>2. TypeOK
    <3>1. ASSUME NEW b \in Buckets, NEW l \in 1..2
          PROVE  /\ Entries(lv[b][l]) \subseteq EntryType
                 /\ Len(lv[b][l]) <= IF l = 1 THEN Cap1 ELSE Cap2
      <4>1. l = 1 \/ l = 2
        OBVIOUS
      <4>2. QED
        BY <2>1, <4>1
    <3>2. DOMAIN lv = Buckets
      BY DEF StoreInv, Types
    <3>3. QED
      BY <3>1, <3>2 DEF TypeOK, StoreInv, Types
  <2>3. QED
    BY <2>1, <2>2 DEF Level1TombstonesLast, TombstonesLast
<1>2. QED
  BY <1>1, StoreInvariant, PTL

\* When Clear has deleted all it has collected, only keys set since it began are
\* left (lru2.go 134-155).
THEOREM ClearLeavesOnlyNew == Spec => []ClearForgets
<1>1. StoreInv => ClearForgets
  <2> SUFFICES ASSUME StoreInv, clear.next = NBuckets + 1, clear.keys = {},
                      NEW k \in Keys, NEW l \in 1..2, Live(lv[Bucket[k]][l], k)
               PROVE  k \in clear.since
    BY DEF ClearForgets
  <2>1. l = 1 \/ l = 2
    OBVIOUS
  <2>2. Held(lv[Bucket[k]], k)
    BY <2>1, BucketOf, LiveHolds DEF Held
  <2>3. clear.next # 0 /\ Bucket[k] < clear.next
    BY LRU2Assumption
  <2>4. QED
    BY <2>2, <2>3 DEF StoreInv, Collected
<1>2. QED
  BY <1>1, StoreInvariant, PTL

-----------------------------------------------------------------------------
(* What a Get would return *)

\* Lookup, of any bucket at any time.
Shown(levels, k, now) ==
  LET l == IF Live(levels[1], k) THEN 1 ELSE 2
  IN  IF Live(levels[l], k) /\ ~Expired(levels[l][At(levels[l], k)], now)
      THEN levels[l][At(levels[l], k)].v.val ELSE None

LEMMA LookupShown ==
  ASSUME NEW k \in Keys
  PROVE  /\ Lookup(k) = Shown(lv[Bucket[k]], k, clock)
         /\ Lookup(k)' = Shown(lv'[Bucket[k]], k, clock')
BY DEF Lookup, Shown

\* The value of level 1, or else that of level 2, unless its time is over.
LEMMA ShownIs ==
  ASSUME NEW p, BucketOK(p), NEW k, NEW now
  PROVE  /\ \A w : Holds(p[1], k, w) =>
                     Shown(p, k, now) = IF Over(w, now) THEN None ELSE w.val
         /\ \A w : Holds(p[2], k, w) /\ (\A u : ~Holds(p[1], k, u)) =>
                     Shown(p, k, now) = IF Over(w, now) THEN None ELSE w.val
         /\ ~Held(p, k) => Shown(p, k, now) = None
<1>1. LevelOK(p[1]) /\ LevelOK(p[2])
  BY DEF BucketOK
<1>2. ASSUME NEW w, Holds(p[1], k, w)
      PROVE  Shown(p, k, now) = IF Over(w, now) THEN None ELSE w.val
  <2>1. Live(p[1], k) /\ p[1][At(p[1], k)].v = w
    BY <1>1, <1>2, LiveHolds
  <2>2. QED
    BY <2>1 DEF Shown, Expired, Over
<1>3. ASSUME NEW w, Holds(p[2], k, w), \A u : ~Holds(p[1], k, u)
      PROVE  Shown(p, k, now) = IF Over(w, now) THEN None ELSE w.val
  <2>1. ~Live(p[1], k) /\ Live(p[2], k) /\ p[2][At(p[2], k)].v = w
    BY <1>1, <1>3, LiveHolds
  <2>2. QED
    BY <2>1 DEF Shown, Expired, Over
<1>4. ASSUME ~Held(p, k) PROVE Shown(p, k, now) = None
  <2>1. ~Live(p[1], k) /\ ~Live(p[2], k)
    BY <1>1, <1>4, LiveHolds DEF Held
  <2>2. QED
    BY <2>1 DEF Shown
<1>5. QED
  BY <1>2, <1>3, <1>4

\* A value that is shown is held, in level 2 only if level 1 has none.
LEMMA ShownHeld ==
  ASSUME NEW p, BucketOK(p), NEW k, NEW now, Shown(p, k, now) # None
  PROVE  \E w : /\ ~Over(w, now) /\ Shown(p, k, now) = w.val
                /\ Holds(p[1], k, w) \/ (Holds(p[2], k, w) /\ \A u : ~Holds(p[1], k, u))
<1>1. PICK w : Holds(p[1], k, w) \/ (Holds(p[2], k, w) /\ \A u : ~Holds(p[1], k, u))
  BY ShownIs DEF Held
<1>2. Shown(p, k, now) = IF Over(w, now) THEN None ELSE w.val
  BY <1>1, ShownIs
<1>3. QED
  BY <1>1, <1>2

\* Get shows a value older than the latest only once that one's time is over
\* (lru2.go 63-91 and 110-119).
THEOREM OnlyExpiredIsStale == Spec => []StaleOnlyAfterExpiry
<1>1. StoreInv => StaleOnlyAfterExpiry
  <2> SUFFICES ASSUME StoreInv, NEW k \in Keys, Lookup(k) # None
               PROVE  Lookup(k) = latest[k] \/ clock >= until[k]
    BY DEF StaleOnlyAfterExpiry
  <2>1. PICK p : p = lv[Bucket[k]] /\ BucketOK(p)
    BY BucketOf
  <2>2. PICK w : /\ Lookup(k) = w.val
                 /\ Holds(p[1], k, w) \/ (Holds(p[2], k, w) /\ \A u : ~Holds(p[1], k, u))
    BY <2>1, LookupShown, ShownHeld
  <2>3. KeyOK(p, k, latest[k], until[k], clock)
    BY <2>1 DEF StoreInv, KeysOK
  <2>4. QED
    BY <2>2, <2>3 DEF KeyOK
<1>2. QED
  BY <1>1, StoreInvariant, PTL

-----------------------------------------------------------------------------
(* What is lost is reported *)

LEMMA ShownSame ==
  ASSUME NEW p, BucketOK(p), NEW n, BucketOK(n), NEW k, NEW now,
         \A w : Holds(n[1], k, w) <=> Holds(p[1], k, w),
         \A w : Holds(n[2], k, w) <=> Holds(p[2], k, w)
  PROVE  Shown(n, k, now) = Shown(p, k, now)
<1>1. CASE \E w : Holds(p[1], k, w)
  <2>1. PICK w : Holds(p[1], k, w) /\ Holds(n[1], k, w)
    BY <1>1
  <2>2. QED
    BY <2>1, ShownIs
<1>2. CASE ~(\E w : Holds(p[1], k, w)) /\ \E w : Holds(p[2], k, w)
  <2>1. PICK w : Holds(p[2], k, w) /\ Holds(n[2], k, w)
    BY <1>2
  <2>2. QED
    BY <1>2, <2>1, ShownIs
<1>3. CASE ~Held(p, k)
  <2>1. ~Held(n, k)
    BY <1>3 DEF Held
  <2>2. QED
    BY <1>3, <2>1, ShownIs
<1>4. QED
  BY <1>1, <1>2, <1>3 DEF Held

\* If k is shown before and not after a step, and level 1 does not have it, then
\* it is in rep.
Reported(p, n, k, now, rep) ==
  Shown(p, k, now) # None /\ Shown(n, k, now) = None /\ (\A u : ~Holds(n[1], k, u))
    => <<k, Shown(p, k, now)>> \in rep

LEMMA DropsReports ==
  ASSUME NEW p, BucketOK(p), NEW n, BucketOK(n), NEW k, NEW j, NEW now, NEW rep,
         Drops(p, n, k, now)
  PROVE  Reported(p, n, j, now, rep)
<1>1. CASE j = k
  <2>1. PICK v : Holds(p[1], k, v) /\ Over(v, now)
    BY DEF Drops
  <2>2. Shown(p, k, now) = None
    BY <2>1, ShownIs
  <2>3. QED
    BY <1>1, <2>2 DEF Reported
<1>2. CASE j # k
  <2>1. Shown(n, j, now) = Shown(p, j, now)
    BY <1>2, ShownSame DEF Drops
  <2>2. QED
    BY <2>1 DEF Reported
<1>3. QED
  BY <1>1, <1>2

LEMMA PromotesReports ==
  ASSUME NEW p, BucketOK(p), NEW n, BucketOK(n), NEW k, NEW v, NEW j, NEW now, NEW rep,
         Promotes(p, n, k, v, rep), ~Over(v, now)
  PROVE  Reported(p, n, j, now, rep)
<1> SUFFICES ASSUME Shown(p, j, now) # None, Shown(n, j, now) = None,
                    \A u : ~Holds(n[1], j, u)
             PROVE  <<j, Shown(p, j, now)>> \in rep
  BY DEF Reported
<1>1. j # k
  <2>1. SUFFICES ASSUME j = k PROVE FALSE
    OBVIOUS
  <2>2. Holds(n[2], j, v) /\ v.val \in Values
    BY <2>1 DEF Promotes, ValueType
  <2>3. Shown(n, j, now) = v.val
    BY <2>2, ShownIs
  <2>4. QED
    BY <2>2, <2>3, LRU2Assumption
<1>2. PICK w : /\ ~Over(w, now) /\ Shown(p, j, now) = w.val
               /\ Holds(p[1], j, w) \/ (Holds(p[2], j, w) /\ \A u : ~Holds(p[1], j, u))
  BY ShownHeld
<1>3. Holds(p[2], j, w)
  BY <1>1, <1>2 DEF Promotes
<1>4. ~Holds(n[2], j, w)
  BY <1>2, ShownIs
<1>5. QED
  BY <1>1, <1>2, <1>3, <1>4 DEF Promotes

LEMMA SetsReports ==
  ASSUME NEW p, BucketOK(p), NEW n, BucketOK(n), NEW k, NEW v, NEW j, NEW now, NEW rep,
         Sets(p, n, k, v, rep)
  PROVE  Reported(p, n, j, now, rep)
<1> SUFFICES ASSUME Shown(p, j, now) # None, Shown(n, j, now) = None,
                    \A u : ~Holds(n[1], j, u)
             PROVE  <<j, Shown(p, j, now)>> \in rep
  BY DEF Reported
<1>1. j # k
  BY DEF Sets
<1>2. PICK w : /\ ~Over(w, now) /\ Shown(p, j, now) = w.val
               /\ Holds(p[1], j, w) \/ (Holds(p[2], j, w) /\ \A u : ~Holds(p[1], j, u))
  BY ShownHeld
<1>3. ~Holds(n[2], j, w)
  BY <1>2, ShownIs
<1>4. ~Holds(p[1], j, w)
  BY <1>1, <1>3 DEF Sets
<1>5. QED
  BY <1>2, <1>3, <1>4 DEF Sets

LEMMA WithoutReports ==
  ASSUME NEW p, BucketOK(p), NEW n, BucketOK(n), NEW gone, NEW j, NEW now, NEW rep,
         Without(p, n, gone), j \in gone => DeleteReport(p, j) \subseteq rep
  PROVE  Reported(p, n, j, now, rep)
<1>1. CASE j \notin gone
  <2>1. Shown(n, j, now) = Shown(p, j, now)
    BY <1>1, ShownSame DEF Without
  <2>2. QED
    BY <2>1 DEF Reported
<1>2. CASE j \in gone
  <2> SUFFICES ASSUME Shown(p, j, now) # None
               PROVE  <<j, Shown(p, j, now)>> \in rep
    BY DEF Reported
  <2>1. PICK w : /\ Shown(p, j, now) = w.val
                 /\ Holds(p[1], j, w) \/ (Holds(p[2], j, w) /\ \A u : ~Holds(p[1], j, u))
    BY ShownHeld
  <2>2. <<j, w.val>> \in DeleteReport(p, j)
    BY <2>1, DeleteReportOf
  <2>3. QED
    BY <1>2, <2>1, <2>2
<1>3. QED
  BY <1>1, <1>2

\* The cleanup reports every key it deletes.
LEMMA CleanReported ==
  ASSUME NEW p, NEW keys \in Seq(Keys), NEW j, j \in ToSet(keys)
  PROVE  DeleteReport(p, j) \subseteq CleanReport(p, keys)
<1>1. PICK i \in DOMAIN keys : keys[i] = j
  BY DEF ToSet
<1>2. QED
  BY <1>1 DEF CleanReport

\* Every step but a tick of the clock reports what it makes invisible.
LEMMA StepReports ==
  ASSUME StoreInv, [Next]_vars, clock' = clock, NEW j \in Keys
  PROVE  Reported(lv[Bucket[j]], lv'[Bucket[j]], j, clock, evicted')
<1>1. Bucket[j] \in Buckets /\ BucketOK(lv[Bucket[j]])
  BY BucketOf
<1>2. ASSUME NEW b \in Buckets, NEW n, BucketOK(n), lv' = [lv EXCEPT ![b] = n],
             Reported(lv[b], n, j, clock, evicted')
      PROVE  Reported(lv[Bucket[j]], lv'[Bucket[j]], j, clock, evicted')
  <2>1. lv'[b] = n /\ \A c \in Buckets : c # b => lv'[c] = lv[c]
    BY <1>2, OneBucketStep DEF StoreInv
  <2>2. CASE Bucket[j] = b
    BY <1>2, <2>1, <2>2
  <2>3. CASE Bucket[j] # b
    <3>1. lv'[Bucket[j]] = lv[Bucket[j]]
      BY <1>1, <2>1, <2>3
    <3>2. QED
      BY <3>1 DEF Reported
  <2>4. QED
    BY <2>2, <2>3
<1>3. ASSUME NEW k \in Keys, GetExpired(k)
      PROVE  Reported(lv[Bucket[j]], lv'[Bucket[j]], j, clock, evicted')
  <2>1. PICK b, p : b = Bucket[k] /\ p = lv[b] /\ b \in Buckets /\ BucketOK(p)
    BY BucketOf
  <2>2. PICK n : BucketOK(n) /\ lv' = [lv EXCEPT ![b] = n] /\ Drops(p, n, k, clock)
    BY <1>3, <2>1, GetExpiredEffect
  <2>3. Reported(p, n, j, clock, evicted')
    BY <2>1, <2>2, DropsReports
  <2>4. QED
    BY <1>2, <2>1, <2>2, <2>3
<1>4. ASSUME NEW k \in Keys, GetLevel1(k)
      PROVE  Reported(lv[Bucket[j]], lv'[Bucket[j]], j, clock, evicted')
  <2>1. PICK b, p : b = Bucket[k] /\ p = lv[b] /\ b \in Buckets /\ BucketOK(p)
    BY BucketOf
  <2>2. PICK n, v : /\ BucketOK(n) /\ lv' = [lv EXCEPT ![b] = n]
                    /\ Promotes(p, n, k, v, evicted') /\ ~Over(v, clock)
    BY <1>4, <2>1, GetLevel1Effect
  <2>3. Reported(p, n, j, clock, evicted')
    BY <2>1, <2>2, PromotesReports
  <2>4. QED
    BY <1>2, <2>1, <2>2, <2>3
<1>5. ASSUME NEW k \in Keys, GetLevel2(k)
      PROVE  Reported(lv[Bucket[j]], lv'[Bucket[j]], j, clock, evicted')
  <2>1. PICK b, p : b = Bucket[k] /\ p = lv[b] /\ b \in Buckets /\ BucketOK(p)
    BY BucketOf
  <2>2. PICK n : BucketOK(n) /\ lv' = [lv EXCEPT ![b] = n] /\ Reorders(p, n)
    BY <1>5, <2>1, GetLevel2Effect
  <2>3. Shown(n, j, clock) = Shown(p, j, clock)
    BY <2>1, <2>2, ShownSame DEF Reorders
  <2>4. Reported(p, n, j, clock, evicted')
    BY <2>3 DEF Reported
  <2>5. QED
    BY <1>2, <2>1, <2>2, <2>4
<1>6. ASSUME NEW k \in Keys, SetCall(k)
      PROVE  Reported(lv[Bucket[j]], lv'[Bucket[j]], j, clock, evicted')
  <2>1. PICK b, p : b = Bucket[k] /\ p = lv[b] /\ b \in Buckets /\ BucketOK(p)
    BY BucketOf
  <2>2. PICK val \in Values, ttl \in TTLs, t0 \in 0..clock : SetWithExpiration(k, val, ttl, t0)
    BY <1>6 DEF SetCall
  <2>3. PICK n, v : BucketOK(n) /\ lv' = [lv EXCEPT ![b] = n] /\ Sets(p, n, k, v, evicted')
    BY <2>1, <2>2, SetCallEffect
  <2>4. Reported(p, n, j, clock, evicted')
    BY <2>1, <2>3, SetsReports
  <2>5. QED
    BY <1>2, <2>1, <2>3, <2>4
<1>7. ASSUME NEW k \in Keys, Delete(k)
      PROVE  Reported(lv[Bucket[j]], lv'[Bucket[j]], j, clock, evicted')
  <2>1. PICK b, p : b = Bucket[k] /\ p = lv[b] /\ b \in Buckets /\ BucketOK(p)
    BY BucketOf
  <2>2. PICK n : BucketOK(n) /\ lv' = [lv EXCEPT ![b] = n] /\ Without(p, n, {k})
    BY <1>7, <2>1, DeleteEffect
  <2>3. evicted' = DeleteReport(p, k)
    BY <1>7, <2>1 DEF Delete
  <2>4. Reported(p, n, j, clock, evicted')
    BY <2>1, <2>2, <2>3, WithoutReports
  <2>5. QED
    BY <1>2, <2>1, <2>2, <2>4
<1>8. ASSUME CleanupBucket
      PROVE  Reported(lv[Bucket[j]], lv'[Bucket[j]], j, clock, evicted')
  <2>1. PICK b : b = cleanup.next
    OBVIOUS
  <2>2. b \in Buckets
    BY <1>8, <2>1, CleanupBucketEffect
  <2>3. PICK n, keys : /\ lv' = [lv EXCEPT ![b] = n] /\ Cleans(lv[b], n, keys, cleanup.now)
                       /\ evicted' = CleanReport(lv[b], keys)
    BY <1>8, <2>1, CleanupBucketEffect
  <2>4. BucketOK(lv[b]) /\ BucketOK(n) /\ keys \in Seq(Keys) /\ Without(lv[b], n, ToSet(keys))
    BY <2>3 DEF Cleans
  <2>5. Reported(lv[b], n, j, clock, evicted')
    BY <2>3, <2>4, CleanReported, WithoutReports
  <2>6. QED
    BY <1>2, <2>2, <2>3, <2>4, <2>5
<1>9. ASSUME UNCHANGED lv
      PROVE  Reported(lv[Bucket[j]], lv'[Bucket[j]], j, clock, evicted')
  BY <1>9 DEF Reported
<1>10. \/ \E k \in Keys : GetExpired(k) \/ GetLevel1(k) \/ GetLevel2(k) \/ SetCall(k) \/ Delete(k)
       \/ CleanupBucket \/ UNCHANGED lv
  BY DEF Next, Get, DeleteCall, ClearDelete, ClearStart, ClearCollect, ClearEnd, CleanupTick,
         Close, ClockTick, vars
<1>11. QED
  BY <1>3, <1>4, <1>5, <1>6, <1>7, <1>8, <1>9, <1>10

\* No promotion, eviction, deletion or cleanup loses a value silently (lru2.go
\* 72-76, 113-119 and 372-383).
THEOREM NothingLostSilently == Spec => NoSilentLoss
<1> DEFINE Step ==
      \A k \in Keys :
        Lookup(k) # None /\ Lookup(k)' = None /\ clock' = clock /\ ~Live(lv[Bucket[k]][1], k)'
          => <<k, Lookup(k)>> \in evicted'
<1>1. ASSUME StoreInv, StoreInv', [Next]_vars PROVE Step
  <2> SUFFICES ASSUME NEW k \in Keys, Lookup(k) # None, Lookup(k)' = None, clock' = clock,
                      ~Live(lv'[Bucket[k]][1], k)
               PROVE  <<k, Lookup(k)>> \in evicted'
    OBVIOUS
  <2>1. /\ Lookup(k) = Shown(lv[Bucket[k]], k, clock)
        /\ Lookup(k)' = Shown(lv'[Bucket[k]], k, clock)
    BY LookupShown
  <2>2. \A u : ~Holds(lv'[Bucket[k]][1], k, u)
    <3>1. Bucket[k] \in Buckets
      BY <1>1, BucketOf
    <3>2. LevelOK(lv'[Bucket[k]][1])
      BY <1>1, <3>1 DEF StoreInv, BucketsOK, BucketOK, Buckets
    <3>3. QED
      BY <3>2, LiveHolds
  <2>3. Reported(lv[Bucket[k]], lv'[Bucket[k]], k, clock, evicted')
    BY <1>1, StepReports
  <2>4. QED
    BY <2>1, <2>2, <2>3 DEF Reported
<1>2. StoreInv /\ StoreInv' /\ [Next]_vars => [Step]_vars
  BY <1>1
<1>3. QED
  BY <1>2, StoreInvariant, PTL DEF Spec, NoSilentLoss

\* A cleanup pass takes only what has expired, or a value whose key has an
\* expired copy in level 2 (lru2.go 390-421).
THEOREM CleanupTakesExpired == Spec => CleanupSparesValid
<1> DEFINE Spares(k) ==
      LET l2 == lv[Bucket[k]][2]
      IN  Lookup(k)' # Lookup(k) =>
            /\ Lookup(k)' = None
            /\ Live(l2, k) /\ Expired(l2[At(l2, k)], cleanup.now)
<1>1. ASSUME StoreInv, [Next]_vars, cleanup.next # 0, cleanup' # cleanup, NEW k \in Keys
      PROVE  Spares(k)
  <2>1. CleanupBucket
    BY <1>1 DEF Next, Get, GetExpired, GetLevel1, GetLevel2, SetCall, SetWithExpiration,
                DeleteCall, ClearDelete, Delete, ClearStart, ClearCollect, ClearEnd, CleanupTick,
                Close, ClockTick, vars
  <2>2. PICK b, p, now : b = cleanup.next /\ p = lv[b] /\ now = cleanup.now
    OBVIOUS
  <2>3. b \in Buckets
    BY <1>1, <2>1, <2>2, CleanupBucketEffect
  <2>4. PICK n, keys : lv' = [lv EXCEPT ![b] = n] /\ Cleans(p, n, keys, now)
    BY <1>1, <2>1, <2>2, CleanupBucketEffect
  <2>5. BucketOK(p) /\ BucketOK(n) /\ Without(p, n, ToSet(keys))
    BY <2>4 DEF Cleans
  <2>6. lv'[b] = n /\ \A c \in Buckets : c # b => lv'[c] = lv[c]
    BY <1>1, <2>3, <2>4, <2>5, OneBucketStep DEF StoreInv
  <2>7. clock' = clock /\ now \in Nat /\ clock \in Nat /\ now <= clock
    BY <1>1, <2>1, <2>2, LRU2Assumption DEF CleanupBucket, StoreInv, Types, CleanupTime
  <2>8. Bucket[k] \in Buckets
    BY <1>1, BucketOf
  <2>9. /\ Lookup(k) = Shown(lv[Bucket[k]], k, clock)
        /\ Lookup(k)' = Shown(lv'[Bucket[k]], k, clock)
    BY <1>1, <2>7, LookupShown
  <2> SUFFICES ASSUME Lookup(k)' # Lookup(k)
               PROVE  /\ Lookup(k)' = None /\ Live(lv[Bucket[k]][2], k)
                      /\ Expired(lv[Bucket[k]][2][At(lv[Bucket[k]][2], k)], cleanup.now)
    OBVIOUS
  <2>10. Bucket[k] = b
    BY <2>6, <2>8, <2>9
  <2>11. Shown(p, k, clock) # Shown(n, k, clock)
    BY <2>2, <2>6, <2>9, <2>10
  <2>12. k \in ToSet(keys)
    <3>1. SUFFICES ASSUME k \notin ToSet(keys) PROVE FALSE
      OBVIOUS
    <3>2. Shown(n, k, clock) = Shown(p, k, clock)
      BY <2>5, <3>1, ShownSame DEF Without
    <3>3. QED
      BY <2>11, <3>2
  <2>13. Shown(n, k, clock) = None
    BY <2>5, <2>12, WithoutMoves, ShownIs
  <2>14. PICK w : (Holds(p[1], k, w) \/ Holds(p[2], k, w)) /\ Over(w, now)
    BY <2>4, <2>12 DEF Cleans
  <2>15. LevelOK(p[1]) /\ LevelOK(p[2])
    BY <2>5 DEF BucketOK
  <2>16. ~Holds(p[1], k, w)
    <3>1. SUFFICES ASSUME Holds(p[1], k, w) PROVE FALSE
      OBVIOUS
    <3>2. w \in ValueType
      BY <2>15, <3>1, LiveHolds
    <3>3. Over(w, clock)
      BY <2>7, <2>14, <3>2 DEF Over, ValueType
    <3>4. Shown(p, k, clock) = None
      BY <2>5, <3>1, <3>3, ShownIs
    <3>5. QED
      BY <2>11, <2>13, <3>4
  <2>17. Live(p[2], k) /\ p[2][At(p[2], k)].v = w
    BY <2>14, <2>15, <2>16, LiveHolds
  <2>18. Expired(p[2][At(p[2], k)], now)
    BY <2>14, <2>17 DEF Expired, Over
  <2>19. QED
    BY <2>2, <2>6, <2>9, <2>10, <2>13, <2>17, <2>18
<1>2. StoreInv /\ [Next]_vars =>
        [cleanup.next # 0 /\ cleanup' # cleanup => \A k \in Keys : Spares(k)]_vars
  BY <1>1
<1>3. QED
  BY <1>2, StoreInvariant, PTL DEF Spec, CleanupSparesValid

-----------------------------------------------------------------------------
(* Without expirations the two levels are one map *)

\* Nothing that is held ever expires.
Forever(p, k) ==
  \A w : Holds(p[1], k, w) \/ Holds(p[2], k, w) => w.exp = noExpiration

NoExpiry ==
  \A k \in Keys : until[k] = noExpiration /\ Forever(lv[Bucket[k]], k)

\* Where the values of a key come from in a step that sets the keys in s.
From(p, n, k, s) ==
  \A w : Holds(n[1], k, w) \/ Holds(n[2], k, w) =>
           \/ Holds(p[1], k, w) \/ Holds(p[2], k, w)
           \/ k \in s /\ w.exp = noExpiration

\* A step that sets no key.
OtherStep ==
  \/ \E k \in Keys : GetExpired(k) \/ GetLevel1(k) \/ GetLevel2(k) \/ Delete(k)
  \/ CleanupBucket
  \/ UNCHANGED lv

LEMMA StepFrom ==
  ASSUME TTLs \subseteq {0}, StoreInv, NEW j \in Keys, NEW s,
         \/ \E k \in Keys : SetCall(k) /\ s = {k}
         \/ OtherStep
  PROVE  From(lv[Bucket[j]], lv'[Bucket[j]], j, s)
<1>1. Bucket[j] \in Buckets
  BY BucketOf
<1>2. ASSUME NEW b \in Buckets, NEW n, BucketOK(n), lv' = [lv EXCEPT ![b] = n],
             From(lv[b], n, j, s)
      PROVE  From(lv[Bucket[j]], lv'[Bucket[j]], j, s)
  <2>1. lv'[b] = n /\ \A c \in Buckets : c # b => lv'[c] = lv[c]
    BY <1>2, OneBucketStep DEF StoreInv
  <2>2. CASE Bucket[j] = b
    BY <1>2, <2>1, <2>2
  <2>3. CASE Bucket[j] # b
    <3>1. lv'[Bucket[j]] = lv[Bucket[j]]
      BY <1>1, <2>1, <2>3
    <3>2. QED
      BY <3>1 DEF From
  <2>4. QED
    BY <2>2, <2>3
<1>3. ASSUME NEW k \in Keys, GetExpired(k) \/ GetLevel1(k) \/ GetLevel2(k) \/ Delete(k)
      PROVE  From(lv[Bucket[j]], lv'[Bucket[j]], j, s)
  <2>1. PICK b, p : b = Bucket[k] /\ p = lv[b] /\ b \in Buckets
    BY BucketOf
  <2>2. PICK n : BucketOK(n) /\ lv' = [lv EXCEPT ![b] = n] /\ From(p, n, j, s)
    <3>1. CASE GetExpired(k)
      BY <2>1, <3>1, GetExpiredEffect DEF Drops, From
    <3>2. CASE GetLevel1(k)
      <4>1. PICK n, v : BucketOK(n) /\ lv' = [lv EXCEPT ![b] = n] /\ Promotes(p, n, k, v, evicted')
        BY <2>1, <3>2, GetLevel1Effect
      <4>2. From(p, n, j, s)
        BY <4>1 DEF Promotes, From
      <4>3. QED
        BY <4>1, <4>2
    <3>3. CASE GetLevel2(k)
      BY <2>1, <3>3, GetLevel2Effect DEF Reorders, From
    <3>4. CASE Delete(k)
      BY <2>1, <3>4, DeleteEffect DEF Without, From
    <3>5. QED
      BY <1>3, <3>1, <3>2, <3>3, <3>4
  <2>3. QED
    BY <1>2, <2>1, <2>2
<1>4. ASSUME NEW k \in Keys, SetCall(k), s = {k}
      PROVE  From(lv[Bucket[j]], lv'[Bucket[j]], j, s)
  <2>1. PICK b, p : b = Bucket[k] /\ p = lv[b] /\ b \in Buckets
    BY BucketOf
  <2>2. PICK val \in Values, ttl \in TTLs, t0 \in 0..clock : SetWithExpiration(k, val, ttl, t0)
    BY <1>4 DEF SetCall
  <2>3. PICK n, v : /\ BucketOK(n) /\ lv' = [lv EXCEPT ![b] = n] /\ Sets(p, n, k, v, evicted')
                    /\ v = [val |-> val, exp |-> IF ttl > 0 THEN t0 + ttl ELSE noExpiration]
    BY <2>1, <2>2, SetCallEffect
  <2>4. v.exp = noExpiration
    BY <2>3
  <2>5. From(p, n, j, s)
    BY <1>4, <2>3, <2>4 DEF Sets, From
  <2>6. QED
    BY <1>2, <2>1, <2>3, <2>5
<1>5. ASSUME CleanupBucket
      PROVE  From(lv[Bucket[j]], lv'[Bucket[j]], j, s)
  <2>1. PICK b : b = cleanup.next
    OBVIOUS
  <2>2. b \in Buckets
    BY <1>5, <2>1, CleanupBucketEffect
  <2>3. PICK n, keys : lv' = [lv EXCEPT ![b] = n] /\ Cleans(lv[b], n, keys, cleanup.now)
    BY <1>5, <2>1, CleanupBucketEffect
  <2>4. BucketOK(n) /\ From(lv[b], n, j, s)
    BY <2>3 DEF Cleans, Without, From
  <2>5. QED
    BY <1>2, <2>2, <2>3, <2>4
<1>6. CASE UNCHANGED lv
  BY <1>6 DEF From
<1>7. QED
  BY <1>3, <1>4, <1>5, <1>6 DEF OtherStep

LEMMA Steps ==
  ASSUME [Next]_vars
  PROVE  OtherStep \/ \E k \in Keys : SetCall(k)
BY DEF OtherStep, Next, Get, DeleteCall, ClearDelete, ClearStart, ClearCollect, ClearEnd,
       CleanupTick, Close, ClockTick, vars

LEMMA NoExpiryStep ==
  ASSUME TTLs \subseteq {0}, StoreInv, NoExpiry, [Next]_vars
  PROVE  NoExpiry'
<1>1. \A j \in Keys : until'[j] = noExpiration
  <2>1. ASSUME NEW k \in Keys, SetCall(k) PROVE \A j \in Keys : until'[j] = noExpiration
    <3>1. PICK val \in Values, ttl \in TTLs, t0 \in 0..clock : SetWithExpiration(k, val, ttl, t0)
      BY <2>1 DEF SetCall
    <3>2. ~(ttl > 0)
      OBVIOUS
    <3>3. until' = [until EXCEPT ![k] = noExpiration]
      BY <3>1, <3>2 DEF SetWithExpiration
    <3>4. QED
      BY <3>3 DEF NoExpiry, StoreInv, Types
  <2>2. ASSUME NEW k \in Keys, Delete(k) PROVE \A j \in Keys : until'[j] = noExpiration
    BY <2>2 DEF Delete, NoExpiry, StoreInv, Types
  <2>3. \/ \E k \in Keys : SetCall(k) \/ Delete(k)
        \/ UNCHANGED until
    BY DEF Next, Get, GetExpired, GetLevel1, GetLevel2, DeleteCall, ClearDelete, ClearStart,
           ClearCollect, ClearEnd, CleanupTick, CleanupBucket, Close, ClockTick, vars
  <2>4. QED
    BY <2>1, <2>2, <2>3 DEF NoExpiry
<1>2. \A j \in Keys : Forever(lv'[Bucket[j]], j)
  <2> SUFFICES ASSUME NEW j \in Keys PROVE Forever(lv'[Bucket[j]], j)
    OBVIOUS
  <2>1. PICK s : From(lv[Bucket[j]], lv'[Bucket[j]], j, s)
    <3>1. CASE OtherStep
      BY <3>1, StepFrom
    <3>2. ASSUME NEW k \in Keys, SetCall(k)
          PROVE  From(lv[Bucket[j]], lv'[Bucket[j]], j, {k})
      <4>1. PICK t : t = {k}
        OBVIOUS
      <4>2. From(lv[Bucket[j]], lv'[Bucket[j]], j, t)
        BY <3>2, <4>1, StepFrom
      <4>3. QED
        BY <4>1, <4>2
    <3>3. QED
      BY <3>1, <3>2, Steps
  <2>2. QED
    BY <2>1 DEF NoExpiry, Forever, From
<1>3. QED
  BY <1>1, <1>2 DEF NoExpiry

\* A key that is held shows its latest value.
LEMMA HeldShown ==
  ASSUME NEW p, BucketOK(p), NEW k, NEW val, NEW now \in 0..MaxTime,
         KeyOK(p, k, val, noExpiration, now), Forever(p, k)
  PROVE  /\ Held(p, k) => Shown(p, k, now) = val /\ val # None
         /\ ~Held(p, k) => Shown(p, k, now) = None
<1>1. ASSUME Held(p, k) PROVE Shown(p, k, now) = val /\ val # None
  <2>1. PICK w : Holds(p[1], k, w) \/ (Holds(p[2], k, w) /\ \A u : ~Holds(p[1], k, u))
    BY <1>1 DEF Held
  <2>2. w.exp = noExpiration /\ ~Over(w, now)
    BY <2>1 DEF Forever, Over
  <2>3. ~(now >= noExpiration)
    BY LRU2Assumption DEF noExpiration
  <2>4. w.val = val
    BY <2>1, <2>3 DEF KeyOK
  <2>5. w.val \in Values
    <3>1. w \in ValueType
      <4>1. LevelOK(p[1]) /\ LevelOK(p[2])
        BY DEF BucketOK
      <4>2. CASE Holds(p[1], k, w)
        BY <4>1, <4>2, LiveHolds
      <4>3. CASE Holds(p[2], k, w)
        <5>1. Live(p[2], k) /\ p[2][At(p[2], k)].v = w
          BY <4>1, <4>3, LiveHolds
        <5>2. QED
          BY <4>1, <5>1, LiveHolds
      <4>4. QED
        BY <2>1, <4>2, <4>3
    <3>2. QED
      BY <3>1 DEF ValueType
  <2>6. Shown(p, k, now) = w.val
    BY <2>1, <2>2, ShownIs
  <2>7. QED
    BY <2>4, <2>5, <2>6, LRU2Assumption
<1>2. QED
  BY <1>1, ShownIs

LEMMA LookupHeld ==
  ASSUME StoreInv, NoExpiry, NEW k \in Keys
  PROVE  /\ Held(lv[Bucket[k]], k) => Lookup(k) = latest[k] /\ latest[k] # None
         /\ ~Held(lv[Bucket[k]], k) => Lookup(k) = None
<1>1. PICK p : p = lv[Bucket[k]] /\ BucketOK(p)
  BY BucketOf
<1>2. KeyOK(p, k, latest[k], noExpiration, clock) /\ Forever(p, k) /\ clock \in 0..MaxTime
  BY <1>1 DEF StoreInv, Types, KeysOK, NoExpiry
<1>3. Lookup(k) = Shown(p, k, clock)
  BY <1>1, LookupShown
<1>4. QED
  BY <1>1, <1>2, <1>3, HeldShown

LEMMA LookupHeldNext ==
  ASSUME StoreInv', NoExpiry', NEW k \in Keys
  PROVE  /\ Held(lv'[Bucket[k]], k) => Lookup(k)' = latest'[k] /\ latest'[k] # None
         /\ ~Held(lv'[Bucket[k]], k) => Lookup(k)' = None
<1>1. PICK p : p = lv'[Bucket[k]]
  OBVIOUS
<1>2. BucketOK(p)
  BY <1>1, LRU2Assumption DEF StoreInv, BucketsOK, Buckets
<1>3. KeyOK(p, k, latest'[k], noExpiration, clock') /\ Forever(p, k) /\ clock' \in 0..MaxTime
  BY <1>1 DEF StoreInv, Types, KeysOK, NoExpiry
<1>4. Lookup(k)' = Shown(p, k, clock')
  BY <1>1, LookupShown
<1>5. QED
  BY <1>1, <1>2, <1>3, <1>4, HeldShown

\* A key that a step does not set keeps its value, or loses it and it is reported.
LEMMA LosesReported ==
  ASSUME TTLs \subseteq {0}, StoreInv, NoExpiry, StoreInv', NoExpiry', [Next]_vars,
         NEW j \in Keys, Lookup(j)' # Lookup(j), clock' = clock,
         OtherStep \/ \E k \in Keys : SetCall(k) /\ j # k,
         latest'[j] \in {latest[j], None}
  PROVE  Lookup(j)' = None /\ <<j, Lookup(j)>> \in evicted'
<1>1. Held(lv'[Bucket[j]], j) => Held(lv[Bucket[j]], j)
  <2>1. PICK s : From(lv[Bucket[j]], lv'[Bucket[j]], j, s) /\ j \notin s
    <3>1. CASE OtherStep
      <4>1. PICK t : t = {}
        OBVIOUS
      <4>2. From(lv[Bucket[j]], lv'[Bucket[j]], j, t) /\ j \notin t
        BY <3>1, <4>1, StepFrom
      <4>3. QED
        BY <4>2
    <3>2. ASSUME NEW k \in Keys, SetCall(k), j # k
          PROVE  \E t : From(lv[Bucket[j]], lv'[Bucket[j]], j, t) /\ j \notin t
      <4>1. PICK t : t = {k}
        OBVIOUS
      <4>2. From(lv[Bucket[j]], lv'[Bucket[j]], j, t) /\ j \notin t
        BY <3>2, <4>1, StepFrom
      <4>3. QED
        BY <4>2
    <3>3. QED
      BY <3>1, <3>2
  <2>2. QED
    BY <2>1 DEF From, Held
<1>2. ~Held(lv'[Bucket[j]], j) /\ Lookup(j)' = None
  BY <1>1, LookupHeld, LookupHeldNext
<1>3. Reported(lv[Bucket[j]], lv'[Bucket[j]], j, clock, evicted')
  BY StepReports
<1>4. QED
  BY <1>2, <1>3, LookupShown DEF Reported, Held

\* With values that never expire the store implements the map of CacheStore that
\* may lose reported entries, across promotions, evictions, Clear and cleanup
\* (lru2.go 50-155 and 388-425).
THEOREM StoreRefinement == ASSUME TTLs \subseteq {0} PROVE Spec => ImplementsStore
<1>1. Init => NoExpiry /\ Store!Init
  <2> SUFFICES ASSUME Init PROVE NoExpiry /\ Store!Init
    OBVIOUS
  <2>1. StoreInv
    BY InitInv
  <2>2. PICK p : p = <<<<>>, <<>>>>
    OBVIOUS
  <2>3. p[1] = <<>> /\ p[2] = <<>> /\ lv = [b \in Buckets |-> p]
    BY <2>2 DEF Init
  <2>4. \A k, w : ~Holds(<<>>, k, w)
    BY DEF Holds, Entries
  <2>5. \A k \in Keys : Bucket[k] \in Buckets /\ lv[Bucket[k]] = p
    BY <2>3, LRU2Assumption DEF Buckets
  <2>6. \A k \in Keys : ~Held(lv[Bucket[k]], k) /\ Forever(lv[Bucket[k]], k)
    BY <2>3, <2>4, <2>5 DEF Held, Forever
  <2>7. NoExpiry
    BY <2>6 DEF NoExpiry, Init
  <2>8. \A k \in Keys : Lookup(k) = None
    BY <2>1, <2>6, <2>7, LookupHeld
  <2>9. Store!Init
    BY <2>8 DEF Store!Init, Init
  <2>10. QED
    BY <2>7, <2>9
<1>2. ASSUME StoreInv, NoExpiry, StoreInv', NoExpiry', [Next]_vars
      PROVE  [Store!Next]_(Store!storeVars)
  <2> DEFINE map == [k \in Keys |-> Lookup(k)]
  \* Outside K the step loses only what it reports.
  <2> DEFINE Loses(K) ==
        \A j \in Keys \ K :
          Lookup(j)' # Lookup(j) => Lookup(j)' = None /\ <<j, Lookup(j)>> \in evicted'
  <2>1. ASSUME NEW K, Loses(K) PROVE Store!LosesOnlyReported(K)
    BY <2>1 DEF Store!LosesOnlyReported
  <2>2. ASSUME OtherStep, clock' = clock, \A j \in Keys : latest'[j] \in {latest[j], None}
        PROVE  Loses({})
    BY <1>2, <2>2, LosesReported
  <2>3. ASSUME UNCHANGED <<lv, latest>> PROVE \A j \in Keys : Lookup(j)' = Lookup(j)
    BY <1>2, <2>3, LookupHeld, LookupHeldNext
  <2> HIDE DEF Loses
  <2>4. ASSUME NEW k \in Keys, Get(k) PROVE Store!Get(k)
    <3>1. UNCHANGED <<latest, clock>>
      BY <2>4 DEF Get, GetExpired, GetLevel1, GetLevel2
    <3>2. Loses({})
      BY <2>2, <2>4, <3>1 DEF OtherStep, Get
    <3>3. got' = Lookup(k)
      <4>1. PICK p : p = lv[Bucket[k]] /\ BucketOK(p)
        BY <1>2, BucketOf
      <4>2. Lookup(k) = Shown(p, k, clock)
        BY <4>1, LookupShown
      <4>3. CASE GetExpired(k)
        <5>1. PICK n : Drops(p, n, k, clock)
          BY <1>2, <4>1, <4>3, GetExpiredEffect
        <5>2. PICK v : Holds(p[1], k, v) /\ Over(v, clock)
          BY <5>1 DEF Drops
        <5>3. QED
          BY <1>2, <4>1, <5>2 DEF NoExpiry, Forever, Over
      <4>4. CASE GetLevel1(k)
        <5>1. PICK n, v : Promotes(p, n, k, v, evicted') /\ ~Over(v, clock) /\ got' = v.val
          BY <1>2, <4>1, <4>4, GetLevel1Effect
        <5>2. Holds(p[1], k, v)
          BY <5>1 DEF Promotes
        <5>3. QED
          BY <4>1, <4>2, <5>1, <5>2, ShownIs
      <4>5. CASE GetLevel2(k)
        BY <4>5 DEF GetLevel2, Lookup, GetOut, Live
      <4>6. QED
        BY <2>4, <4>3, <4>4, <4>5 DEF Get
    <3>4. QED
      BY <2>1, <3>1, <3>2, <3>3 DEF Store!Get
  <2>5. ASSUME NEW k \in Keys, SetCall(k)
        PROVE  \E v \in Values : Store!Set(k, v)
    <3>1. PICK val \in Values, ttl \in TTLs, t0 \in 0..clock : SetWithExpiration(k, val, ttl, t0)
      BY <2>5 DEF SetCall
    <3>2. latest' = [latest EXCEPT ![k] = val] /\ got' = None /\ clock' = clock
      BY <3>1 DEF SetWithExpiration
    <3>3. latest'[k] = val /\ \A j \in Keys : j # k => latest'[j] = latest[j]
      BY <1>2, <3>2 DEF StoreInv, Types
    <3>4. Loses({k})
      BY <1>2, <2>5, <3>2, <3>3, LosesReported DEF Loses
    <3>5. Lookup(k)' = val
      <4>1. PICK b, p : b = Bucket[k] /\ p = lv[b] /\ b \in Buckets
        BY <1>2, BucketOf
      <4>2. PICK n, v : BucketOK(n) /\ lv' = [lv EXCEPT ![b] = n] /\ Sets(p, n, k, v, evicted')
        BY <1>2, <3>1, <4>1, SetCallEffect
      <4>3. lv'[Bucket[k]] = n
        BY <1>2, <4>1, <4>2, OneBucketStep DEF StoreInv
      <4>4. Held(lv'[Bucket[k]], k)
        BY <4>2, <4>3 DEF Sets, Held
      <4>5. QED
        BY <1>2, <3>3, <4>4, LookupHeldNext
    <3>6. QED
      BY <2>1, <3>2, <3>4, <3>5 DEF Store!Set
  <2>6. ASSUME NEW k \in Keys, Delete(k) PROVE Store!Delete(k)
    <3>1. latest' = [latest EXCEPT ![k] = None] /\ got' = None /\ clock' = clock
      BY <2>6 DEF Delete
    <3>2. \A j \in Keys : latest'[j] \in {latest[j], None}
      BY <1>2, <3>1 DEF StoreInv, Types
    <3>3. Loses({})
      BY <2>2, <2>6, <3>1, <3>2 DEF OtherStep
    <3>4. Lookup(k)' = None
      <4>1. latest'[k] = None
        BY <1>2, <3>1 DEF StoreInv, Types
      <4>2. QED
        BY <1>2, <4>1, LookupHeldNext
    <3>5. QED
      BY <2>1, <3>1, <3>3, <3>4 DEF Store!Delete
  <2>7. ASSUME CleanupBucket PROVE Store!Reclaim
    <3>1. UNCHANGED <<latest, clock>> /\ got' = None
      BY <2>7 DEF CleanupBucket
    <3>2. Loses({})
      BY <2>2, <2>7, <3>1 DEF OtherStep
    <3>3. QED
      BY <2>1, <3>1, <3>2 DEF Store!Reclaim
  <2>8. ASSUME UNCHANGED <<lv, latest>>, got' = None PROVE Store!Reclaim
    <3>1. Loses({})
      BY <2>3, <2>8 DEF Loses
    <3>2. QED
      BY <2>1, <2>8, <3>1 DEF Store!Reclaim
  <2>9. CASE UNCHANGED vars
    <3>1. UNCHANGED <<lv, latest, got, evicted>>
      BY <2>9 DEF vars
    <3>2. \A j \in Keys : Lookup(j)' = Lookup(j)
      BY <2>3, <3>1
    <3>3. QED
      BY <3>1, <3>2 DEF Store!storeVars
  <2>10. \/ \E k \in Keys : Get(k) \/ SetCall(k) \/ Delete(k)
         \/ CleanupBucket
         \/ UNCHANGED <<lv, latest>> /\ got' = None
         \/ UNCHANGED vars
    BY <1>2 DEF Next, DeleteCall, ClearDelete, ClearStart, ClearCollect, ClearEnd, CleanupTick,
                Close, ClockTick
  <2>11. QED
    BY <2>4, <2>5, <2>6, <2>7, <2>8, <2>9, <2>10 DEF Store!Next
<1>3. StoreInv /\ NoExpiry /\ [Next]_vars => NoExpiry'
  BY NoExpiryStep
<1>4. QED
  BY <1>1, <1>2, <1>3, StoreInvariant, PTL DEF Spec, ImplementsStore, Store!Spec
=============================================================================
