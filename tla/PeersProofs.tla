---------------------------- MODULE PeersProofs -----------------------------
(***************************************************************************)
(* Proofs about the two halves of a ClientPicker, peers.go.                *)
(*                                                                         *)
(* The ring (ConsistentHash), for any finite set of nodes, any hash        *)
(* function, any numbers of replicas and any keys: a key goes to the next  *)
(* virtual node of a member, and only the keys of a node that comes or     *)
(* goes move.  Two virtual nodes can have the same hash, so keys is a      *)
(* sequence with repetitions: the invariant says that its positions can be *)
(* labelled, one to one, with the virtual nodes of the members, and every  *)
(* loop of con_hash.go (sort.Ints, addNode, removeNode, rebalanceNodes) is *)
(* shown to keep such a labelling.                                         *)
(*                                                                         *)
(* Discovery (Membership), for any set of nodes, any choice of aliased     *)
(* addresses and any number of restarts.                                   *)
(***************************************************************************)
EXTENDS ConsistentHash, Membership, SequenceTheorems, FiniteSetTheorems,
        WellFoundedInduction, TLAPS

-----------------------------------------------------------------------------
(* Counting up.  The recursive functions of the model go through the entries *)
(* of a sequence; Counting takes the place of an induction along it.         *)

\* A set of natural numbers has a least one.
LEMMA Least ==
  ASSUME NEW T, T \subseteq Nat, T # {}
  PROVE  \E x \in T : \A y \in T : x <= y
<1>1. PICK x \in T : \A y \in T : ~(<<y, x>> \in OpToRel(<, Nat))
  BY NatLessThanWellFounded, WFMin
<1>2. \A y \in T : <<y, x>> \in Nat \X Nat /\ ~(<<y, x>>[1] < <<y, x>>[2])
  BY <1>1 DEF OpToRel
<1>3. \A y \in T : x \in Nat /\ y \in Nat /\ ~(y < x)
  BY <1>2
<1>4. QED
  BY <1>3

\* Min finds it.
LEMMA LeastIsMin ==
  ASSUME NEW T, T \subseteq Nat, T # {}
  PROVE  Min(T) \in T /\ \A y \in T : Min(T) <= y
BY Least DEF Min

\* A set that has 0 and, with every number below n, the next one, has all up to n.
LEMMA Counting ==
  ASSUME NEW n \in Nat, NEW T, 0 \in T, \A i \in 1..n : i - 1 \in T => i \in T
  PROVE  \A i \in 0..n : i \in T
<1> SUFFICES ASSUME NEW i \in 0..n, i \notin T PROVE FALSE
  OBVIOUS
<1>1. PICK B : B = {j \in 0..n : j \notin T}
  OBVIOUS
<1>2. PICK x \in B : \A y \in B : x <= y
  <2>1. B # {} /\ B \subseteq Nat
    BY <1>1
  <2>2. QED
    BY <2>1, Least
<1>3. x \in 0..n /\ x \notin T /\ x # 0
  BY <1>1, <1>2
<1>4. x \in 1..n /\ x - 1 \in 0..n /\ ~(x <= x - 1)
  BY <1>3
<1>5. x - 1 \in T
  BY <1>1, <1>2, <1>4
<1>6. QED
  BY <1>3, <1>4, <1>5

\* g applies F[i] for i from 1 to n, beginning with a.
IsRun(g, n, a, F) == g = [i \in 0..n |-> IF i = 0 THEN a ELSE F[i][g[i - 1]]]

\* There is such a g, within any set that has a and that F does not leave.
LEMMA RunExists ==
  ASSUME NEW S, NEW a \in S, NEW n \in Nat, NEW F, \A i \in 1..n : \A x \in S : F[i][x] \in S
  PROVE  \E g : IsRun(g, n, a, F) /\ \A i \in 0..n : g[i] \in S
<1>1. PICK T : T = {m \in 0..n : \E g : IsRun(g, m, a, F) /\ \A i \in 0..m : g[i] \in S}
  OBVIOUS
<1>2. 0 \in T
  <2>1. PICK g : g = [i \in 0..0 |-> a]
    OBVIOUS
  <2>2. IsRun(g, 0, a, F) /\ \A i \in 0..0 : g[i] \in S
    BY <2>1 DEF IsRun
  <2>3. 0 \in 0..n
    OBVIOUS
  <2>4. QED
    BY <1>1, <2>2, <2>3
<1>3. ASSUME NEW m \in 1..n, m - 1 \in T PROVE m \in T
  <2>1. PICK g : IsRun(g, m - 1, a, F) /\ \A i \in 0..(m - 1) : g[i] \in S
    BY <1>1, <1>3
  <2>2. \A i \in 0..(m - 1) : g[i] = IF i = 0 THEN a ELSE F[i][g[i - 1]]
    BY <2>1 DEF IsRun
  <2>3. PICK f : f = [i \in 0..m |-> IF i = m THEN F[m][g[m - 1]] ELSE g[i]]
    OBVIOUS
  <2>4. m \in Nat /\ m # 0 /\ m - 1 \in 0..(m - 1) /\ m \in 0..n
    OBVIOUS
  <2>5. /\ \A i \in 0..(m - 1) : f[i] = g[i]
        /\ f[m] = F[m][g[m - 1]]
    BY <2>3, <2>4
  <2>6. \A i \in 0..m : f[i] = IF i = 0 THEN a ELSE F[i][f[i - 1]]
    <3> SUFFICES ASSUME NEW i \in 0..m PROVE f[i] = IF i = 0 THEN a ELSE F[i][f[i - 1]]
      OBVIOUS
    <3>1. CASE i = m
      BY <2>4, <2>5, <3>1
    <3>2. CASE i # m
      <4>1. i \in 0..(m - 1) /\ (i # 0 => i - 1 \in 0..(m - 1))
        BY <2>4, <3>2
      <4>2. QED
        BY <2>2, <2>5, <4>1
    <3>3. QED
      BY <3>1, <3>2
  <2>7. f = [i \in 0..m |-> IF i = 0 THEN a ELSE F[i][f[i - 1]]]
    BY <2>3, <2>6
  <2>8. \A i \in 0..m : f[i] \in S
    <3>1. F[m][g[m - 1]] \in S
      BY <2>1, <2>4
    <3>2. \A i \in 0..m : i = m \/ i \in 0..(m - 1)
      BY <2>4
    <3>3. QED
      BY <2>1, <2>5, <3>1, <3>2
  <2>9. QED
    BY <1>1, <2>4, <2>7, <2>8 DEF IsRun
<1>4. n \in T
  <2>1. \A i \in 0..n : i \in T
    BY <1>2, <1>3, Counting
  <2>2. QED
    BY <2>1
<1>5. QED
  BY <1>1, <1>4

-----------------------------------------------------------------------------
(* Who the points belong to.  A hash can occur several times in keys, once for  *)
(* each virtual node that has it; a labelling names a virtual node for every    *)
(* position, so that nothing has to be counted.                                 *)

VirtualNodes == Nodes \X (0..(MaxReplicas - 1))

PointSeqs == Seq(AllPoints)

\* B names the virtual nodes in L, one for each position of s.
Labels(B, s, L) ==
  /\ B \in [1..Len(s) -> L]
  /\ \A p, q \in 1..Len(s) : B[p] = B[q] => p = q
  /\ \A v \in L : \E p \in 1..Len(s) : B[p] = v
  /\ \A p \in 1..Len(s) : s[p] = Hash(B[p])

\* s has the points of the virtual nodes in L, each as often as they have it.
PointsOf(s, L) == s \in PointSeqs /\ \E B : Labels(B, s, L)

IsAscending(s) == \A i, j \in 1..Len(s) : i <= j => s[i] <= s[j]

\* Points are hash values.
LEMMA PointTypes ==
  /\ MaxHash \in Nat /\ AllPoints \subseteq 0..MaxHash /\ AllPoints \subseteq Nat
  /\ \A v \in VirtualNodes : Hash(v) \in AllPoints
<1>1. MaxHash \in Nat /\ AllPoints \subseteq 0..MaxHash
  <2>1. MaxHash \in Nat /\ Points \in [Nodes -> [0..(MaxReplicas - 1) -> 0..MaxHash]]
    BY RingAssumption
  <2>2. \A n \in Nodes, i \in 0..(MaxReplicas - 1) : Points[n][i] \in 0..MaxHash
    BY <2>1
  <2>3. QED
    BY <2>1, <2>2 DEF AllPoints
<1>2. AllPoints \subseteq Nat
  BY <1>1
<1>3. \A v \in VirtualNodes : Hash(v) \in AllPoints
  BY DEF VirtualNodes, Hash, AllPoints
<1>4. QED
  BY <1>1, <1>2, <1>3

\* The entries of a sequence of points.
LEMMA SeqFacts ==
  ASSUME NEW s \in PointSeqs
  PROVE  /\ Len(s) \in Nat /\ DOMAIN s = 1..Len(s)
         /\ \A i \in 1..Len(s) : s[i] \in AllPoints /\ s[i] \in Nat
BY LenProperties, ElementOfSeq, PointTypes DEF PointSeqs

\* The entries of a sequence without its i-th.
LEMMA RemoveAtProperties ==
  ASSUME NEW S, NEW s \in Seq(S), NEW i \in 1..Len(s)
  PROVE  /\ Sq!RemoveAt(s, i) \in Seq(S)
         /\ Len(Sq!RemoveAt(s, i)) = Len(s) - 1
         /\ \A j \in 1..(Len(s) - 1) :
              Sq!RemoveAt(s, i)[j] = IF j < i THEN s[j] ELSE s[j + 1]
<1>1. Len(s) \in Nat /\ \A j \in 1..Len(s) : s[j] \in S
  BY LenProperties, ElementOfSeq
<1>2. PICK u : u = SubSeq(s, 1, i - 1)
  OBVIOUS
<1>3. u \in Seq(S) /\ Len(u) = i - 1 /\ \A j \in 1..(i - 1) : u[j] = s[j]
  <2>1. /\ SubSeq(s, 1, i - 1) \in Seq(S)
        /\ Len(SubSeq(s, 1, i - 1)) = IF 1 <= i - 1 THEN (i - 1) - 1 + 1 ELSE 0
        /\ \A j \in 1..((i - 1) - 1 + 1) : SubSeq(s, 1, i - 1)[j] = s[1 + j - 1]
    BY <1>1, SubSeqProperties
  <2>2. QED
    BY <1>1, <1>2, <2>1
<1>4. PICK w : w = SubSeq(s, i + 1, Len(s))
  OBVIOUS
<1>5. w \in Seq(S) /\ Len(w) = Len(s) - i /\ \A j \in 1..(Len(s) - i) : w[j] = s[i + j]
  <2>1. /\ SubSeq(s, i + 1, Len(s)) \in Seq(S)
        /\ Len(SubSeq(s, i + 1, Len(s))) =
             IF i + 1 <= Len(s) THEN Len(s) - (i + 1) + 1 ELSE 0
        /\ \A j \in 1..(Len(s) - (i + 1) + 1) : SubSeq(s, i + 1, Len(s))[j] = s[(i + 1) + j - 1]
    BY <1>1, SubSeqProperties
  <2>2. QED
    BY <1>1, <1>4, <2>1
<1>6. Sq!RemoveAt(s, i) = u \o w
  BY <1>2, <1>4 DEF Sq!RemoveAt
<1>7. /\ u \o w \in Seq(S) /\ Len(u \o w) = Len(u) + Len(w)
      /\ \A j \in 1..(Len(u) + Len(w)) :
           (u \o w)[j] = IF j <= Len(u) THEN u[j] ELSE w[j - Len(u)]
  BY <1>3, <1>5, ConcatProperties
<1>8. QED
  BY <1>1, <1>3, <1>5, <1>6, <1>7

\* RemoveFirst takes out a position that has the point.
LEMMA RemoveFirstIs ==
  ASSUME NEW s \in PointSeqs, NEW e, \E i \in 1..Len(s) : s[i] = e
  PROVE  \E i \in 1..Len(s) : s[i] = e /\ Sq!RemoveFirst(s, e) = Sq!RemoveAt(s, i)
<1>1. PICK I : I = {i \in 1..Len(s) : s[i] = e}
  OBVIOUS
<1>2. I # {} /\ I \subseteq Nat
  BY <1>1, SeqFacts
<1>3. PICK x : x = Sq!Min(I)
  OBVIOUS
<1>4. x \in I
  BY <1>2, <1>3, Least DEF Sq!Min
<1>5. Sq!RemoveFirst(s, e) = Sq!RemoveAt(s, x)
  BY <1>1, <1>2, <1>3 DEF Sq!RemoveFirst, Sq!SelectInSeq
<1>6. QED
  BY <1>1, <1>4, <1>5

\* Two positions with the same point may exchange their labels.
LEMMA Relabel ==
  ASSUME NEW s \in PointSeqs, NEW L, NEW B, Labels(B, s, L),
         NEW i \in 1..Len(s), NEW v \in L, s[i] = Hash(v)
  PROVE  \E C : Labels(C, s, L) /\ C[i] = v
<1>1. PICK q \in 1..Len(s) : B[q] = v
  BY DEF Labels
<1>2. PICK C : C = [p \in 1..Len(s) |-> IF p = q THEN B[i] ELSE IF p = i THEN B[q] ELSE B[p]]
  OBVIOUS
<1>3. C \in [1..Len(s) -> L] /\ C[i] = v
  BY <1>1, <1>2 DEF Labels
<1>4. \A p, o \in 1..Len(s) : C[p] = C[o] => p = o
  BY <1>1, <1>2 DEF Labels
<1>5. \A w \in L : \E p \in 1..Len(s) : C[p] = w
  <2> SUFFICES ASSUME NEW w \in L PROVE \E p \in 1..Len(s) : C[p] = w
    OBVIOUS
  <2>1. PICK p \in 1..Len(s) : B[p] = w
    BY DEF Labels
  <2>2. PICK o \in 1..Len(s) : o = IF p = q THEN i ELSE IF p = i THEN q ELSE p
    BY <1>1
  <2>3. C[o] = w
    BY <1>1, <1>2, <2>1, <2>2
  <2>4. QED
    BY <2>3
<1>6. \A p \in 1..Len(s) : s[p] = Hash(C[p])
  BY <1>1, <1>2 DEF Labels
<1>7. QED
  BY <1>3, <1>4, <1>5, <1>6 DEF Labels

\* Removing a point of v removes v; the rest keeps its order.
LEMMA RemoveOne ==
  ASSUME NEW s, NEW L, PointsOf(s, L), NEW v \in L, NEW r, r = Sq!RemoveFirst(s, Hash(v))
  PROVE  PointsOf(r, L \ {v}) /\ (IsAscending(s) => IsAscending(r))
<1>1. s \in PointSeqs /\ Len(s) \in Nat /\ \A i \in 1..Len(s) : s[i] \in Nat
  BY SeqFacts DEF PointsOf
<1>2. PICK B : Labels(B, s, L)
  BY DEF PointsOf
<1>3. \E i \in 1..Len(s) : s[i] = Hash(v)
  BY <1>2 DEF Labels
<1>4. PICK i \in 1..Len(s) : s[i] = Hash(v) /\ r = Sq!RemoveAt(s, i)
  BY <1>1, <1>3, RemoveFirstIs
<1>5. PICK C : Labels(C, s, L) /\ C[i] = v
  BY <1>1, <1>2, <1>4, Relabel
<1>6. PICK n : n = Len(s)
  OBVIOUS
<1>7. /\ r \in PointSeqs /\ Len(r) = n - 1
      /\ \A j \in 1..(n - 1) : r[j] = IF j < i THEN s[j] ELSE s[j + 1]
  BY <1>1, <1>4, <1>6, RemoveAtProperties DEF PointSeqs
<1>8. /\ C \in [1..n -> L]
      /\ \A p, q \in 1..n : C[p] = C[q] => p = q
      /\ \A w \in L : \E p \in 1..n : C[p] = w
      /\ \A p \in 1..n : s[p] = Hash(C[p])
      /\ n \in Nat /\ i \in 1..n
  BY <1>1, <1>5, <1>6 DEF Labels
<1>9. PICK D : D = [p \in 1..(n - 1) |-> C[IF p < i THEN p ELSE p + 1]]
  OBVIOUS
<1>10. \A p \in 1..(n - 1) : (IF p < i THEN p ELSE p + 1) \in 1..n /\ (IF p < i THEN p ELSE p + 1) # i
  BY <1>8
<1>11. D \in [1..(n - 1) -> L \ {v}]
  BY <1>5, <1>8, <1>9, <1>10
<1>12. \A p, q \in 1..(n - 1) : D[p] = D[q] => p = q
  <2> SUFFICES ASSUME NEW p \in 1..(n - 1), NEW q \in 1..(n - 1), D[p] = D[q] PROVE p = q
    OBVIOUS
  <2>1. (IF p < i THEN p ELSE p + 1) = (IF q < i THEN q ELSE q + 1)
    BY <1>8, <1>9, <1>10
  <2>2. QED
    BY <1>8, <2>1
<1>13. ASSUME NEW w \in L \ {v} PROVE \E p \in 1..(n - 1) : D[p] = w
  <2>1. PICK p \in 1..n : C[p] = w
    BY <1>8
  <2>2. p # i
    BY <1>5, <2>1
  <2>3. PICK q : q = IF p < i THEN p ELSE p - 1
    OBVIOUS
  <2>4. q \in 1..(n - 1) /\ (IF q < i THEN q ELSE q + 1) = p
    BY <1>8, <2>2, <2>3
  <2>5. QED
    BY <1>9, <2>1, <2>4
<1>14. \A p \in 1..(n - 1) : r[p] = Hash(D[p])
  BY <1>7, <1>8, <1>9, <1>10
<1>15. Labels(D, r, L \ {v})
  BY <1>7, <1>11, <1>12, <1>13, <1>14 DEF Labels
<1>16. ASSUME IsAscending(s), NEW p \in 1..(n - 1), NEW q \in 1..(n - 1), p <= q
       PROVE  r[p] <= r[q]
  <2>1. PICK x, y : x = (IF p < i THEN p ELSE p + 1) /\ y = (IF q < i THEN q ELSE q + 1)
    OBVIOUS
  <2>2. x \in 1..n /\ y \in 1..n /\ x <= y /\ r[p] = s[x] /\ r[q] = s[y]
    BY <1>7, <1>8, <1>16, <2>1
  <2>3. QED
    BY <1>6, <1>16, <2>2 DEF IsAscending
<1>17. QED
  BY <1>7, <1>15, <1>16 DEF PointsOf, IsAscending

\* The result of an insertion: i is the place of the new point.
Inserted(r, s, x, i) ==
  /\ i \in 1..(Len(s) + 1)
  /\ i # Len(s) + 1 => s[i] > x
  /\ \A j \in 1..Len(s) : j < i => s[j] <= x
  /\ \A j \in 1..(Len(s) + 1) :
       r[j] = IF j < i THEN s[j] ELSE IF j = i THEN x ELSE s[j - 1]

\* Insert finds such a place.
LEMMA InsertShape ==
  ASSUME NEW s \in PointSeqs, NEW x \in AllPoints, NEW r, r = Insert(s, x)
  PROVE  /\ r \in PointSeqs /\ Len(r) = Len(s) + 1
         /\ \A j \in 1..(Len(s) + 1) : r[j] \in Nat
         /\ \E i : Inserted(r, s, x, i)
<1>1. PICK n : n = Len(s)
  OBVIOUS
<1>2. /\ n \in Nat /\ x \in Nat
      /\ \A i \in 1..n : s[i] \in AllPoints /\ s[i] \in Nat
  BY <1>1, SeqFacts, PointTypes
<1>3. PICK I : I = {j \in 1..n : s[j] > x} \cup {n + 1}
  OBVIOUS
<1>4. PICK i : i = Min(I)
  OBVIOUS
<1>5. i \in I /\ \A y \in I : i <= y
  <2>1. I # {} /\ I \subseteq Nat
    BY <1>2, <1>3
  <2>2. QED
    BY <1>4, <2>1, LeastIsMin
<1>6. i \in 1..(n + 1) /\ (i # n + 1 => s[i] > x) /\ \A j \in 1..n : j < i => s[j] <= x
  <2>1. i \in 1..(n + 1) /\ (i # n + 1 => s[i] > x)
    BY <1>2, <1>3, <1>5
  <2>2. ASSUME NEW j \in 1..n, j < i PROVE s[j] <= x
    BY <1>2, <1>3, <1>5, <2>1, <2>2
  <2>3. QED
    BY <2>1, <2>2
<1>7. r = [j \in 1..(n + 1) |-> IF j < i THEN s[j] ELSE IF j = i THEN x ELSE s[j - 1]]
  BY <1>1, <1>3, <1>4 DEF Insert
<1>8. \A j \in 1..(n + 1) : r[j] = IF j < i THEN s[j] ELSE IF j = i THEN x ELSE s[j - 1]
  BY <1>7
<1>9. \A j \in 1..(n + 1) : r[j] \in AllPoints /\ r[j] \in Nat
  <2> SUFFICES ASSUME NEW j \in 1..(n + 1) PROVE r[j] \in AllPoints /\ r[j] \in Nat
    OBVIOUS
  <2>1. CASE j < i
    <3>1. j \in 1..n
      BY <1>2, <1>6, <2>1
    <3>2. QED
      BY <1>2, <1>8, <2>1, <3>1
  <2>2. CASE j = i
    BY <1>2, <1>8, <2>2
  <2>3. CASE i < j
    <3>1. j - 1 \in 1..n /\ ~(j < i) /\ j # i
      BY <1>2, <1>6, <2>3
    <3>2. QED
      BY <1>2, <1>8, <3>1
  <2>4. QED
    BY <1>2, <1>6, <2>1, <2>2, <2>3
<1>10. r \in PointSeqs /\ Len(r) = n + 1
  <2>1. r \in [1..(n + 1) -> AllPoints] /\ n + 1 \in Nat
    BY <1>2, <1>7, <1>9
  <2>2. QED
    BY <2>1 DEF PointSeqs
<1>11. QED
  BY <1>1, <1>6, <1>8, <1>9, <1>10 DEF Inserted

\* One more point at its place.
LEMMA InsertOne ==
  ASSUME NEW s, NEW L, PointsOf(s, L), IsAscending(s), NEW v \in VirtualNodes, v \notin L,
         NEW r, r = Insert(s, Hash(v))
  PROVE  PointsOf(r, L \cup {v}) /\ IsAscending(r)
<1>1. PICK n, x : n = Len(s) /\ x = Hash(v)
  OBVIOUS
<1>2. /\ s \in PointSeqs /\ n \in Nat /\ x \in AllPoints /\ x \in Nat
      /\ \A i \in 1..n : s[i] \in AllPoints /\ s[i] \in Nat
  BY <1>1, SeqFacts, PointTypes DEF PointsOf
<1>3. PICK B : Labels(B, s, L)
  BY DEF PointsOf
<1>4. /\ r \in PointSeqs /\ Len(r) = n + 1 /\ \A j \in 1..(n + 1) : r[j] \in Nat
      /\ \E i : Inserted(r, s, x, i)
  BY <1>1, <1>2, InsertShape
<1>5. PICK i : Inserted(r, s, x, i)
  BY <1>4
<1>6. i \in 1..(n + 1) /\ (i # n + 1 => s[i] > x) /\ \A j \in 1..n : j < i => s[j] <= x
  BY <1>1, <1>5 DEF Inserted
<1>7. \A j \in 1..(n + 1) : r[j] = IF j < i THEN s[j] ELSE IF j = i THEN x ELSE s[j - 1]
  BY <1>1, <1>5 DEF Inserted
<1>8. \A j \in 1..(n + 1) : r[j] \in Nat
  BY <1>4
<1>9. r \in PointSeqs /\ Len(r) = n + 1
  BY <1>4
<1>10. /\ B \in [1..n -> L]
       /\ \A p, q \in 1..n : B[p] = B[q] => p = q
       /\ \A w \in L : \E p \in 1..n : B[p] = w
       /\ \A p \in 1..n : s[p] = Hash(B[p])
  BY <1>1, <1>3 DEF Labels
<1>11. PICK D : D = [j \in 1..(n + 1) |-> IF j < i THEN B[j] ELSE IF j = i THEN v ELSE B[j - 1]]
  OBVIOUS
<1>12. \A j \in 1..(n + 1) : D[j] = IF j < i THEN B[j] ELSE IF j = i THEN v ELSE B[j - 1]
  BY <1>11
<1>13. \A j \in 1..(n + 1) : /\ j < i => j \in 1..n
                             /\ i < j => j - 1 \in 1..n
                             /\ j < i \/ j = i \/ i < j
  BY <1>2, <1>6
<1>14. D \in [1..(n + 1) -> L \cup {v}]
  <2>1. \A j \in 1..n : B[j] \in L
    BY <1>10
  <2>2. ASSUME NEW j \in 1..(n + 1) PROVE D[j] \in L \cup {v}
    BY <1>12, <1>13, <2>1
  <2>3. QED
    BY <1>11, <2>2
<1>15. ASSUME NEW p \in 1..(n + 1), NEW q \in 1..(n + 1), D[p] = D[q] PROVE p = q
  <2>1. \A j \in 1..n : B[j] # v
    BY <1>10
  <2>2. p = i <=> q = i
    BY <1>2, <1>6, <1>12, <1>13, <1>15, <2>1
  <2>3. CASE p = i
    BY <2>2, <2>3
  <2>4. CASE p # i
    <3>1. PICK x1, y1 : x1 = (IF p < i THEN p ELSE p - 1) /\ y1 = (IF q < i THEN q ELSE q - 1)
      OBVIOUS
    <3>2. x1 \in 1..n /\ y1 \in 1..n /\ D[p] = B[x1] /\ D[q] = B[y1]
      BY <1>12, <1>13, <2>2, <2>4, <3>1
    <3>3. x1 = y1
      BY <1>10, <1>15, <3>2
    <3>4. QED
      BY <1>2, <1>6, <2>2, <2>4, <3>1, <3>3
  <2>5. QED
    BY <2>3, <2>4
<1>16. ASSUME NEW w \in L \cup {v} PROVE \E p \in 1..(n + 1) : D[p] = w
  <2>1. CASE w = v
    BY <1>2, <1>6, <1>12, <2>1
  <2>2. CASE w \in L
    <3>1. PICK p \in 1..n : B[p] = w
      BY <1>10, <2>2
    <3>2. PICK q : q = IF p < i THEN p ELSE p + 1
      OBVIOUS
    <3>3. q \in 1..(n + 1) /\ q # i /\ p = (IF q < i THEN q ELSE q - 1)
      BY <1>2, <1>6, <3>2
    <3>4. D[q] = B[p]
      BY <1>12, <3>3
    <3>5. QED
      BY <3>1, <3>3, <3>4
  <2>3. QED
    BY <2>1, <2>2
<1>17. \A p \in 1..(n + 1) : r[p] = Hash(D[p])
  BY <1>1, <1>7, <1>10, <1>12, <1>13
<1>18. Labels(D, r, L \cup {v})
  BY <1>9, <1>14, <1>15, <1>16, <1>17 DEF Labels
<1>19. ASSUME NEW p \in 1..(n + 1), NEW q \in 1..(n + 1), p <= q PROVE r[p] <= r[q]
  <2>1. \A j, l \in 1..n : j <= l => s[j] <= s[l]
    BY <1>1 DEF IsAscending
  <2>2. CASE q < i
    <3>1. p < i /\ p \in 1..n /\ q \in 1..n
      BY <1>2, <1>6, <1>19, <2>2
    <3>2. QED
      BY <1>7, <1>19, <2>1, <2>2, <3>1
  <2>3. CASE q = i
    <3>1. CASE p = i
      BY <1>8, <2>3, <3>1
    <3>2. CASE p # i
      <4>1. p < i /\ p \in 1..n
        BY <1>2, <1>6, <1>19, <2>3, <3>2
      <4>2. QED
        BY <1>6, <1>7, <2>3, <4>1
    <3>3. QED
      BY <3>1, <3>2
  <2>4. CASE i < q
    <3>1. q - 1 \in 1..n /\ ~(q < i) /\ q # i /\ r[q] = s[q - 1]
      BY <1>2, <1>6, <1>7, <2>4
    <3>2. CASE p < i
      <4>1. p \in 1..n /\ p <= q - 1
        BY <1>2, <1>6, <2>4, <3>2
      <4>2. QED
        BY <1>7, <2>1, <3>1, <3>2, <4>1
    <3>3. CASE p = i
      <4>1. i \in 1..n /\ i <= q - 1 /\ s[i] > x
        BY <1>2, <1>6, <2>4
      <4>2. s[i] <= s[q - 1] /\ r[p] = x
        BY <1>6, <1>7, <2>1, <3>1, <3>3, <4>1
      <4>3. QED
        BY <1>2, <3>1, <4>1, <4>2
    <3>4. CASE i < p
      <4>1. p - 1 \in 1..n /\ p - 1 <= q - 1 /\ ~(p < i) /\ p # i
        BY <1>2, <1>6, <1>19, <3>4
      <4>2. QED
        BY <1>7, <2>1, <3>1, <4>1
    <3>5. QED
      BY <1>6, <3>2, <3>3, <3>4
  <2>5. QED
    BY <1>6, <2>2, <2>3, <2>4
<1>20. QED
  BY <1>9, <1>18, <1>19 DEF PointsOf, IsAscending

\* The empty ring.
LEMMA NoPoints == PointsOf(<<>>, {}) /\ IsAscending(<<>>)
<1>1. <<>> \in PointSeqs /\ Len(<<>>) = 0 /\ 1..0 = {}
  BY DEF PointSeqs
<1>2. Labels([p \in {} |-> p], <<>>, {})
  BY <1>1 DEF Labels
<1>3. QED
  BY <1>1, <1>2 DEF PointsOf, IsAscending

\* g is the function that SortInts defines.
IsSort(g, s) == g = [i \in 0..Len(s) |-> IF i = 0 THEN <<>> ELSE Insert(g[i - 1], s[i])]

\* There is one: the recursion of SortInts is well-founded.
LEMMA SortRun ==
  ASSUME NEW s \in PointSeqs
  PROVE  \E g : IsSort(g, s)
<1>1. PICK n : n = Len(s)
  OBVIOUS
<1>2. n \in Nat /\ \A i \in 1..n : s[i] \in AllPoints
  BY <1>1, SeqFacts
<1>3. PICK F : F = [i \in 1..n |-> [x \in PointSeqs |-> Insert(x, s[i])]]
  OBVIOUS
<1>4. \A i \in 1..n : \A x \in PointSeqs : F[i][x] = Insert(x, s[i])
  BY <1>3
<1>5. ASSUME NEW i \in 1..n, NEW x \in PointSeqs PROVE F[i][x] \in PointSeqs
  BY <1>2, <1>4, InsertShape
<1>6. PICK g : IsRun(g, n, <<>>, F) /\ \A i \in 0..n : g[i] \in PointSeqs
  BY <1>2, <1>5, NoPoints, RunExists DEF PointsOf
<1>7. ASSUME NEW i \in 0..n, i # 0 PROVE F[i][g[i - 1]] = Insert(g[i - 1], s[i])
  <2>1. i \in 1..n /\ i - 1 \in 0..n
    BY <1>2, <1>7
  <2>2. QED
    BY <1>4, <1>6, <2>1
<1>8. g = [i \in 0..n |-> IF i = 0 THEN <<>> ELSE Insert(g[i - 1], s[i])]
  <2>1. g = [i \in 0..n |-> IF i = 0 THEN <<>> ELSE F[i][g[i - 1]]]
    BY <1>6 DEF IsRun
  <2>2. QED
    BY <1>7, <2>1
<1>9. QED
  BY <1>1, <1>8 DEF IsSort

\* Sorting keeps the points and orders them.
LEMMA SortPoints ==
  ASSUME NEW s, NEW L, L \subseteq VirtualNodes, PointsOf(s, L)
  PROVE  PointsOf(SortInts(s), L) /\ IsAscending(SortInts(s))
<1>1. PICK n : n = Len(s)
  OBVIOUS
<1>2. s \in PointSeqs /\ n \in Nat
  BY <1>1, SeqFacts DEF PointsOf
<1>3. PICK B : Labels(B, s, L)
  BY DEF PointsOf
<1>4. /\ B \in [1..n -> L]
      /\ \A p, q \in 1..n : B[p] = B[q] => p = q
      /\ \A w \in L : \E p \in 1..n : B[p] = w
      /\ \A p \in 1..n : s[p] = Hash(B[p])
  BY <1>1, <1>3 DEF Labels
<1>5. PICK g : g = CHOOSE sorted : sorted =
                 [i \in 0..Len(s) |-> IF i = 0 THEN <<>> ELSE Insert(sorted[i - 1], s[i])]
  OBVIOUS
<1>6. SortInts(s) = g[n]
  BY <1>1, <1>5 DEF SortInts
<1>7. IsSort(g, s)
  <2>1. g = CHOOSE sorted : IsSort(sorted, s)
    BY <1>5, Zenon DEF IsSort
  <2>2. \E sorted : IsSort(sorted, s)
    BY <1>2, SortRun
  <2>3. QED
    BY <2>1, <2>2, Zenon
<1>8. \A i \in 0..n : g[i] = IF i = 0 THEN <<>> ELSE Insert(g[i - 1], s[i])
  BY <1>1, <1>7 DEF IsSort
<1>9. PICK A : A = [i \in 0..n |-> {B[p] : p \in 1..i}]
  OBVIOUS
<1>10. PICK T : T = {i \in 0..n : PointsOf(g[i], A[i]) /\ IsAscending(g[i])}
  OBVIOUS
<1>11. 0 \in T
  <2>1. 0 \in 0..n /\ 1..0 = {}
    BY <1>2
  <2>2. A[0] = {} /\ g[0] = <<>>
    BY <1>8, <1>9, <2>1
  <2>3. QED
    BY <1>10, <2>1, <2>2, NoPoints
<1>12. ASSUME NEW i \in 1..n, i - 1 \in T PROVE i \in T
  <2>1. i \in 0..n /\ i - 1 \in 0..n /\ i # 0 /\ 1..i = 1..(i - 1) \cup {i} /\ 1..(i - 1) \subseteq 1..n
        /\ i \notin 1..(i - 1)
    BY <1>2
  <2>2. A[i] = A[i - 1] \cup {B[i]} /\ B[i] \notin A[i - 1]
    BY <1>4, <1>9, <2>1
  <2>3. B[i] \in VirtualNodes /\ s[i] = Hash(B[i])
    BY <1>4
  <2>4. g[i] = Insert(g[i - 1], Hash(B[i]))
    BY <1>8, <2>1, <2>3
  <2>5. PointsOf(g[i - 1], A[i - 1]) /\ IsAscending(g[i - 1])
    BY <1>10, <1>12
  <2>6. PointsOf(g[i], A[i - 1] \cup {B[i]}) /\ IsAscending(g[i])
    BY <2>2, <2>3, <2>4, <2>5, InsertOne
  <2>7. QED
    BY <1>10, <2>1, <2>2, <2>6
<1>13. n \in T
  <2>1. \A i \in 0..n : i \in T
    BY <1>2, <1>11, <1>12, Counting
  <2>2. QED
    BY <1>2, <2>1
<1>14. A[n] = L
  <2>1. n \in 0..n
    BY <1>2
  <2>2. QED
    BY <1>4, <1>9, <2>1
<1>15. QED
  BY <1>6, <1>10, <1>13, <1>14

-----------------------------------------------------------------------------
(* Adding and removing a node *)

\* The first k virtual nodes of n.
Of(n, k) == {n} \X (0..(k - 1))

\* A node's virtual nodes and their points.
LEMMA VirtualFacts ==
  ASSUME NEW n \in Nodes, NEW k \in 0..MaxReplicas
  PROVE  /\ k \in Nat /\ Of(n, k) \subseteq VirtualNodes
         /\ Virtual(n, k) \in PointSeqs /\ Len(Virtual(n, k)) = k
         /\ \A i \in 1..k : /\ <<n, i - 1>> \in Of(n, k)
                            /\ Virtual(n, k)[i] = Hash(<<n, i - 1>>)
<1>1. MaxReplicas \in Nat /\ k \in Nat /\ k <= MaxReplicas
  BY RingAssumption
<1>2. Of(n, k) \subseteq VirtualNodes
  <2>1. 0..(k - 1) \subseteq 0..(MaxReplicas - 1)
    BY <1>1
  <2>2. QED
    BY <2>1 DEF Of, VirtualNodes
<1>3. \A i \in 1..k : i - 1 \in 0..(k - 1)
  BY <1>1
<1>4. \A i \in 1..k : <<n, i - 1>> \in Of(n, k)
  BY <1>3 DEF Of
<1>5. \A i \in 1..k : Virtual(n, k)[i] = Hash(<<n, i - 1>>)
  BY DEF Virtual, Hash
<1>6. \A i \in 1..k : Virtual(n, k)[i] \in AllPoints
  BY <1>2, <1>4, <1>5, PointTypes
<1>7. Virtual(n, k) \in [1..k -> AllPoints]
  BY <1>6 DEF Virtual
<1>8. Virtual(n, k) \in PointSeqs /\ Len(Virtual(n, k)) = k
  BY <1>1, <1>7 DEF PointSeqs
<1>9. QED
  BY <1>1, <1>2, <1>4, <1>5, <1>8

\* Appending the points of virtual nodes that s has not (con_hash.go, lines 149-157).
LEMMA AppendPoints ==
  ASSUME NEW s, NEW L, PointsOf(s, L), NEW n \in Nodes, NEW k \in 0..MaxReplicas,
         L \cap Of(n, k) = {}
  PROVE  PointsOf(s \o Virtual(n, k), L \cup Of(n, k))
<1>1. PICK w, l, r : w = Virtual(n, k) /\ l = Len(s) /\ r = s \o w
  OBVIOUS
<1>2. s \in PointSeqs /\ l \in Nat
  BY <1>1, SeqFacts DEF PointsOf
<1>3. /\ k \in Nat /\ w \in PointSeqs /\ Len(w) = k
      /\ \A i \in 1..k : <<n, i - 1>> \in Of(n, k) /\ w[i] = Hash(<<n, i - 1>>)
  BY <1>1, VirtualFacts
<1>4. /\ r \in PointSeqs /\ Len(r) = l + k
      /\ \A i \in 1..(l + k) : r[i] = IF i <= l THEN s[i] ELSE w[i - l]
  <2>1. /\ s \o w \in Seq(AllPoints) /\ Len(s \o w) = Len(s) + Len(w)
        /\ \A i \in 1..(Len(s) + Len(w)) : (s \o w)[i] = IF i <= Len(s) THEN s[i] ELSE w[i - Len(s)]
    BY <1>2, <1>3, ConcatProperties DEF PointSeqs
  <2>2. QED
    BY <1>1, <1>3, <2>1 DEF PointSeqs
<1>5. PICK B : Labels(B, s, L)
  BY DEF PointsOf
<1>6. /\ B \in [1..l -> L]
      /\ \A p, q \in 1..l : B[p] = B[q] => p = q
      /\ \A v \in L : \E p \in 1..l : B[p] = v
      /\ \A p \in 1..l : s[p] = Hash(B[p])
  BY <1>1, <1>5 DEF Labels
<1>7. PICK D : D = [i \in 1..(l + k) |-> IF i <= l THEN B[i] ELSE <<n, i - l - 1>>]
  OBVIOUS
<1>8. \A i \in 1..(l + k) : /\ i <= l => i \in 1..l /\ D[i] = B[i]
                            /\ ~(i <= l) => i - l \in 1..k /\ D[i] = <<n, i - l - 1>>
  BY <1>2, <1>3, <1>7
<1>9. D \in [1..(l + k) -> L \cup Of(n, k)]
  <2>1. ASSUME NEW i \in 1..(l + k) PROVE D[i] \in L \cup Of(n, k)
    <3>1. CASE i <= l
      BY <1>6, <1>8, <3>1
    <3>2. CASE ~(i <= l)
      BY <1>3, <1>8, <3>2
    <3>3. QED
      BY <3>1, <3>2
  <2>2. QED
    BY <1>7, <2>1
<1>10. ASSUME NEW p \in 1..(l + k), NEW q \in 1..(l + k), D[p] = D[q] PROVE p = q
  <2>1. CASE p <= l /\ q <= l
    BY <1>6, <1>8, <1>10, <2>1
  <2>2. CASE ~(p <= l) /\ ~(q <= l)
    <3>1. p - l - 1 = q - l - 1
      BY <1>8, <1>10, <2>2
    <3>2. QED
      BY <1>2, <1>3, <3>1
  <2>3. CASE (p <= l) # (q <= l)
    <3>1. ASSUME NEW x \in 1..(l + k), NEW y \in 1..(l + k), x <= l, ~(y <= l) PROVE D[x] # D[y]
      <4>1. D[x] \in L
        BY <1>6, <1>8, <3>1
      <4>2. D[y] \in Of(n, k)
        BY <1>3, <1>8, <3>1
      <4>3. QED
        BY <4>1, <4>2
    <3>2. QED
      BY <1>10, <2>3, <3>1
  <2>4. QED
    BY <2>1, <2>2, <2>3
<1>11. ASSUME NEW v \in L \cup Of(n, k) PROVE \E p \in 1..(l + k) : D[p] = v
  <2>1. CASE v \in L
    <3>1. PICK p \in 1..l : B[p] = v
      BY <1>6, <2>1
    <3>2. p \in 1..(l + k) /\ p <= l
      BY <1>2, <1>3
    <3>3. QED
      BY <1>8, <3>1, <3>2
  <2>2. CASE v \in Of(n, k)
    <3>1. PICK j \in 0..(k - 1) : v = <<n, j>>
      BY <2>2 DEF Of
    <3>2. PICK p : p = l + j + 1
      OBVIOUS
    <3>3. p \in 1..(l + k) /\ ~(p <= l) /\ p - l - 1 = j
      BY <1>2, <1>3, <3>2
    <3>4. QED
      BY <1>8, <3>1, <3>3
  <2>3. QED
    BY <2>1, <2>2
<1>12. ASSUME NEW p \in 1..(l + k) PROVE r[p] = Hash(D[p])
  <2>1. CASE p <= l
    BY <1>4, <1>6, <1>8, <2>1
  <2>2. CASE ~(p <= l)
    BY <1>3, <1>4, <1>8, <2>2
  <2>3. QED
    BY <2>1, <2>2
<1>13. Labels(D, r, L \cup Of(n, k))
  BY <1>4, <1>9, <1>10, <1>11, <1>12 DEF Labels
<1>14. QED
  BY <1>1, <1>4, <1>13 DEF PointsOf

\* g is the function that Without defines.
IsWithout(g, s, w) ==
  g = [i \in 0..Len(w) |-> IF i = 0 THEN s ELSE Sq!RemoveFirst(g[i - 1], w[i])]

\* There is one: the recursion of Without is well-founded.
LEMMA WithoutRun ==
  ASSUME NEW s \in PointSeqs, NEW w \in PointSeqs
  PROVE  \E g : IsWithout(g, s, w)
<1>1. PICK n : n = Len(w)
  OBVIOUS
<1>2. n \in Nat
  BY <1>1, SeqFacts
<1>3. PICK F : F = [i \in 1..n |-> [x \in PointSeqs |-> Sq!RemoveFirst(x, w[i])]]
  OBVIOUS
<1>4. \A i \in 1..n : \A x \in PointSeqs : F[i][x] = Sq!RemoveFirst(x, w[i])
  BY <1>3
<1>5. ASSUME NEW i \in 1..n, NEW x \in PointSeqs PROVE F[i][x] \in PointSeqs
  <2>1. CASE \E j \in 1..Len(x) : x[j] = w[i]
    <3>1. PICK j \in 1..Len(x) : Sq!RemoveFirst(x, w[i]) = Sq!RemoveAt(x, j)
      BY <2>1, RemoveFirstIs
    <3>2. Sq!RemoveAt(x, j) \in PointSeqs
      BY RemoveAtProperties DEF PointSeqs
    <3>3. QED
      BY <1>4, <3>1, <3>2
  <2>2. CASE ~\E j \in 1..Len(x) : x[j] = w[i]
    <3>1. PICK e : e = w[i]
      OBVIOUS
    <3>2. Sq!RemoveFirst(x, e) = x
      BY <2>2, <3>1 DEF Sq!RemoveFirst, Sq!SelectInSeq
    <3>3. QED
      BY <1>4, <3>1, <3>2
  <2>3. QED
    BY <2>1, <2>2
<1>6. PICK g : IsRun(g, n, s, F) /\ \A i \in 0..n : g[i] \in PointSeqs
  BY <1>2, <1>5, RunExists
<1>7. ASSUME NEW i \in 0..n, i # 0 PROVE F[i][g[i - 1]] = Sq!RemoveFirst(g[i - 1], w[i])
  <2>1. i \in 1..n /\ i - 1 \in 0..n
    BY <1>2, <1>7
  <2>2. QED
    BY <1>4, <1>6, <2>1
<1>8. g = [i \in 0..n |-> IF i = 0 THEN s ELSE Sq!RemoveFirst(g[i - 1], w[i])]
  <2>1. g = [i \in 0..n |-> IF i = 0 THEN s ELSE F[i][g[i - 1]]]
    BY <1>6 DEF IsRun
  <2>2. QED
    BY <1>7, <2>1
<1>9. QED
  BY <1>1, <1>8 DEF IsWithout

\* Removing the points of n leaves those of the other nodes, in their order.
LEMMA WithoutPoints ==
  ASSUME NEW s, NEW L, PointsOf(s, L), NEW n \in Nodes, NEW k \in 0..MaxReplicas,
         Of(n, k) \subseteq L, NEW r, r = Without(s, Virtual(n, k))
  PROVE  PointsOf(r, L \ Of(n, k)) /\ (IsAscending(s) => IsAscending(r))
<1>1. PICK w : w = Virtual(n, k)
  OBVIOUS
<1>2. /\ s \in PointSeqs /\ k \in Nat /\ w \in PointSeqs /\ Len(w) = k
      /\ \A i \in 1..k : <<n, i - 1>> \in Of(n, k) /\ w[i] = Hash(<<n, i - 1>>)
  BY <1>1, VirtualFacts DEF PointsOf
<1>3. PICK g : g = CHOOSE left : left =
                 [i \in 0..Len(w) |-> IF i = 0 THEN s ELSE Sq!RemoveFirst(left[i - 1], w[i])]
  OBVIOUS
<1>4. r = g[k]
  BY <1>1, <1>2, <1>3, Zenon DEF Without
<1>5. IsWithout(g, s, w)
  <2>1. g = CHOOSE left : IsWithout(left, s, w)
    BY <1>3, Zenon DEF IsWithout
  <2>2. \E left : IsWithout(left, s, w)
    BY <1>2, WithoutRun
  <2>3. QED
    BY <2>1, <2>2, Zenon
<1>6. \A i \in 0..k : g[i] = IF i = 0 THEN s ELSE Sq!RemoveFirst(g[i - 1], w[i])
  BY <1>2, <1>5, Zenon DEF IsWithout
<1>7. PICK T : T = {i \in 0..k : /\ PointsOf(g[i], L \ Of(n, i))
                                 /\ IsAscending(s) => IsAscending(g[i])}
  OBVIOUS
<1>8. 0 \in T
  <2>1. 0 \in 0..k /\ 0..(0 - 1) = {}
    BY <1>2
  <2>2. L \ Of(n, 0) = L
    BY <2>1 DEF Of
  <2>3. g[0] = s
    BY <1>6, <2>1, Zenon
  <2>4. QED
    BY <1>7, <2>1, <2>2, <2>3
<1>9. ASSUME NEW i \in 1..k, i - 1 \in T PROVE i \in T
  <2>1. /\ i \in 0..k /\ i - 1 \in 0..k /\ i # 0 /\ i - 1 \notin 0..((i - 1) - 1)
        /\ 0..(i - 1) = 0..((i - 1) - 1) \cup {i - 1}
    BY <1>2
  <2>2. PICK v : v = <<n, i - 1>>
    OBVIOUS
  <2>3. Of(n, i) = Of(n, i - 1) \cup {v} /\ v \notin Of(n, i - 1)
    BY <2>1, <2>2 DEF Of
  <2>4. v \in L \ Of(n, i - 1) /\ w[i] = Hash(v)
    BY <1>2, <2>2, <2>3
  <2>5. g[i] = Sq!RemoveFirst(g[i - 1], Hash(v))
    <3>1. g[i] = Sq!RemoveFirst(g[i - 1], w[i])
      BY <1>6, <2>1, Zenon
    <3>2. QED
      BY <2>4, <3>1, Zenon
  <2>6. PointsOf(g[i - 1], L \ Of(n, i - 1)) /\ (IsAscending(s) => IsAscending(g[i - 1]))
    BY <1>7, <1>9
  <2>7. /\ PointsOf(g[i], (L \ Of(n, i - 1)) \ {v})
        /\ IsAscending(g[i - 1]) => IsAscending(g[i])
    BY <2>4, <2>5, <2>6, RemoveOne, Zenon
  <2>8. (L \ Of(n, i - 1)) \ {v} = L \ Of(n, i)
    BY <2>3
  <2>9. QED
    BY <1>7, <2>1, <2>6, <2>7, <2>8
<1>10. k \in T
  <2>1. \A i \in 0..k : i \in T
    BY <1>2, <1>8, <1>9, Counting
  <2>2. QED
    BY <1>2, <2>1
<1>11. QED
  BY <1>4, <1>7, <1>10

-----------------------------------------------------------------------------
(* The ring *)

Owners == Nodes \cup {None}

RingType == [keys : PointSeqs, hashMap : [AllPoints -> Owners],
             nodeReplicas : [Nodes -> 0..MaxReplicas]]

\* A node in the map has a virtual node at that point.
Held(r) ==
  \A x \in AllPoints : r.hashMap[x] # None =>
    \E v \in Live(r) : v[1] = r.hashMap[x] /\ Hash(v) = x

\* A point that no two nodes share is mapped to the node that has it.
Mapped(r) == \A v \in Live(r) : ~Shared(Hash(v)) => r.hashMap[Hash(v)] = v[1]

\* What holds of the ring between two steps of a rebalancing, too; keys need not
\* be in order.
RingOK(r) == r \in RingType /\ PointsOf(r.keys, Live(r)) /\ Held(r) /\ Mapped(r)

\* The virtual nodes of the ring are those of its nodes.
LEMMA LiveFacts ==
  ASSUME NEW r, r.nodeReplicas \in [Nodes -> 0..MaxReplicas]
  PROVE  /\ Live(r) \subseteq VirtualNodes
         /\ \A v \in Live(r) : v[1] \in Nodes /\ v = <<v[1], v[2]>>
         /\ \A v : v \in Live(r) <=> \E n \in Nodes : v \in Of(n, r.nodeReplicas[n])
<1>1. Live(r) = {v \in VirtualNodes : v[2] < r.nodeReplicas[v[1]]}
  BY DEF Live, VirtualNodes
<1>2. \A v \in VirtualNodes : v[1] \in Nodes /\ v[2] \in 0..(MaxReplicas - 1) /\ v = <<v[1], v[2]>>
  BY DEF VirtualNodes
<1>3. MaxReplicas \in Nat
  BY RingAssumption
<1>4. ASSUME NEW v \in Live(r) PROVE \E n \in Nodes : v \in Of(n, r.nodeReplicas[n])
  <2>1. PICK n, i : n = v[1] /\ i = v[2]
    OBVIOUS
  <2>2. n \in Nodes /\ i \in 0..(MaxReplicas - 1) /\ v = <<n, i>> /\ i < r.nodeReplicas[n]
    BY <1>1, <1>2, <2>1
  <2>3. r.nodeReplicas[n] \in Nat
    BY <1>3, <2>2
  <2>4. i \in 0..(r.nodeReplicas[n] - 1)
    BY <1>3, <2>2, <2>3
  <2>5. QED
    BY <2>2, <2>4 DEF Of
<1>5. ASSUME NEW v, NEW n \in Nodes, v \in Of(n, r.nodeReplicas[n]) PROVE v \in Live(r)
  <2>1. PICK i \in 0..(r.nodeReplicas[n] - 1) : v = <<n, i>>
    BY <1>5 DEF Of
  <2>2. r.nodeReplicas[n] \in 0..MaxReplicas
    OBVIOUS
  <2>3. i \in 0..(MaxReplicas - 1) /\ i < r.nodeReplicas[n]
    BY <1>3, <2>2
  <2>4. QED
    BY <1>1, <2>1, <2>3 DEF VirtualNodes
<1>6. QED
  BY <1>1, <1>2, <1>4, <1>5

\* The virtual nodes of different nodes are different.
LEMMA OfDisjoint ==
  ASSUME NEW n, NEW k, NEW o, NEW l, NEW v, v \in Of(n, k), v \in Of(o, l)
  PROVE  n = o /\ v[1] = n
BY DEF Of

\* The points in Virtual.
LEMMA RangeVirtual ==
  ASSUME NEW n \in Nodes, NEW k \in 0..MaxReplicas
  PROVE  \A x : x \in Range(Virtual(n, k)) <=> \E v \in Of(n, k) : Hash(v) = x
<1>1. MaxReplicas \in Nat /\ k \in Nat
  BY RingAssumption
<1>2. DOMAIN Virtual(n, k) = 1..k /\ \A i \in 1..k : Virtual(n, k)[i] = Points[n][i - 1]
  BY DEF Virtual
<1>3. ASSUME NEW x, x \in Range(Virtual(n, k)) PROVE \E v \in Of(n, k) : Hash(v) = x
  <2>1. PICK i \in 1..k : x = Points[n][i - 1]
    BY <1>2, <1>3 DEF Range
  <2>2. i - 1 \in 0..(k - 1)
    BY <1>1
  <2>3. <<n, i - 1>> \in Of(n, k) /\ Hash(<<n, i - 1>>) = x
    BY <2>1, <2>2 DEF Of, Hash
  <2>4. QED
    BY <2>3
<1>4. ASSUME NEW v \in Of(n, k) PROVE Hash(v) \in Range(Virtual(n, k))
  <2>1. PICK i \in 0..(k - 1) : v = <<n, i>>
    BY DEF Of
  <2>2. i + 1 \in 1..k /\ (i + 1) - 1 = i
    BY <1>1
  <2>3. Virtual(n, k)[i + 1] = Hash(v)
    BY <1>2, <2>1, <2>2 DEF Hash
  <2>4. QED
    BY <1>2, <2>2, <2>3 DEF Range
<1>5. QED
  BY <1>3, <1>4

\* A hash of two nodes is shared.
LEMMA SharedByTwo ==
  ASSUME NEW v \in VirtualNodes, NEW w \in VirtualNodes, v[1] # w[1], Hash(v) = Hash(w)
  PROVE  Shared(Hash(v))
<1>1. /\ v[1] \in Nodes /\ v[2] \in 0..(MaxReplicas - 1)
      /\ w[1] \in Nodes /\ w[2] \in 0..(MaxReplicas - 1)
  BY DEF VirtualNodes
<1>2. QED
  BY <1>1 DEF Shared, Hash

\* The ring without node n.
LEMMA RemoveNode ==
  ASSUME NEW r, RingOK(r), NEW n \in Nodes, NEW u, u = removeNode(r, n)
  PROVE  /\ RingOK(u)
         /\ u.nodeReplicas = [r.nodeReplicas EXCEPT ![n] = 0]
         /\ IsAscending(r.keys) => IsAscending(u.keys)
         /\ Live(u) = Live(r) \ Of(n, r.nodeReplicas[n])
         /\ \A x \in AllPoints : u.hashMap[x] =
              IF \E v \in Of(n, r.nodeReplicas[n]) : Hash(v) = x THEN None ELSE r.hashMap[x]
<1>1. PICK k, w : k = r.nodeReplicas[n] /\ w = Virtual(n, k)
  OBVIOUS
<1>2. /\ r.keys \in PointSeqs /\ r.hashMap \in [AllPoints -> Owners]
      /\ r.nodeReplicas \in [Nodes -> 0..MaxReplicas] /\ k \in 0..MaxReplicas
  BY <1>1 DEF RingOK, RingType
<1>3. PICK ks, hm, nr :
        /\ ks = Without(r.keys, w)
        /\ hm = [h \in AllPoints |-> IF h \in Range(w) THEN None ELSE r.hashMap[h]]
        /\ nr = [r.nodeReplicas EXCEPT ![n] = 0]
  OBVIOUS
<1>4. u = [keys |-> ks, hashMap |-> hm, nodeReplicas |-> nr]
  BY <1>1, <1>3 DEF removeNode
<1>5. nr \in [Nodes -> 0..MaxReplicas] /\ \A o \in Nodes : nr[o] = IF o = n THEN 0 ELSE r.nodeReplicas[o]
  BY <1>2, <1>3, RingAssumption
<1>6. u.keys = ks /\ u.hashMap = hm /\ u.nodeReplicas = nr
  BY <1>4
<1>7. Live(u) = Live(r) \ Of(n, k)
  <2>1. \A v : v \in Live(r) <=> \E o \in Nodes : v \in Of(o, r.nodeReplicas[o])
    BY <1>2, LiveFacts
  <2>2. \A v : v \in Live(u) <=> \E o \in Nodes : v \in Of(o, nr[o])
    BY <1>5, <1>6, LiveFacts
  <2>3. Of(n, 0) = {}
    BY DEF Of
  <2>4. QED
    BY <1>1, <1>5, <2>1, <2>2, <2>3, OfDisjoint
<1>8. Of(n, k) \subseteq Live(r) /\ Live(r) \subseteq VirtualNodes
  BY <1>1, <1>2, LiveFacts
<1>9. PointsOf(ks, Live(u)) /\ (IsAscending(r.keys) => IsAscending(ks))
  BY <1>1, <1>2, <1>3, <1>7, <1>8, WithoutPoints DEF RingOK
<1>10. \A x \in AllPoints : hm[x] = IF \E v \in Of(n, k) : Hash(v) = x THEN None ELSE r.hashMap[x]
  BY <1>1, <1>2, <1>3, RangeVirtual
<1>11. hm \in [AllPoints -> Owners]
  BY <1>2, <1>3 DEF Owners
<1>12. u \in RingType
  BY <1>4, <1>5, <1>9, <1>11 DEF RingType, PointsOf
<1>13. Held(u)
  <2> SUFFICES ASSUME NEW x \in AllPoints, hm[x] # None
               PROVE  \E v \in Live(u) : v[1] = hm[x] /\ Hash(v) = x
    BY <1>6 DEF Held
  <2>1. hm[x] = r.hashMap[x] /\ ~\E v \in Of(n, k) : Hash(v) = x
    BY <1>10
  <2>2. PICK v \in Live(r) : v[1] = r.hashMap[x] /\ Hash(v) = x
    BY <2>1 DEF RingOK, Held
  <2>3. QED
    BY <1>7, <2>1, <2>2
<1>14. Mapped(u)
  <2> SUFFICES ASSUME NEW v \in Live(u), ~Shared(Hash(v)) PROVE hm[Hash(v)] = v[1]
    BY <1>6 DEF Mapped
  <2>1. v \in Live(r) /\ v \notin Of(n, k) /\ v \in VirtualNodes
    BY <1>7, <1>8
  <2>2. v[1] # n
    <3>1. PICK o \in Nodes : v \in Of(o, r.nodeReplicas[o])
      BY <1>2, <2>1, LiveFacts
    <3>2. o # n
      BY <1>1, <2>1, <3>1
    <3>3. QED
      BY <3>1, <3>2, OfDisjoint
  <2>3. ~\E q \in Of(n, k) : Hash(q) = Hash(v)
    <3> SUFFICES ASSUME NEW q \in Of(n, k), Hash(q) = Hash(v) PROVE FALSE
      OBVIOUS
    <3>1. q[1] = n /\ q \in VirtualNodes
      BY <1>8, OfDisjoint
    <3>2. QED
      BY <2>1, <2>2, <3>1, SharedByTwo
  <2>4. Hash(v) \in AllPoints
    BY <2>1, PointTypes
  <2>5. r.hashMap[Hash(v)] = v[1]
    BY <2>1 DEF RingOK, Mapped
  <2>6. QED
    BY <1>10, <2>3, <2>4, <2>5
<1>15. QED
  BY <1>1, <1>3, <1>6, <1>7, <1>9, <1>10, <1>12, <1>13, <1>14 DEF RingOK

\* The ring with a node it did not have.
LEMMA AddNode ==
  ASSUME NEW r, RingOK(r), NEW n \in Nodes, NEW k \in 0..MaxReplicas, r.nodeReplicas[n] = 0,
         NEW u, u = addNode(r, n, k)
  PROVE  /\ RingOK(u)
         /\ u.nodeReplicas = [r.nodeReplicas EXCEPT ![n] = k]
         /\ Live(u) = Live(r) \cup Of(n, k)
         /\ \A x \in AllPoints : u.hashMap[x] =
              IF \E v \in Of(n, k) : Hash(v) = x THEN n ELSE r.hashMap[x]
<1>1. PICK w : w = Virtual(n, k)
  OBVIOUS
<1>2. /\ r.keys \in PointSeqs /\ r.hashMap \in [AllPoints -> Owners]
      /\ r.nodeReplicas \in [Nodes -> 0..MaxReplicas]
  BY DEF RingOK, RingType
<1>3. PICK ks, hm, nr :
        /\ ks = r.keys \o w
        /\ hm = [h \in AllPoints |-> IF h \in Range(w) THEN n ELSE r.hashMap[h]]
        /\ nr = [r.nodeReplicas EXCEPT ![n] = k]
  OBVIOUS
<1>4. u = [keys |-> ks, hashMap |-> hm, nodeReplicas |-> nr]
  BY <1>1, <1>3 DEF addNode
<1>5. nr \in [Nodes -> 0..MaxReplicas] /\ \A o \in Nodes : nr[o] = IF o = n THEN k ELSE r.nodeReplicas[o]
  BY <1>2, <1>3
<1>6. u.keys = ks /\ u.hashMap = hm /\ u.nodeReplicas = nr
  BY <1>4
<1>7. \A v : v \in Live(r) <=> \E o \in Nodes : v \in Of(o, r.nodeReplicas[o])
  BY <1>2, LiveFacts
<1>8. Live(u) = Live(r) \cup Of(n, k) /\ Live(r) \cap Of(n, k) = {}
  <2>1. \A v : v \in Live(u) <=> \E o \in Nodes : v \in Of(o, nr[o])
    BY <1>5, <1>6, LiveFacts
  <2>2. Of(n, 0) = {}
    BY DEF Of
  <2>3. QED
    BY <1>5, <1>7, <2>1, <2>2, OfDisjoint
<1>9. Of(n, k) \subseteq VirtualNodes /\ Live(r) \subseteq VirtualNodes
  BY <1>2, LiveFacts, VirtualFacts
<1>10. PointsOf(ks, Live(u))
  BY <1>1, <1>3, <1>8, AppendPoints DEF RingOK
<1>11. \A x \in AllPoints : hm[x] = IF \E v \in Of(n, k) : Hash(v) = x THEN n ELSE r.hashMap[x]
  BY <1>1, <1>3, RangeVirtual
<1>12. hm \in [AllPoints -> Owners]
  BY <1>2, <1>3 DEF Owners
<1>13. u \in RingType
  BY <1>4, <1>5, <1>10, <1>12 DEF RingType, PointsOf
<1>14. Held(u)
  <2> SUFFICES ASSUME NEW x \in AllPoints, hm[x] # None
               PROVE  \E v \in Live(u) : v[1] = hm[x] /\ Hash(v) = x
    BY <1>6 DEF Held
  <2>1. CASE \E v \in Of(n, k) : Hash(v) = x
    BY <1>8, <1>11, <2>1, OfDisjoint
  <2>2. CASE ~\E v \in Of(n, k) : Hash(v) = x
    <3>1. hm[x] = r.hashMap[x]
      BY <1>11, <2>2
    <3>2. PICK v \in Live(r) : v[1] = r.hashMap[x] /\ Hash(v) = x
      BY <3>1 DEF RingOK, Held
    <3>3. QED
      BY <1>8, <3>1, <3>2
  <2>3. QED
    BY <2>1, <2>2
<1>15. Mapped(u)
  <2> SUFFICES ASSUME NEW v \in Live(u), ~Shared(Hash(v)) PROVE hm[Hash(v)] = v[1]
    BY <1>6 DEF Mapped
  <2>1. v \in VirtualNodes /\ Hash(v) \in AllPoints
    BY <1>8, <1>9, PointTypes
  <2>2. CASE v \in Of(n, k)
    BY <1>11, <2>1, <2>2, OfDisjoint
  <2>3. CASE v \notin Of(n, k)
    <3>1. v \in Live(r)
      BY <1>8, <2>3
    <3>2. v[1] # n
      <4>1. PICK o \in Nodes : v \in Of(o, r.nodeReplicas[o])
        BY <1>7, <3>1
      <4>2. o # n
        BY <4>1 DEF Of
      <4>3. QED
        BY <4>1, <4>2, OfDisjoint
    <3>3. ~\E q \in Of(n, k) : Hash(q) = Hash(v)
      <4> SUFFICES ASSUME NEW q \in Of(n, k), Hash(q) = Hash(v) PROVE FALSE
        OBVIOUS
      <4>1. q[1] = n /\ q \in VirtualNodes
        BY <1>9, OfDisjoint
      <4>2. QED
        BY <2>1, <3>2, <4>1, SharedByTwo
    <3>4. r.hashMap[Hash(v)] = v[1]
      BY <3>1 DEF RingOK, Mapped
    <3>5. QED
      BY <1>11, <2>1, <3>3, <3>4
  <2>4. QED
    BY <2>2, <2>3
<1>16. QED
  BY <1>3, <1>6, <1>8, <1>10, <1>11, <1>13, <1>14, <1>15 DEF RingOK

\* Sorting the keys changes nothing else.
LEMMA SortedRing ==
  ASSUME NEW r, RingOK(r), NEW u, u = Sorted(r)
  PROVE  /\ RingOK(u) /\ IsAscending(u.keys)
         /\ u.hashMap = r.hashMap /\ u.nodeReplicas = r.nodeReplicas /\ Live(u) = Live(r)
<1>1. r \in RingType /\ r.nodeReplicas \in [Nodes -> 0..MaxReplicas]
  BY DEF RingOK, RingType
<1>2. PICK ks : ks = SortInts(r.keys)
  OBVIOUS
<1>3. u = [r EXCEPT !.keys = ks]
  BY <1>2 DEF Sorted
<1>4. PointsOf(ks, Live(r)) /\ IsAscending(ks)
  BY <1>1, <1>2, LiveFacts, SortPoints DEF RingOK
<1>5. ks \in PointSeqs
  BY <1>4 DEF PointsOf
<1>6. u.keys = ks /\ u.hashMap = r.hashMap /\ u.nodeReplicas = r.nodeReplicas /\ u \in RingType
  BY <1>1, <1>3, <1>5 DEF RingType
<1>7. Live(u) = Live(r)
  BY <1>6 DEF Live
<1>8. Held(u) /\ Mapped(u)
  BY <1>6, <1>7 DEF RingOK, Held, Mapped
<1>9. QED
  BY <1>4, <1>6, <1>7, <1>8 DEF RingOK

\* Who is a member depends on nodeReplicas only.
LEMMA MembersOf ==
  ASSUME NEW r, NEW u, u.nodeReplicas = r.nodeReplicas
  PROVE  Members(u) = Members(r)
BY DEF Members

\* A member of the ring gets another number of virtual nodes.
LEMMA ReplaceNode ==
  ASSUME NEW r, RingOK(r), NEW n \in Members(r), NEW k \in 1..MaxReplicas,
         NEW u, u = addNode(removeNode(r, n), n, k)
  PROVE  RingOK(u) /\ Members(u) = Members(r)
<1>1. PICK w : w = removeNode(r, n)
  OBVIOUS
<1>2. n \in Nodes /\ k \in 0..MaxReplicas /\ k > 0
  BY RingAssumption DEF Members
<1>3. RingOK(w) /\ w.nodeReplicas = [r.nodeReplicas EXCEPT ![n] = 0]
  BY <1>1, <1>2, RemoveNode
<1>4. r.nodeReplicas \in [Nodes -> 0..MaxReplicas]
  BY DEF RingOK, RingType
<1>5. w.nodeReplicas[n] = 0
  BY <1>2, <1>3, <1>4
<1>6. RingOK(u) /\ u.nodeReplicas = [w.nodeReplicas EXCEPT ![n] = k]
  <2>1. u = addNode(w, n, k)
    BY <1>1
  <2>2. RingOK(w) /\ n \in Nodes /\ k \in 0..MaxReplicas /\ w.nodeReplicas[n] = 0
    BY <1>2, <1>3, <1>5
  <2>3. RingOK(u)
    BY ONLY <2>1, <2>2, AddNode
  <2>4. u.nodeReplicas = [w.nodeReplicas EXCEPT ![n] = k]
    BY ONLY <2>1, <2>2, AddNode
  <2>5. QED
    BY <2>3, <2>4
<1>7. Members(u) = Members(r)
  <2>1. \A o \in Nodes : u.nodeReplicas[o] = IF o = n THEN k ELSE r.nodeReplicas[o]
    BY <1>2, <1>3, <1>4, <1>6
  <2>2. r.nodeReplicas[n] > 0
    BY DEF Members
  <2>3. QED
    BY <1>2, <2>1, <2>2 DEF Members
<1>8. QED
  BY <1>6, <1>7

\* g is the function that Replaced defines.
IsReplaced(g, r, order, new) ==
  g = [i \in 0..Len(order) |->
         IF i = 0 THEN r
         ELSE addNode(removeNode(g[i - 1], order[i]), order[i], new[order[i]])]

\* Giving members new numbers of virtual nodes, one after the other.
LEMMA ReplacedRing ==
  ASSUME NEW r, RingOK(r), NEW order, Len(order) \in Nat,
         \A i \in 1..Len(order) : order[i] \in Members(r),
         NEW new, \A i \in 1..Len(order) : new[order[i]] \in 1..MaxReplicas,
         NEW u, u = Replaced(r, order, new)
  PROVE  RingOK(u) /\ Members(u) = Members(r)
<1>1. PICK l : l = Len(order)
  OBVIOUS
<1>2. PICK S : S = {x \in RingType : RingOK(x) /\ Members(x) = Members(r)}
  OBVIOUS
<1>3. r \in S
  BY <1>2 DEF RingOK
<1>4. ASSUME NEW i \in 1..l, NEW x \in S
      PROVE  addNode(removeNode(x, order[i]), order[i], new[order[i]]) \in S
  <2>1. PICK n, k, y : n = order[i] /\ k = new[order[i]] /\ y = addNode(removeNode(x, n), n, k)
    OBVIOUS
  <2>2. RingOK(x) /\ n \in Members(x) /\ k \in 1..MaxReplicas
    BY <1>1, <1>2, <2>1
  <2>3. RingOK(y) /\ Members(y) = Members(r)
    BY <1>2, <2>1, <2>2, ReplaceNode
  <2>4. QED
    BY <1>2, <2>1, <2>3 DEF RingOK
<1>5. PICK F : F = [i \in 1..l |-> [x \in S |->
                      addNode(removeNode(x, order[i]), order[i], new[order[i]])]]
  OBVIOUS
<1>6. \A i \in 1..l : \A x \in S :
        F[i][x] = addNode(removeNode(x, order[i]), order[i], new[order[i]])
  BY <1>5
<1>7. \A i \in 1..l : \A x \in S : F[i][x] \in S
  BY <1>4, <1>6
<1>8. PICK f : IsRun(f, l, r, F) /\ \A i \in 0..l : f[i] \in S
  BY <1>1, <1>3, <1>7, RunExists
<1>9. IsReplaced(f, r, order, new)
  <2>1. f = [i \in 0..l |-> IF i = 0 THEN r ELSE F[i][f[i - 1]]]
    BY <1>8 DEF IsRun
  <2>2. ASSUME NEW i \in 0..l, i # 0
        PROVE  F[i][f[i - 1]] = addNode(removeNode(f[i - 1], order[i]), order[i], new[order[i]])
    <3>1. i \in 1..l /\ i - 1 \in 0..l
      BY <1>1, <2>2
    <3>2. QED
      BY <1>6, <1>8, <3>1
  <2>3. f = [i \in 0..l |-> IF i = 0 THEN r
                            ELSE addNode(removeNode(f[i - 1], order[i]), order[i], new[order[i]])]
    BY <2>1, <2>2
  <2>4. QED
    BY <1>1, <2>3 DEF IsReplaced
<1>10. PICK g : g = CHOOSE rings : rings =
         [i \in 0..Len(order) |->
            IF i = 0 THEN r
            ELSE addNode(removeNode(rings[i - 1], order[i]), order[i], new[order[i]])]
  OBVIOUS
<1>11. u = g[l]
  BY <1>1, <1>10, Zenon DEF Replaced
<1>12. IsReplaced(g, r, order, new)
  <2>1. g = CHOOSE rings : IsReplaced(rings, r, order, new)
    BY <1>10, Zenon DEF IsReplaced
  <2>2. QED
    BY <1>9, <2>1, Zenon
<1>13. \A i \in 0..l : g[i] =
         IF i = 0 THEN r ELSE addNode(removeNode(g[i - 1], order[i]), order[i], new[order[i]])
  BY <1>1, <1>12, Zenon DEF IsReplaced
<1>14. PICK T : T = {i \in 0..l : g[i] \in S}
  OBVIOUS
<1>15. 0 \in T
  <2>1. 0 \in 0..l
    BY <1>1
  <2>2. g[0] = r
    BY <1>13, <2>1, Zenon
  <2>3. QED
    BY <1>3, <1>14, <2>1, <2>2
<1>16. ASSUME NEW i \in 1..l, i - 1 \in T PROVE i \in T
  <2>1. i \in 0..l /\ i # 0
    BY <1>1
  <2>2. g[i] = addNode(removeNode(g[i - 1], order[i]), order[i], new[order[i]])
    BY <1>13, <2>1, Zenon
  <2>3. g[i - 1] \in S
    BY <1>14, <1>16
  <2>4. g[i] \in S
    BY <1>4, <2>2, <2>3, Zenon
  <2>5. QED
    BY <1>14, <2>1, <2>4
<1>17. l \in T
  <2>1. \A i \in 0..l : i \in T
    BY <1>1, <1>15, <1>16, Counting
  <2>2. QED
    BY <1>1, <2>1
<1>18. QED
  BY <1>2, <1>11, <1>14, <1>17

-----------------------------------------------------------------------------
(* The invariant *)

\* No counter is ahead of the total, so a counter never exceeds its bound; the
\* total is reset by the balancer only, so it divides by a positive one.
CountsOK ==
  /\ nodeCounts \in [Owners -> -1..MaxRequests]
  /\ totalRequests \in 0..MaxRequests
  /\ \A n \in Owners : nodeCounts[n] <= totalRequests
  /\ balancer \in [pc : {"idle", "size", "counts", "rebalance"},
                   total : 0..MaxRequests, size : 0..Cardinality(Nodes)]
  /\ balancer.pc # "idle" => totalRequests >= MinSample

RingInv == RingOK(ring) /\ IsAscending(ring.keys) /\ CountsOK

\* The limits, apart from the assumption on points.
LEMMA Numbers ==
  /\ MaxReplicas \in Nat /\ DefaultReplicas \in 1..MaxReplicas /\ MinReplicas \in 1..MaxReplicas
  /\ MinReplicas \in Nat /\ MinReplicas <= MaxReplicas
  /\ MinSample \in Nat \ {0} /\ MaxRequests \in Nat /\ Threshold \in Nat
BY RingAssumption

\* The number of members, the divisor in checkAndRebalance.
LEMMA MembersFinite ==
  ASSUME NEW r
  PROVE  /\ IsFiniteSet(Members(r)) /\ Cardinality(Nodes) \in Nat
         /\ Cardinality(Members(r)) \in 0..Cardinality(Nodes)
<1>1. IsFiniteSet(Nodes) /\ Members(r) \subseteq Nodes
  BY RingAssumption DEF Members
<1>2. IsFiniteSet(Members(r)) /\ Cardinality(Members(r)) <= Cardinality(Nodes)
  BY <1>1, FS_Subset
<1>3. Cardinality(Nodes) \in Nat /\ Cardinality(Members(r)) \in Nat
  BY <1>1, <1>2, FS_CardinalityType
<1>4. QED
  BY <1>2, <1>3

\* The limits on replicas are positive (lines 219-225).
LEMMA Clipped ==
  ASSUME NEW x \in Int
  PROVE  Clip(x) \in 1..MaxReplicas
BY Numbers DEF Clip

\* Integer division.
LEMMA Quotient ==
  ASSUME NEW a \in Int, NEW b \in Int, b > 0
  PROVE  a \div b \in Int
OBVIOUS

\* The new number of virtual nodes is within the limits.
LEMMA NewReplicas ==
  ASSUME NEW replicas \in Int, NEW count \in Int, NEW size \in Int,
         totalRequests \in Nat, totalRequests > 0
  PROVE  newReplicas(replicas, count, size) \in 1..MaxReplicas
<1>1. PICK a, b, e : /\ a = count * size /\ b = replicas * totalRequests
                     /\ e = replicas * (2 * totalRequests - a)
  OBVIOUS
<1>2. a \in Int /\ b \in Int /\ e \in Int
  BY <1>1
<1>3. CASE a > totalRequests
  <2>1. a > 0
    BY <1>2, <1>3
  <2>2. b \div a \in Int
    BY <1>2, <2>1, Quotient
  <2>3. newReplicas(replicas, count, size) = Clip(b \div a)
    BY <1>1, <1>3 DEF newReplicas
  <2>4. QED
    BY <2>2, <2>3, Clipped
<1>4. CASE ~(a > totalRequests)
  <2>1. e \div totalRequests \in Int
    BY <1>2, Quotient
  <2>2. newReplicas(replicas, count, size) = Clip(e \div totalRequests)
    BY <1>1, <1>4 DEF newReplicas
  <2>3. QED
    BY <2>1, <2>2, Clipped
<1>5. QED
  BY <1>3, <1>4

\* New establishes the invariant.
LEMMA Initially ==
  ASSUME RingInit
  PROVE  RingInv
<1>1. PICK hm, nr : hm = [h \in AllPoints |-> None] /\ nr = [n \in Nodes |-> 0]
  OBVIOUS
<1>2. ring = [keys |-> <<>>, hashMap |-> hm, nodeReplicas |-> nr]
  BY <1>1 DEF RingInit
<1>3. ring.keys = <<>> /\ ring.hashMap = hm /\ ring.nodeReplicas = nr
  BY <1>2
<1>4. nr \in [Nodes -> 0..MaxReplicas] /\ hm \in [AllPoints -> Owners]
  BY <1>1, Numbers DEF Owners
<1>5. Live(ring) = {}
  <2>1. ASSUME NEW v \in Live(ring) PROVE FALSE
    <3>1. PICK n \in Nodes : v \in Of(n, nr[n])
      BY <1>3, <1>4, LiveFacts
    <3>2. nr[n] = 0 /\ 0..(0 - 1) = {}
      BY <1>1
    <3>3. QED
      BY <3>1, <3>2 DEF Of
  <2>2. QED
    BY <2>1
<1>6. PointsOf(ring.keys, Live(ring)) /\ IsAscending(ring.keys)
  BY <1>3, <1>5, NoPoints
<1>7. ring \in RingType
  BY <1>2, <1>4, <1>6, <1>3 DEF RingType, PointsOf
<1>8. Held(ring) /\ Mapped(ring)
  BY <1>1, <1>3, <1>5 DEF Held, Mapped
<1>9. CountsOK
  <2>1. Cardinality(Nodes) \in Nat
    BY MembersFinite
  <2>2. balancer = [pc |-> "idle", total |-> 0, size |-> 0]
    BY DEF RingInit, Idle
  <2>3. QED
    BY <2>1, <2>2, Numbers DEF RingInit, CountsOK, Owners
<1>10. QED
  BY <1>6, <1>7, <1>8, <1>9 DEF RingInv, RingOK

\* Add: the members gain n, and its points are its own in the map.
LEMMA AddInv ==
  ASSUME RingInv, NEW n \in Nodes, Add(n)
  PROVE  /\ RingInv'
         /\ ring'.nodeReplicas = [ring.nodeReplicas EXCEPT ![n] = DefaultReplicas]
         /\ Live(ring') = Live(ring) \cup Of(n, DefaultReplicas)
         /\ \A x \in AllPoints : ring'.hashMap[x] =
              IF \E v \in Of(n, DefaultReplicas) : Hash(v) = x THEN n ELSE ring.hashMap[x]
<1>1. PICK u : u = addNode(ring, n, DefaultReplicas)
  OBVIOUS
<1>2. RingOK(ring) /\ DefaultReplicas \in 0..MaxReplicas /\ ring' = Sorted(u)
  BY <1>1, Numbers DEF RingInv, Add
<1>3. ring.nodeReplicas[n] = 0
  <2>1. ring.nodeReplicas[n] \in 0..MaxReplicas /\ ~(ring.nodeReplicas[n] > 0)
    BY <1>2 DEF Add, Members, RingOK, RingType
  <2>2. QED
    BY <2>1, Numbers
<1>4. /\ RingOK(u)
      /\ u.nodeReplicas = [ring.nodeReplicas EXCEPT ![n] = DefaultReplicas]
      /\ Live(u) = Live(ring) \cup Of(n, DefaultReplicas)
      /\ \A x \in AllPoints : u.hashMap[x] =
           IF \E v \in Of(n, DefaultReplicas) : Hash(v) = x THEN n ELSE ring.hashMap[x]
  BY ONLY n \in Nodes, <1>1, <1>2, <1>3, AddNode
<1>5. /\ RingOK(ring') /\ IsAscending(ring'.keys)
      /\ ring'.hashMap = u.hashMap /\ ring'.nodeReplicas = u.nodeReplicas /\ Live(ring') = Live(u)
  BY ONLY <1>2, <1>4, SortedRing
<1>6. CountsOK'
  BY DEF RingInv, CountsOK, Add
<1>7. QED
  BY <1>4, <1>5, <1>6 DEF RingInv

\* Remove: the members lose n, and its points have no node in the map.
LEMMA RemoveInv ==
  ASSUME RingInv, NEW n \in Nodes, Remove(n)
  PROVE  /\ RingInv'
         /\ ring'.nodeReplicas = [ring.nodeReplicas EXCEPT ![n] = 0]
         /\ Live(ring') = Live(ring) \ Of(n, ring.nodeReplicas[n])
         /\ \A x \in AllPoints : ring'.hashMap[x] =
              IF \E v \in Of(n, ring.nodeReplicas[n]) : Hash(v) = x THEN None ELSE ring.hashMap[x]
<1>1. RingOK(ring) /\ IsAscending(ring.keys) /\ ring' = removeNode(ring, n)
  BY DEF RingInv, Remove
<1>2. /\ RingOK(ring')
      /\ ring'.nodeReplicas = [ring.nodeReplicas EXCEPT ![n] = 0]
      /\ IsAscending(ring.keys) => IsAscending(ring'.keys)
      /\ Live(ring') = Live(ring) \ Of(n, ring.nodeReplicas[n])
      /\ \A x \in AllPoints : ring'.hashMap[x] =
           IF \E v \in Of(n, ring.nodeReplicas[n]) : Hash(v) = x THEN None ELSE ring.hashMap[x]
  BY ONLY n \in Nodes, <1>1, RemoveNode
<1>3. CountsOK'
  <2>1. n \in Owners /\ nodeCounts' = [nodeCounts EXCEPT ![n] = -1]
        /\ totalRequests' = totalRequests /\ balancer' = balancer
    BY DEF Remove, Owners
  <2>2. QED
    BY <2>1, Numbers DEF RingInv, CountsOK
<1>4. QED
  BY <1>1, <1>2, <1>3 DEF RingInv

\* Get counts, and does not touch the ring.
LEMMA GetInv ==
  ASSUME RingInv, NEW h \in Hashes, Get(h)
  PROVE  RingInv' /\ ring' = ring
<1>1. PICK n : nodeCounts' = [nodeCounts EXCEPT ![n] = IF @ = -1 THEN 1 ELSE @ + 1]
  BY DEF Get
<1>2. /\ totalRequests < MaxRequests /\ totalRequests' = totalRequests + 1
      /\ ring' = ring /\ balancer' = balancer
  BY DEF Get
<1>3. CountsOK
  BY DEF RingInv
<1>4. totalRequests \in Nat /\ totalRequests' \in 0..MaxRequests
  BY <1>2, <1>3, Numbers DEF CountsOK
<1>5. ASSUME NEW m \in Owners
      PROVE  nodeCounts'[m] \in -1..MaxRequests /\ nodeCounts'[m] <= totalRequests'
  <2>1. nodeCounts[m] \in Int /\ nodeCounts[m] >= -1 /\ nodeCounts[m] <= totalRequests
    BY <1>3, Numbers DEF CountsOK
  <2>2. nodeCounts'[m] = IF m = n THEN (IF nodeCounts[m] = -1 THEN 1 ELSE nodeCounts[m] + 1)
                         ELSE nodeCounts[m]
    BY <1>1, <1>3 DEF CountsOK
  <2>3. QED
    BY <1>2, <1>4, <2>1, <2>2, Numbers
<1>6. nodeCounts' \in [Owners -> -1..MaxRequests]
  <2>1. nodeCounts' = [m \in Owners |-> nodeCounts'[m]]
    BY <1>1, <1>3 DEF CountsOK
  <2>2. QED
    BY <1>5, <2>1
<1>7. CountsOK'
  BY <1>2, <1>3, <1>4, <1>5, <1>6, Numbers DEF CountsOK
<1>8. QED
  BY <1>2, <1>7 DEF RingInv

\* The checks of the balancer, and a rebalancing that finds no node, leave the ring alone.
LEMMA CheckInv ==
  ASSUME RingInv, CheckTotal \/ CheckSize \/ CheckUneven \/ CheckEven \/ RebalanceEmpty
  PROVE  RingInv' /\ ring' = ring
<1>1. ring' = ring /\ nodeCounts' = nodeCounts /\ totalRequests' = totalRequests
  BY DEF CheckTotal, CheckSize, CheckUneven, CheckEven, RebalanceEmpty
<1>2. CountsOK
  BY DEF RingInv
<1>3. PICK B : B = [pc : {"idle", "size", "counts", "rebalance"},
                    total : 0..MaxRequests, size : 0..Cardinality(Nodes)]
  OBVIOUS
<1>4. Cardinality(Nodes) \in Nat /\ Cardinality(Members(ring)) \in 0..Cardinality(Nodes)
  BY MembersFinite
<1>5. Idle \in B /\ Idle.pc = "idle"
  BY <1>3, <1>4, Numbers DEF Idle
<1>6. balancer' \in B /\ (balancer'.pc # "idle" => totalRequests >= MinSample)
  <2>1. CASE CheckTotal
    BY <1>2, <1>3, <2>1 DEF CheckTotal, CountsOK
  <2>2. CASE CheckSize
    BY <1>2, <1>3, <1>4, <1>5, <2>2 DEF CheckSize, CountsOK
  <2>3. CASE CheckUneven
    BY <1>2, <1>3, <1>4, <2>3, Numbers DEF CheckUneven, CountsOK, Idle
  <2>4. CASE CheckEven \/ RebalanceEmpty
    BY <1>5, <2>4 DEF CheckEven, RebalanceEmpty
  <2>5. QED
    BY <2>1, <2>2, <2>3, <2>4
<1>7. CountsOK'
  BY <1>1, <1>2, <1>3, <1>6 DEF CountsOK
<1>8. QED
  BY <1>1, <1>7 DEF RingInv

\* Rebalancing keeps the members, in whatever order it visits them.
LEMMA RebalanceInv ==
  ASSUME RingInv, Rebalance
  PROVE  RingInv' /\ Members(ring') = Members(ring)
<1>1. PICK size, new, moved :
        /\ size = Cardinality(Members(ring))
        /\ new = [n \in Counted \cap Members(ring) |->
                    newReplicas(ring.nodeReplicas[n], nodeCounts[n], size)]
        /\ moved = {n \in DOMAIN new : new[n] # ring.nodeReplicas[n]}
  OBVIOUS
<1>2. PICK order \in Sq!SetToSeqs(moved) : ring' = Sorted(Replaced(ring, order, new))
  BY <1>1 DEF Rebalance
<1>3. /\ nodeCounts' = [n \in Nodes \cup {None} |-> IF n \in Counted \ moved THEN 0 ELSE -1]
      /\ totalRequests' = 0 /\ balancer' = Idle /\ balancer.pc = "rebalance"
  BY <1>1 DEF Rebalance
<1>4. CountsOK /\ RingOK(ring)
  BY DEF RingInv
<1>5. size \in Int /\ totalRequests \in Nat /\ totalRequests > 0
  <2>1. size \in Nat
    BY <1>1, MembersFinite
  <2>2. QED
    BY <1>3, <1>4, <2>1, Numbers DEF CountsOK
<1>6. \A n \in Counted \cap Members(ring) : new[n] \in 1..MaxReplicas
  <2> SUFFICES ASSUME NEW n \in Counted \cap Members(ring) PROVE new[n] \in 1..MaxReplicas
    OBVIOUS
  <2>1. n \in Nodes /\ n \in Owners
    BY DEF Members, Owners
  <2>2. ring.nodeReplicas[n] \in Int /\ nodeCounts[n] \in Int
    BY <1>4, <2>1, Numbers DEF CountsOK, RingOK, RingType
  <2>3. new[n] = newReplicas(ring.nodeReplicas[n], nodeCounts[n], size)
    BY <1>1
  <2>4. QED
    BY <1>5, <2>2, <2>3, NewReplicas
<1>7. moved \subseteq Counted \cap Members(ring)
  BY <1>1
<1>8. Len(order) \in Nat /\ \A i \in 1..Len(order) : order[i] \in moved
  <2>1. IsFiniteSet(moved)
    BY <1>7, MembersFinite, FS_Subset
  <2>2. Cardinality(moved) \in Nat
    BY <2>1, FS_CardinalityType
  <2>3. order \in [1..Cardinality(moved) -> moved]
    BY DEF Sq!SetToSeqs, Sq!Cardinality, Cardinality
  <2>4. order \in Seq(moved)
    BY <2>2, <2>3, SeqDef
  <2>5. QED
    BY <2>4, LenProperties, ElementOfSeq
<1>9. PICK u : u = Replaced(ring, order, new)
  OBVIOUS
<1>10. RingOK(u) /\ Members(u) = Members(ring)
  <2>1. /\ \A i \in 1..Len(order) : order[i] \in Members(ring)
        /\ \A i \in 1..Len(order) : new[order[i]] \in 1..MaxReplicas
    BY <1>6, <1>7, <1>8
  <2>2. QED
    BY <1>4, <1>8, <1>9, <2>1, ReplacedRing
<1>11. RingOK(ring') /\ IsAscending(ring'.keys) /\ ring'.nodeReplicas = u.nodeReplicas
  BY <1>2, <1>9, <1>10, SortedRing
<1>12. Members(ring') = Members(ring)
  BY <1>10, <1>11, MembersOf
<1>13. CountsOK'
  <2>1. Cardinality(Nodes) \in Nat
    BY MembersFinite
  <2>2. balancer' = [pc |-> "idle", total |-> 0, size |-> 0]
    BY <1>3 DEF Idle
  <2>3. nodeCounts' \in [Owners -> -1..MaxRequests]
    BY <1>3, Numbers DEF Owners
  <2>4. \A n \in Owners : nodeCounts'[n] <= 0
    BY <1>3 DEF Owners
  <2>5. QED
    BY <1>3, <2>1, <2>2, <2>3, <2>4, Numbers DEF CountsOK
<1>14. QED
  BY <1>11, <1>12, <1>13 DEF RingInv

\* Every step preserves the invariant.
LEMMA RingStep ==
  ASSUME RingInv, [RingNext]_ringVars
  PROVE  RingInv'
<1>1. CASE UNCHANGED ringVars
  BY <1>1 DEF ringVars, RingInv, CountsOK
<1>2. ASSUME NEW n \in Nodes, Add(n) \/ Remove(n) PROVE RingInv'
  BY <1>2, AddInv, RemoveInv
<1>3. ASSUME NEW h \in Hashes, Get(h) PROVE RingInv'
  BY <1>3, GetInv
<1>4. CASE Rebalance
  BY <1>4, RebalanceInv
<1>5. CASE CheckTotal \/ CheckSize \/ CheckUneven \/ CheckEven \/ RebalanceEmpty
  BY <1>5, CheckInv
<1>6. QED
  BY <1>1, <1>2, <1>3, <1>4, <1>5 DEF RingNext

\* The ring is sorted and has exactly the virtual nodes of its members; the map
\* names a node only for a point of its own, and the only one for a point that
\* no two nodes share; counters stay within the total.
THEOREM RingInvariant == RingSpec => []RingInv
<1>1. RingInit => RingInv
  BY Initially
<1>2. RingInv /\ [RingNext]_ringVars => RingInv'
  BY RingStep
<1>3. QED
  BY <1>1, <1>2, PTL DEF RingSpec

-----------------------------------------------------------------------------
(* Where keys go *)

\* Going clockwise from h, different points are at different distances.
LEMMA DistanceFacts ==
  ASSUME NEW h \in 0..MaxHash, NEW x \in 0..MaxHash, NEW y \in 0..MaxHash
  PROVE  /\ Distance(h, x) \in Nat /\ Distance(h, y) \in Nat
         /\ Distance(h, x) <= Distance(h, y) <=>
              \/ x >= h /\ y >= h /\ x <= y
              \/ x >= h /\ ~(y >= h)
              \/ ~(x >= h) /\ ~(y >= h) /\ x <= y
         /\ Distance(h, x) <= Distance(h, y) /\ Distance(h, y) <= Distance(h, x) => x = y
<1>1. MaxHash \in Nat
  BY PointTypes
<1>2. QED
  BY <1>1 DEF Distance

\* The search on ascending keys finds the next point.
LEMMA SearchFindsNext ==
  ASSUME NEW r, r.keys \in PointSeqs, IsAscending(r.keys), Len(r.keys) # 0, NEW h \in 0..MaxHash
  PROVE  \E p \in 1..Len(r.keys) :
           /\ Point(r, h) = r.keys[p]
           /\ \A q \in 1..Len(r.keys) : Distance(h, r.keys[p]) <= Distance(h, r.keys[q])
<1>1. PICK s, l : s = r.keys /\ l = Len(s)
  OBVIOUS
<1>2. l \in Nat /\ l # 0 /\ h \in Nat /\ \A i \in 1..l : s[i] \in 0..MaxHash /\ s[i] \in Nat
  BY <1>1, SeqFacts, PointTypes
<1>3. \A i, j \in 1..l : i <= j => s[i] <= s[j]
  BY <1>1 DEF IsAscending
<1>4. PICK I : I = {i \in 1..l : s[i] >= h}
  OBVIOUS
<1>5. Point(r, h) = s[IF I # {} THEN (IF Sq!Min(I) = 0 THEN 1 ELSE Sq!Min(I)) ELSE 1]
  BY <1>1, <1>4 DEF Point, Sq!SelectInSeq
<1>6. CASE I # {}
  <2>1. PICK p : p = Sq!Min(I)
    OBVIOUS
  <2>2. p \in I /\ \A y \in I : p <= y
    <3>1. I \subseteq Nat
      BY <1>4
    <3>2. QED
      BY <1>6, <2>1, <3>1, Least DEF Sq!Min
  <2>3. p \in 1..l /\ p # 0 /\ s[p] >= h
    BY <1>4, <2>2
  <2>4. Point(r, h) = s[p]
    BY <1>5, <1>6, <2>1, <2>3
  <2>5. ASSUME NEW q \in 1..l PROVE Distance(h, s[p]) <= Distance(h, s[q])
    <3>1. CASE s[q] >= h
      <4>1. p <= q
        BY <1>4, <2>2, <3>1
      <4>2. s[p] <= s[q]
        BY <1>3, <2>3, <4>1
      <4>3. QED
        BY <1>2, <2>3, <3>1, <4>2, DistanceFacts
    <3>2. CASE ~(s[q] >= h)
      BY <1>2, <2>3, <3>2, DistanceFacts
    <3>3. QED
      BY <3>1, <3>2
  <2>6. QED
    BY <1>1, <2>3, <2>4, <2>5
<1>7. CASE I = {}
  <2>1. 1 \in 1..l /\ Point(r, h) = s[1]
    BY <1>2, <1>5, <1>7
  <2>2. ASSUME NEW q \in 1..l PROVE Distance(h, s[1]) <= Distance(h, s[q])
    <3>1. ~(s[1] >= h) /\ ~(s[q] >= h)
      BY <1>4, <1>7, <2>1
    <3>2. s[1] <= s[q]
      BY <1>3, <2>1
    <3>3. QED
      BY <1>2, <2>1, <3>1, <3>2, DistanceFacts
  <2>3. QED
    BY <1>1, <2>1, <2>2
<1>8. QED
  BY <1>6, <1>7

\* q is the virtual node after h.
Nearest(r, h, q) ==
  q \in Live(r) /\ \A o \in Live(r) : Distance(h, Hash(q)) <= Distance(h, Hash(o))

\* The search finds the point of the virtual node after h, and of no other.
LEMMA PointIsNearest ==
  ASSUME NEW r, RingOK(r), IsAscending(r.keys), Live(r) # {}, NEW h \in 0..MaxHash
  PROVE  /\ \E q : Nearest(r, h, q) /\ Hash(q) = Point(r, h)
         /\ \A q : Nearest(r, h, q) => Hash(q) = Point(r, h)
<1>1. PICK s, l : s = r.keys /\ l = Len(s)
  OBVIOUS
<1>2. s \in PointSeqs /\ l \in Nat
  BY <1>1, SeqFacts DEF RingOK, PointsOf
<1>3. PICK B : Labels(B, s, Live(r))
  BY <1>1 DEF RingOK, PointsOf
<1>4. /\ B \in [1..l -> Live(r)]
      /\ \A v \in Live(r) : \E p \in 1..l : B[p] = v
      /\ \A p \in 1..l : s[p] = Hash(B[p])
  BY <1>1, <1>3 DEF Labels
<1>5. l # 0
  BY <1>2, <1>4
<1>6. PICK p \in 1..l : /\ Point(r, h) = s[p]
                        /\ \A q \in 1..l : Distance(h, s[p]) <= Distance(h, s[q])
  BY <1>1, <1>2, <1>5, SearchFindsNext
<1>7. Nearest(r, h, B[p]) /\ Hash(B[p]) = Point(r, h)
  <2>1. B[p] \in Live(r) /\ Hash(B[p]) = s[p]
    BY <1>4
  <2>2. ASSUME NEW o \in Live(r) PROVE Distance(h, Hash(B[p])) <= Distance(h, Hash(o))
    <3>1. PICK q \in 1..l : B[q] = o
      BY <1>4
    <3>2. s[q] = Hash(o)
      BY <1>4, <3>1
    <3>3. QED
      BY <1>6, <2>1, <3>2
  <2>3. QED
    BY <1>6, <2>1, <2>2 DEF Nearest
<1>8. ASSUME NEW q, Nearest(r, h, q) PROVE Hash(q) = Point(r, h)
  <2>1. q \in Live(r) /\ B[p] \in Live(r)
    BY <1>7, <1>8 DEF Nearest
  <2>2. Hash(q) \in 0..MaxHash /\ Hash(B[p]) \in 0..MaxHash
    <3>1. Live(r) \subseteq VirtualNodes
      BY LiveFacts DEF RingOK, RingType
    <3>2. QED
      BY <2>1, <3>1, PointTypes
  <2>3. Distance(h, Hash(q)) <= Distance(h, Hash(B[p])) /\ Distance(h, Hash(B[p])) <= Distance(h, Hash(q))
    BY <1>7, <1>8, <2>1 DEF Nearest
  <2>4. QED
    BY <1>7, <2>2, <2>3, DistanceFacts
<1>9. QED
  BY <1>7, <1>8

\* A member has a virtual node.
LEMMA MembersLive ==
  ASSUME NEW r, RingOK(r), Members(r) # {}
  PROVE  Live(r) # {}
<1>1. PICK n \in Nodes : r.nodeReplicas[n] > 0
  BY DEF Members
<1>2. r.nodeReplicas \in [Nodes -> 0..MaxReplicas]
  BY DEF RingOK, RingType
<1>3. r.nodeReplicas[n] \in Nat
  BY <1>2, Numbers
<1>4. 0 \in 0..(r.nodeReplicas[n] - 1)
  BY <1>1, <1>3
<1>5. <<n, 0>> \in Of(n, r.nodeReplicas[n])
  BY <1>4 DEF Of
<1>6. QED
  BY <1>2, <1>5, LiveFacts

\* The invariant gives Clockwise.
LEMMA RingInvClockwise ==
  ASSUME RingInv
  PROVE  Clockwise
<1>1. RingOK(ring) /\ IsAscending(ring.keys) /\ CountsOK
  BY DEF RingInv
<1>2. RingTypeOK
  BY <1>1 DEF RingOK, RingType, PointSeqs, Owners, CountsOK, RingTypeOK
<1>3. ASSUME Members(ring) # {}, NEW h \in Hashes
      PROVE  \E q \in Live(ring) :
               /\ \A o \in Live(ring) : Distance(h, Hash(q)) <= Distance(h, Hash(o))
               /\ \/ Lookup(ring, h) = q[1]
                  \/ Lookup(ring, h) = None /\ Shared(Hash(q))
  <2>1. h \in 0..MaxHash
    BY RingAssumption
  <2>2. Live(ring) # {}
    BY <1>1, <1>3, MembersLive
  <2>3. PICK q : Nearest(ring, h, q) /\ Hash(q) = Point(ring, h)
    BY <1>1, <2>1, <2>2, PointIsNearest
  <2>4. PICK x : x = Hash(q)
    OBVIOUS
  <2>5. q \in Live(ring) /\ q[1] \in Nodes /\ x \in AllPoints
    <3>1. Live(ring) \subseteq VirtualNodes /\ \A v \in Live(ring) : v[1] \in Nodes
      BY <1>1, LiveFacts DEF RingOK, RingType
    <3>2. QED
      BY <2>3, <2>4, <3>1, PointTypes DEF Nearest
  <2>6. Lookup(ring, h) = ring.hashMap[x]
    BY <2>3, <2>4 DEF Lookup
  <2>7. CASE ring.hashMap[x] # None
    <3>1. PICK v \in Live(ring) : v[1] = ring.hashMap[x] /\ Hash(v) = x
      BY <1>1, <2>5, <2>7 DEF RingOK, Held
    <3>2. \A o \in Live(ring) : Distance(h, Hash(v)) <= Distance(h, Hash(o))
      BY <2>3, <2>4, <3>1 DEF Nearest
    <3>3. QED
      BY <2>6, <3>1, <3>2
  <2>8. CASE ring.hashMap[x] = None
    <3>1. Shared(x)
      <4>1. None \notin Nodes
        BY RingAssumption
      <4>2. QED
        BY <1>1, <2>4, <2>5, <2>8, <4>1 DEF RingOK, Mapped
    <3>2. QED
      BY <2>3, <2>4, <2>5, <2>6, <2>8, <3>1 DEF Nearest
  <2>9. QED
    BY <2>7, <2>8
<1>4. QED
  BY <1>2, <1>3 DEF Clockwise

\* A key goes to the member whose virtual node is next on the ring, whatever was
\* added, removed and rebalanced before.
THEOREM KeysGoClockwise == RingSpec => []Clockwise
<1>1. RingInv => Clockwise
  BY RingInvClockwise
<1>2. QED
  BY <1>1, RingInvariant, PTL

\* What OnlyAffectedKeysMove says of one step.
KeysStay ==
  \A n \in Nodes, h \in Hashes :
    Members(ring) # {} /\ Members(ring') # {} =>
      /\ Members(ring') = Members(ring) \cup {n} /\ n \notin Members(ring)
           => Lookup(ring', h) \in {Lookup(ring, h), n}
      /\ Members(ring') = Members(ring) \ {n} /\ n \in Members(ring)
           => Lookup(ring, h) \in {Lookup(ring', h), n} \/ Shared(Point(ring, h))

\* A step that keeps the members.
LEMMA SameMembers ==
  ASSUME Members(ring') = Members(ring)
  PROVE  KeysStay
BY DEF KeysStay

\* The key of a new node's neighbour moves to the new node or stays.
LEMMA AddMoves ==
  ASSUME RingInv, NEW m \in Nodes, Add(m), NEW h \in Hashes,
         Members(ring) # {}, Members(ring') # {}
  PROVE  Lookup(ring', h) \in {Lookup(ring, h), m}
<1>1. PICK N : N = Of(m, DefaultReplicas)
  OBVIOUS
<1>2. /\ RingInv'
      /\ Live(ring') = Live(ring) \cup N
      /\ \A x \in AllPoints : ring'.hashMap[x] =
           IF \E v \in N : Hash(v) = x THEN m ELSE ring.hashMap[x]
  BY <1>1, AddInv
<1>3. RingOK(ring) /\ IsAscending(ring.keys) /\ RingOK(ring') /\ IsAscending(ring'.keys)
  BY <1>2 DEF RingInv
<1>4. h \in 0..MaxHash /\ Live(ring) # {} /\ Live(ring') # {}
  BY <1>3, RingAssumption, MembersLive
<1>5. PICK q : Nearest(ring', h, q) /\ Hash(q) = Point(ring', h)
  BY <1>3, <1>4, PointIsNearest
<1>6. Hash(q) \in AllPoints /\ q \in Live(ring')
  <2>1. Live(ring') \subseteq VirtualNodes
    BY <1>3, LiveFacts DEF RingOK, RingType
  <2>2. QED
    BY <1>5, <2>1, PointTypes DEF Nearest
<1>7. Lookup(ring', h) = ring'.hashMap[Hash(q)]
  BY <1>5 DEF Lookup
<1>8. CASE \E v \in N : Hash(v) = Hash(q)
  BY <1>2, <1>6, <1>7, <1>8
<1>9. CASE ~\E v \in N : Hash(v) = Hash(q)
  <2>1. q \in Live(ring)
    BY <1>2, <1>6, <1>9
  <2>2. Nearest(ring, h, q)
    BY <1>2, <1>5, <2>1 DEF Nearest
  <2>3. Hash(q) = Point(ring, h)
    BY <1>3, <1>4, <2>2, PointIsNearest
  <2>4. Lookup(ring, h) = ring.hashMap[Hash(q)]
    BY <2>3 DEF Lookup
  <2>5. QED
    BY <1>2, <1>6, <1>7, <1>9, <2>4
<1>10. QED
  BY <1>8, <1>9

\* A key stays unless it was the removed node's, or at a hash two nodes share.
LEMMA RemoveMoves ==
  ASSUME RingInv, NEW m \in Nodes, Remove(m), NEW h \in Hashes,
         Members(ring) # {}, Members(ring') # {}
  PROVE  Lookup(ring, h) \in {Lookup(ring', h), m} \/ Shared(Point(ring, h))
<1>1. PICK N : N = Of(m, ring.nodeReplicas[m])
  OBVIOUS
<1>2. /\ RingInv'
      /\ Live(ring') = Live(ring) \ N
      /\ \A x \in AllPoints : ring'.hashMap[x] =
           IF \E v \in N : Hash(v) = x THEN None ELSE ring.hashMap[x]
  BY <1>1, RemoveInv
<1>3. RingOK(ring) /\ IsAscending(ring.keys) /\ RingOK(ring') /\ IsAscending(ring'.keys)
  BY <1>2 DEF RingInv
<1>4. h \in 0..MaxHash /\ Live(ring) # {} /\ Live(ring') # {}
  BY <1>3, RingAssumption, MembersLive
<1>5. PICK q : Nearest(ring, h, q) /\ Hash(q) = Point(ring, h)
  BY <1>3, <1>4, PointIsNearest
<1>6. /\ q \in Live(ring) /\ q \in VirtualNodes /\ Hash(q) \in AllPoints
      /\ N \subseteq VirtualNodes
  <2>1. Live(ring) \subseteq VirtualNodes /\ N \subseteq Live(ring)
    BY <1>1, <1>3, LiveFacts DEF RingOK, RingType
  <2>2. QED
    BY <1>5, <2>1, PointTypes DEF Nearest
<1>7. SUFFICES ASSUME ~Shared(Hash(q)), q[1] # m PROVE Lookup(ring, h) = Lookup(ring', h)
  <2>1. ~Shared(Hash(q)) => ring.hashMap[Hash(q)] = q[1]
    BY <1>3, <1>6 DEF RingOK, Mapped
  <2>2. Lookup(ring, h) = ring.hashMap[Hash(q)]
    BY <1>5 DEF Lookup
  <2>3. QED
    BY <1>5, <2>1, <2>2
<1>8. \A v \in N : v[1] = m
  BY <1>1, OfDisjoint
<1>9. ~\E v \in N : Hash(v) = Hash(q)
  BY <1>6, <1>7, <1>8, SharedByTwo
<1>10. Nearest(ring', h, q)
  <2>1. q \in Live(ring')
    BY <1>2, <1>6, <1>9
  <2>2. QED
    BY <1>2, <1>5, <2>1 DEF Nearest
<1>11. Hash(q) = Point(ring', h)
  BY <1>3, <1>4, <1>10, PointIsNearest
<1>12. QED
  BY <1>2, <1>5, <1>6, <1>9, <1>11 DEF Lookup

\* Which steps change the members.
LEMMA StepKeepsKeys ==
  ASSUME RingInv, [RingNext]_ringVars
  PROVE  KeysStay
<1>1. ring.nodeReplicas \in [Nodes -> 0..MaxReplicas]
  BY DEF RingInv, RingOK, RingType
<1>2. ASSUME NEW m \in Nodes, Add(m) PROVE KeysStay
  <2>1. m \notin Members(ring) /\ Members(ring') = Members(ring) \cup {m}
    <3>1. ring'.nodeReplicas = [ring.nodeReplicas EXCEPT ![m] = DefaultReplicas]
      BY <1>2, AddInv
    <3>2. DefaultReplicas > 0
      BY Numbers
    <3>3. QED
      BY <1>1, <1>2, <3>1, <3>2 DEF Members, Add
  <2>2. \A h \in Hashes : Members(ring) # {} /\ Members(ring') # {} =>
          Lookup(ring', h) \in {Lookup(ring, h), m}
    BY <1>2, AddMoves
  <2>3. QED
    BY <2>1, <2>2 DEF KeysStay
<1>3. ASSUME NEW m \in Nodes, Remove(m) PROVE KeysStay
  <2>1. m \in Members(ring) /\ Members(ring') = Members(ring) \ {m}
    <3>1. ring'.nodeReplicas = [ring.nodeReplicas EXCEPT ![m] = 0]
      BY <1>3, RemoveInv
    <3>2. QED
      BY <1>1, <1>3, <3>1 DEF Members, Remove
  <2>2. \A h \in Hashes : Members(ring) # {} /\ Members(ring') # {} =>
          Lookup(ring, h) \in {Lookup(ring', h), m} \/ Shared(Point(ring, h))
    BY <1>3, RemoveMoves
  <2>3. QED
    BY <2>1, <2>2 DEF KeysStay
<1>4. ASSUME NEW h \in Hashes, Get(h) PROVE KeysStay
  BY <1>4, GetInv, SameMembers
<1>5. CASE Rebalance
  BY <1>5, RebalanceInv, SameMembers
<1>6. CASE CheckTotal \/ CheckSize \/ CheckUneven \/ CheckEven \/ RebalanceEmpty
  BY <1>6, CheckInv, SameMembers
<1>7. CASE UNCHANGED ringVars
  BY <1>7, SameMembers DEF ringVars
<1>8. QED
  BY <1>2, <1>3, <1>4, <1>5, <1>6, <1>7 DEF RingNext

\* A new node takes keys only for itself, and only the keys of a node that leaves
\* move, but for those at a hash it shares with another.
THEOREM KeysMoveMinimally == RingSpec => OnlyAffectedKeysMove
<1>1. RingInv /\ [RingNext]_ringVars => [KeysStay]_ringVars
  BY StepKeepsKeys
<1>2. RingSpec => [][KeysStay]_ringVars
  BY <1>1, RingInvariant, PTL DEF RingSpec
<1>3. QED
  BY <1>2 DEF KeysStay, OnlyAffectedKeysMove

-----------------------------------------------------------------------------
(* Membership: queues of events *)

\* The events of a queue after one more has been put into it.
LEMMA RangeAppend ==
  ASSUME NEW S, NEW q \in Seq(S), NEW e \in S
  PROVE  /\ Append(q, e) \in Seq(S)
         /\ Range(Append(q, e)) = Range(q) \cup {e}
<1>1. Len(q) \in Nat /\ DOMAIN q = 1..Len(q)
  OBVIOUS
<1>2. Append(q, e) \in Seq(S) /\ DOMAIN Append(q, e) = 1..(Len(q) + 1)
  BY <1>1, AppendProperties
<1>3. /\ \A i \in 1..Len(q) : Append(q, e)[i] = q[i]
      /\ Append(q, e)[Len(q) + 1] = e
  BY <1>1, AppendProperties
<1>4. 1..(Len(q) + 1) = 1..Len(q) \cup {Len(q) + 1}
  BY <1>1
<1>5. QED
  BY <1>1, <1>2, <1>3, <1>4 DEF Range

\* The first event and the rest of a queue.
LEMMA RangeHeadTail ==
  ASSUME NEW S, NEW q \in Seq(S), q # <<>>
  PROVE  /\ Head(q) \in S
         /\ Tail(q) \in Seq(S)
         /\ Range(q) = {Head(q)} \cup Range(Tail(q))
<1>1. Len(q) \in Nat /\ Len(q) >= 1 /\ DOMAIN q = 1..Len(q)
  BY EmptySeq
<1>2. Tail(q) \in Seq(S) /\ Len(Tail(q)) = Len(q) - 1 /\ DOMAIN Tail(q) = 1..(Len(q) - 1)
  BY <1>1
<1>3. \A i \in 1..(Len(q) - 1) : Tail(q)[i] = q[i + 1]
  BY <1>1
<1>4. Head(q) = q[1] /\ Head(q) \in S
  BY <1>1
<1>5. Range(q) \subseteq {Head(q)} \cup Range(Tail(q))
  <2> SUFFICES ASSUME NEW i \in 1..Len(q), i # 1
               PROVE  \E j \in DOMAIN Tail(q) : Tail(q)[j] = q[i]
    BY <1>1, <1>4 DEF Range
  <2>1. i - 1 \in 1..(Len(q) - 1) /\ (i - 1) + 1 = i
    BY <1>1
  <2>2. QED
    BY <2>1, <1>2, <1>3
<1>6. {Head(q)} \cup Range(Tail(q)) \subseteq Range(q)
  <2>1. Head(q) \in Range(q)
    BY <1>1, <1>4 DEF Range
  <2>2. ASSUME NEW j \in 1..(Len(q) - 1) PROVE Tail(q)[j] \in Range(q)
    <3>1. j + 1 \in DOMAIN q
      BY <1>1
    <3>2. QED
      BY <3>1, <1>3 DEF Range
  <2>3. QED
    BY <2>1, <2>2, <1>2 DEF Range
<1>7. QED
  BY <1>2, <1>4, <1>5, <1>6

-----------------------------------------------------------------------------
\* A registration belongs to a start of the process.
Started == \A n \in Nodes : agent[n] # "none" => starts[n] > 0

\* A picker that does not exist has no clients and no events to handle.
NoneIsEmpty ==
  \A n \in Nodes :
    picker[n].watch = "none" => picker[n].clients = {} /\ picker[n].queue = <<>>

\* What KnownOrMissed says of a picker that watches holds from its fetch on:
\* otherwise Watch could begin with an address that was neither found nor missed.
Tracked ==
  \A n, m \in Nodes :
    picker[n].watch \in {"fetched", "watching"} /\ key[m] # None /\ ~Self(n, m) =>
      \/ m \in picker[n].clients \cup picker[n].missed
      \/ PutEvent(m) \in Range(picker[n].queue)

MembershipInv == TypeOK /\ Started /\ AliveIsRegistered /\ NoneIsEmpty /\ Tracked

\* What an event of etcd does to the pickers: it stays in the queue of whoever
\* watches, and a put goes into the history of whoever has fetched.
LEMMA WatchedEvent ==
  ASSUME TypeOK, NEW e \in EventType, NEW n \in Nodes
  PROVE  /\ Watched(e) \in [Nodes -> PickerType]
         /\ Watched(e)[n].watch = picker[n].watch
         /\ Watched(e)[n].clients = picker[n].clients
         /\ picker[n].missed \subseteq Watched(e)[n].missed
         /\ Range(picker[n].queue) \subseteq Range(Watched(e)[n].queue)
         /\ picker[n].watch = "none" => Watched(e)[n].queue = picker[n].queue
         /\ picker[n].watch = "watching" => e \in Range(Watched(e)[n].queue)
         /\ picker[n].watch = "fetched" /\ e.type = "put" => e.value \in Watched(e)[n].missed
<1>1. e.type = "put" => e.value \in Nodes
  BY DEF EventType, DeleteEvent
<1>2. ASSUME NEW o \in Nodes
      PROVE  /\ Append(picker[o].queue, e) \in Seq(EventType)
             /\ Range(Append(picker[o].queue, e)) = Range(picker[o].queue) \cup {e}
  <2>1. picker[o].queue \in Seq(EventType)
    BY DEF TypeOK, PickerType
  <2>2. QED
    BY <2>1, RangeAppend
<1>3. ASSUME NEW o \in Nodes PROVE Watched(e)[o] \in PickerType
  <2>1. picker[o] \in PickerType /\ picker \in [Nodes -> PickerType]
    BY DEF TypeOK
  <2>2. CASE picker[o].watch = "watching"
    <3>1. Watched(e)[o] = [picker[o] EXCEPT !.queue = Append(@, e)]
      BY <2>2 DEF Watched
    <3>2. QED
      BY <2>1, <3>1, <1>2 DEF PickerType
  <2>3. CASE picker[o].watch = "fetched" /\ e.type = "put"
    <3>1. Watched(e)[o] = [picker[o] EXCEPT !.missed = @ \cup {e.value}]
      BY <2>3 DEF Watched
    <3>2. picker[o].missed \cup {e.value} \in SUBSET Nodes
      BY <2>1, <2>3, <1>1 DEF PickerType
    <3>3. QED
      BY <2>1, <3>1, <3>2 DEF PickerType
  <2>4. CASE picker[o].watch # "watching" /\ ~(picker[o].watch = "fetched" /\ e.type = "put")
    BY <2>1, <2>4 DEF Watched
  <2>5. QED
    BY <2>2, <2>3, <2>4
<1>4. Watched(e) \in [Nodes -> PickerType]
  BY <1>3 DEF Watched
<1>5. /\ Watched(e)[n].watch = picker[n].watch
      /\ Watched(e)[n].clients = picker[n].clients
      /\ picker[n].missed \subseteq Watched(e)[n].missed
      /\ picker[n].watch = "fetched" /\ e.type = "put" => e.value \in Watched(e)[n].missed
  BY DEF Watched, TypeOK, PickerType
<1>6. CASE picker[n].watch = "watching"
  <2>1. Watched(e)[n].queue = Append(picker[n].queue, e)
    BY <1>6 DEF Watched, TypeOK, PickerType
  <2>2. QED
    BY <2>1, <1>2, <1>4, <1>5, <1>6
<1>7. CASE picker[n].watch # "watching"
  <2>1. Watched(e)[n].queue = picker[n].queue
    BY <1>7 DEF Watched, TypeOK, PickerType
  <2>2. QED
    BY <2>1, <1>7, <1>4, <1>5
<1>8. QED
  BY <1>6, <1>7

\* What handling the first event of a queue does to a picker: an address that
\* was waiting in the queue is then known or missed, if it is not in the queue
\* still, and no client is lost.
LEMMA Handled ==
  ASSUME TypeOK, NEW n \in Nodes, HandleEvent(n)
  PROVE  /\ picker' \in [Nodes -> PickerType]
         /\ \A o \in Nodes \ {n} : picker'[o] = picker[o]
         /\ picker'[n].watch = picker[n].watch
         /\ picker[n].clients \subseteq picker'[n].clients
         /\ picker[n].clients \cup picker[n].missed
              \subseteq picker'[n].clients \cup picker'[n].missed
         /\ \A m \in Nodes : PutEvent(m) \in Range(picker[n].queue) /\ ~Self(n, m) =>
              \/ m \in picker'[n].clients \cup picker'[n].missed
              \/ PutEvent(m) \in Range(picker'[n].queue)
<1> DEFINE e == Head(picker[n].queue)
           s == [picker[n] EXCEPT !.queue = Tail(@)]
<1>1. picker \in [Nodes -> PickerType] /\ picker[n].queue \in Seq(EventType)
  BY DEF TypeOK, PickerType
<1>2. /\ e \in EventType
      /\ Tail(picker[n].queue) \in Seq(EventType)
      /\ Range(picker[n].queue) = {e} \cup Range(Tail(picker[n].queue))
  BY <1>1, RangeHeadTail DEF HandleEvent
<1>3. /\ s \in PickerType
      /\ s.queue = Tail(picker[n].queue) /\ s.watch = picker[n].watch
      /\ s.clients = picker[n].clients /\ s.missed = picker[n].missed
  <2>1. picker[n] \in PickerType
    BY <1>1
  <2>2. QED
    BY <1>2, <2>1 DEF PickerType
<1> HIDE DEF e, s
<1>4. ASSUME NEW connected \in BOOLEAN, e.type = "put",
             picker' = [picker EXCEPT ![n] = HandlePut(s, n, e.value, connected)]
      PROVE  /\ picker' \in [Nodes -> PickerType]
             /\ \A o \in Nodes \ {n} : picker'[o] = picker[o]
             /\ picker'[n].watch = s.watch /\ picker'[n].queue = s.queue
             /\ s.clients \subseteq picker'[n].clients
             /\ s.clients \cup s.missed \subseteq picker'[n].clients \cup picker'[n].missed
             /\ ~Self(n, e.value) => e.value \in picker'[n].clients \cup picker'[n].missed
  <2>1. e.value \in Nodes
    BY <1>2, <1>4 DEF EventType, DeleteEvent
  <2>2. CASE Self(n, e.value) \/ e.value \in s.clients
    BY <1>1, <1>3, <1>4, <2>2 DEF HandlePut
  <2>3. CASE ~(Self(n, e.value) \/ e.value \in s.clients) /\ connected
    BY <1>1, <1>3, <1>4, <2>1, <2>3 DEF HandlePut, SetClient, PickerType
  <2>4. CASE ~(Self(n, e.value) \/ e.value \in s.clients) /\ ~connected
    BY <1>1, <1>3, <1>4, <2>1, <2>4 DEF HandlePut, SetClient, PickerType
  <2>5. QED
    BY <2>2, <2>3, <2>4
<1>5. CASE e.type = "put"
  <2>1. PICK connected \in BOOLEAN :
          picker' = [picker EXCEPT ![n] = HandlePut(s, n, e.value, connected)]
    BY <1>5 DEF HandleEvent, e, s
  <2>2. \A m \in Nodes : PutEvent(m) = e => m = e.value
    BY DEF PutEvent
  <2>3. QED
    BY <2>1, <2>2, <1>2, <1>3, <1>4, <1>5
<1>6. CASE e.type = "delete"
  <2>1. picker' = [picker EXCEPT ![n] = HandleDelete(s, e.value)]
    BY <1>6 DEF HandleEvent, e, s
  <2>2. e.value = None /\ None \notin Nodes
    BY <1>2, <1>6, MembershipAssumption DEF EventType, DeleteEvent
  <2>3. /\ picker' \in [Nodes -> PickerType]
        /\ \A o \in Nodes \ {n} : picker'[o] = picker[o]
        /\ picker'[n].watch = s.watch /\ picker'[n].queue = s.queue
        /\ picker'[n].missed = s.missed /\ s.clients \subseteq picker'[n].clients
    BY <1>1, <1>3, <2>1, <2>2 DEF HandleDelete, PickerType
  <2>4. \A m \in Nodes : PutEvent(m) # e
    BY <1>6 DEF PutEvent
  <2>5. QED
    BY <2>3, <2>4, <1>2, <1>3
<1>7. QED
  BY <1>2, <1>5, <1>6 DEF EventType, DeleteEvent

-----------------------------------------------------------------------------
\* etcd's deletion of a key preserves MembershipInv.
LEMMA ExpiryInv ==
  ASSUME MembershipInv, NEW n \in Nodes, LeaseExpires(n)
  PROVE  MembershipInv'
<1>1. DeleteEvent \in EventType
  BY DEF EventType
<1>2. TypeOK'
  BY <1>1, WatchedEvent DEF MembershipInv, LeaseExpires, TypeOK
<1>3. Started' /\ AliveIsRegistered'
  BY DEF MembershipInv, LeaseExpires, TypeOK, Started, AliveIsRegistered, Unattended
<1>4. NoneIsEmpty'
  BY <1>1, WatchedEvent DEF MembershipInv, LeaseExpires, NoneIsEmpty
<1>5. \A m \in Nodes : key'[m] # None => key[m] # None
  BY DEF MembershipInv, LeaseExpires, TypeOK
<1>6. Tracked'
  BY <1>1, <1>5, WatchedEvent DEF MembershipInv, LeaseExpires, Tracked, Self
<1>7. QED
  BY <1>2, <1>3, <1>4, <1>6 DEF MembershipInv

\* So does a registration: every picker hears of it or records it as missed.
LEMMA RegisterInv ==
  ASSUME MembershipInv, NEW n \in Nodes, Register(n)
  PROVE  MembershipInv'
<1>1. PutEvent(n) \in EventType /\ PutEvent(n).type = "put" /\ PutEvent(n).value = n
  BY DEF EventType, PutEvent
<1>2. TypeOK'
  BY <1>1, WatchedEvent, MembershipAssumption DEF MembershipInv, Register, TypeOK, Started
<1>3. Started' /\ AliveIsRegistered'
  BY DEF MembershipInv, Register, TypeOK, Started, AliveIsRegistered
<1>4. NoneIsEmpty'
  BY <1>1, WatchedEvent DEF MembershipInv, Register, NoneIsEmpty
<1>5. Tracked'
  <2> SUFFICES ASSUME NEW o \in Nodes, NEW m \in Nodes, ~Self(o, m), key'[m] # None,
                      picker'[o].watch \in {"fetched", "watching"}
               PROVE  \/ m \in picker'[o].clients \cup picker'[o].missed
                      \/ PutEvent(m) \in Range(picker'[o].queue)
    BY DEF Tracked, Self
  <2>1. CASE m = n
    BY <2>1, <1>1, WatchedEvent DEF MembershipInv, Register
  <2>2. CASE m # n
    BY <2>2, <1>1, WatchedEvent DEF MembershipInv, Register, Tracked, TypeOK
  <2>3. QED
    BY <2>1, <2>2
<1>6. QED
  BY <1>2, <1>3, <1>4, <1>5 DEF MembershipInv

\* The other steps of a node's process.
LEMMA ProcessInv ==
  ASSUME MembershipInv, NEW n \in Nodes, Start(n) \/ GiveUp(n) \/ Stop(n) \/ Exit(n)
  PROVE  MembershipInv'
<1> USE MembershipAssumption DEF MembershipInv, TypeOK, Started, AliveIsRegistered,
        NoneIsEmpty, Tracked, Self
<1>1. CASE Start(n)
  BY <1>1 DEF Start
<1>2. CASE GiveUp(n)
  BY <1>2 DEF GiveUp
<1>3. CASE Stop(n)
  BY <1>3 DEF Stop
<1>4. CASE Exit(n)
  <2>1. /\ NoPicker \in PickerType /\ NoPicker.watch = "none" /\ NoPicker.clients = {}
        /\ NoPicker.queue = <<>>
    BY DEF NoPicker, PickerType
  <2>2. picker' \in [Nodes -> PickerType]
    BY <1>4, <2>1 DEF Exit
  <2>3. QED
    BY <1>4, <2>1, <2>2 DEF Exit
<1>5. QED
  BY <1>1, <1>2, <1>3, <1>4

\* The steps of a picker.
LEMMA PickerInv ==
  ASSUME MembershipInv, NEW n \in Nodes,
         Fetch(n) \/ Watch(n) \/ HandleEvent(n) \/ ClosePicker(n)
  PROVE  MembershipInv'
<1> USE DEF MembershipInv, Started, AliveIsRegistered, NoneIsEmpty, Tracked, Self
<1>1. CASE Fetch(n)
  <2> DEFINE found == {m \in Nodes : key[m] # None /\ ~Self(n, m)}
  <2>1. PICK dialled \in SUBSET {m \in found : Reachable(m)} :
          picker' = [picker EXCEPT ![n] = [NoPicker EXCEPT !.watch = "fetched",
                       !.clients = dialled, !.missed = found \ dialled]]
    BY <1>1 DEF Fetch
  <2>2. dialled \subseteq Nodes /\ found \ dialled \subseteq Nodes
    OBVIOUS
  <2>3. \A m \in Nodes : key[m] # None /\ ~Self(n, m) => m \in dialled \cup (found \ dialled)
    OBVIOUS
  <2> HIDE DEF found
  <2> DEFINE fetched == [NoPicker EXCEPT !.watch = "fetched", !.clients = dialled,
                                         !.missed = found \ dialled]
  <2>4. /\ fetched \in PickerType /\ fetched.watch = "fetched"
        /\ fetched.clients = dialled /\ fetched.missed = found \ dialled
    <3>1. NoPicker \in PickerType
      BY DEF NoPicker, PickerType
    <3>2. QED
      BY <2>2, <3>1 DEF PickerType
  <2>5. picker' = [picker EXCEPT ![n] = fetched]
    BY <2>1
  <2> HIDE DEF fetched
  <2>6. /\ picker' \in [Nodes -> PickerType]
        /\ picker'[n].watch = "fetched" /\ picker'[n].clients = dialled
        /\ picker'[n].missed = found \ dialled
        /\ \A o \in Nodes \ {n} : picker'[o] = picker[o]
    BY <2>4, <2>5 DEF TypeOK
  <2>7. UNCHANGED <<proc, starts, agent, key>>
    BY <1>1 DEF Fetch
  <2>8. TypeOK' /\ Started' /\ AliveIsRegistered' /\ NoneIsEmpty'
    BY <2>6, <2>7 DEF TypeOK
  <2>9. Tracked'
    BY <2>3, <2>6, <2>7
  <2>10. QED
    BY <2>8, <2>9
<1>2. CASE Watch(n)
  BY <1>2 DEF Watch, TypeOK, PickerType
<1>3. CASE HandleEvent(n)
  <2>1. UNCHANGED <<proc, starts, agent, key>>
    BY <1>3 DEF HandleEvent
  <2>2. TypeOK' /\ Started' /\ AliveIsRegistered'
    BY <1>3, <2>1, Handled DEF TypeOK
  <2>3. NoneIsEmpty' /\ Tracked'
    <3>1. ASSUME NEW o \in Nodes, o # n
          PROVE  picker'[o] = picker[o]
      BY <1>3, <3>1, Handled
    <3>2. picker[n].watch # "none"
      BY <1>3 DEF HandleEvent
    <3>3. QED
      BY <1>3, <2>1, <3>1, <3>2, Handled
  <2>4. QED
    BY <2>2, <2>3
<1>4. CASE ClosePicker(n)
  <2>1. picker[n] \in PickerType /\ <<>> \in Seq(EventType)
    BY DEF TypeOK
  <2>2. picker' = [picker EXCEPT ![n] = [picker[n] EXCEPT !.watch = "closed",
                                           !.queue = <<>>, !.missed = {}]]
    BY <1>4 DEF ClosePicker, TypeOK, PickerType
  <2>3. /\ picker' \in [Nodes -> PickerType] /\ picker'[n].watch = "closed"
        /\ \A o \in Nodes \ {n} : picker'[o] = picker[o]
    BY <2>1, <2>2 DEF TypeOK, PickerType
  <2>4. QED
    BY <1>4, <2>3 DEF ClosePicker, TypeOK
<1>5. QED
  BY <1>1, <1>2, <1>3, <1>4

-----------------------------------------------------------------------------
\* MembershipInv is an inductive invariant.
THEOREM MembershipInvariant == Spec => []MembershipInv
<1>1. Init => MembershipInv
  BY MembershipAssumption DEF Init, MembershipInv, TypeOK, PickerType, NoPicker, Started,
     AliveIsRegistered, NoneIsEmpty, Tracked
<1>2. MembershipInv /\ [Next]_vars => MembershipInv'
  <2>1. CASE UNCHANGED vars
    BY <2>1 DEF vars, MembershipInv, TypeOK, Started, AliveIsRegistered, NoneIsEmpty,
       Tracked, Self
  <2>2. CASE Next
    BY <2>2, ExpiryInv, RegisterInv, ProcessInv, PickerInv DEF Next
  <2>3. QED
    BY <2>1, <2>2
<1>3. QED
  BY <1>1, <1>2, PTL DEF Spec

\* Whoever is registered is known to every node that watches, or about to be, or
\* was missed between fetch and watch or by a failed dial: there is no third way
\* to lose a peer (peers.go lines 104-119, 136-147 and 168-190).
THEOREM RegisteredIsKnownOrMissed == Spec => []KnownOrMissed
<1>1. MembershipInv => KnownOrMissed
  BY DEF MembershipInv, Tracked, KnownOrMissed
<1>2. QED
  BY <1>1, MembershipInvariant, PTL

\* The expiry of an earlier process's lease never takes away the key of the
\* process that keeps its own lease alive (register.go lines 44-64).
THEOREM LeaseOfTheLiving == Spec => []AliveIsRegistered
<1>1. MembershipInv => AliveIsRegistered
  BY DEF MembershipInv
<1>2. QED
  BY <1>1, MembershipInvariant, PTL

\* A picker that lives keeps every peer it has ever had.  The README says the opposite
\* (line 61: nodes that go offline are removed), and no run checks this as a property.
PeersOnlyGrow ==
  [][\A n \in Nodes :
       picker'[n].watch # "none" => picker[n].clients \subseteq picker'[n].clients]_vars

\* How far a defect reaches: no step at all takes a peer from a living picker.  The
\* handler of a delete event looks for a client under the event's value, which is
\* empty (peers.go lines 137 and 148-153).
THEOREM PeersAreNeverRemoved == Spec => PeersOnlyGrow
<1> DEFINE Grows ==
      \A n \in Nodes :
        picker'[n].watch # "none" => picker[n].clients \subseteq picker'[n].clients
<1>1. ASSUME MembershipInv, NEW m \in Nodes,
             \/ Start(m) \/ Register(m) \/ GiveUp(m) \/ Stop(m) \/ Exit(m)
             \/ LeaseExpires(m) \/ Fetch(m) \/ Watch(m) \/ HandleEvent(m)
             \/ ClosePicker(m)
      PROVE  Grows
  <2> USE DEF MembershipInv
  <2>1. CASE Start(m) \/ GiveUp(m) \/ Stop(m)
    BY <2>1 DEF Start, GiveUp, Stop
  <2>2. CASE Register(m)
    <3>1. PutEvent(m) \in EventType
      BY DEF PutEvent, EventType
    <3>2. QED
      BY <1>1, <2>2, <3>1, WatchedEvent DEF Register
  <2>3. CASE LeaseExpires(m)
    <3>1. DeleteEvent \in EventType
      BY DEF EventType
    <3>2. QED
      BY <1>1, <2>3, <3>1, WatchedEvent DEF LeaseExpires
  <2>4. CASE Exit(m)
    BY <1>1, <2>4 DEF Exit, TypeOK, NoPicker
  <2>5. CASE Fetch(m)
    <3>1. \A o \in Nodes \ {m} : picker'[o] = picker[o]
      BY <1>1, <2>5 DEF Fetch, TypeOK
    <3>2. picker[m].clients = {}
      BY <1>1, <2>5 DEF Fetch, NoneIsEmpty
    <3>3. QED
      BY <3>1, <3>2
  <2>6. CASE Watch(m) \/ ClosePicker(m)
    <3>1. picker[m] \in PickerType /\ picker \in [Nodes -> PickerType]
      BY <1>1 DEF TypeOK
    <3>2. CASE Watch(m)
      BY <3>1, <3>2 DEF Watch, PickerType
    <3>3. CASE ClosePicker(m)
      <4>1. picker'[m].clients = picker[m].clients
        BY <3>1, <3>3 DEF ClosePicker, PickerType
      <4>2. \A o \in Nodes \ {m} : picker'[o] = picker[o]
        BY <3>1, <3>3 DEF ClosePicker
      <4>3. QED
        BY <4>1, <4>2
    <3>4. QED
      BY <2>6, <3>2, <3>3
  <2>7. CASE HandleEvent(m)
    <3>1. ASSUME NEW n \in Nodes PROVE picker[n].clients \subseteq picker'[n].clients
      BY <1>1, <2>7, Handled
    <3>2. QED
      BY <3>1
  <2>8. QED
    BY <1>1, <2>1, <2>2, <2>3, <2>4, <2>5, <2>6, <2>7
<1>2. MembershipInv /\ [Next]_vars => [Grows]_vars
  BY <1>1 DEF Next
<1>3. QED
  BY <1>2, MembershipInvariant, PTL DEF Spec, PeersOnlyGrow
=============================================================================
