--------------------------- MODULE ConsistentHash ---------------------------
(***************************************************************************)
(* The hash ring that assigns keys to peers, consistenthash/con_hash.go.   *)
(*                                                                         *)
(* Every node is represented by a number of virtual nodes, points on the   *)
(* ring.  Add, Remove and Get are atomic (one read-write lock); Get also   *)
(* counts requests in variables of their own.  A background goroutine      *)
(* looks at the counters without the lock and, when the load is uneven,    *)
(* takes the lock and gives the nodes new numbers of virtual nodes.        *)
(*                                                                         *)
(* Hash values are small integers; Points[n][i] is the hash of "n-i".      *)
(* Like peers.go, callers add a node only if the ring does not have it.    *)
(***************************************************************************)
EXTENDS PeerNodes, FiniteSetsExt

Sq == INSTANCE SequencesExt

CONSTANTS
  MaxHash,         \* the largest hash value, 2^32 - 1 for CRC-32
  Hashes,          \* the hash values of keys
  Points,          \* Points[n][i], i counted from 0
  DefaultReplicas, MinReplicas, MaxReplicas,
  Threshold,       \* LoadBalanceThreshold in percent
  MinSample,       \* requests before the load is judged, 10000 in the code
  MaxRequests      \* bound on the requests counted

ASSUME RingAssumption ==
  /\ IsFiniteSet(Nodes) /\ None \notin Nodes
  /\ MaxReplicas \in Nat /\ DefaultReplicas \in 1..MaxReplicas /\ MinReplicas \in 1..DefaultReplicas
  /\ MaxHash \in Nat /\ Hashes \subseteq 0..MaxHash
  /\ Points \in [Nodes -> [0..(MaxReplicas - 1) -> 0..MaxHash]]
  /\ Threshold \in Nat /\ MinSample \in Nat \ {0} /\ MaxRequests \in Nat

VARIABLES
  ring,          \* .keys: the points in ascending order; .hashMap: the nodes
                 \* they belong to; .nodeReplicas
  nodeCounts,    \* nodeCounts[n]: requests for n, -1 when there is no entry
  totalRequests, \* their total
  balancer       \* the balancer goroutine: .pc and what it has read so far

ringVars == <<ring, nodeCounts, totalRequests, balancer>>

\* Every hash a virtual node can have.
AllPoints == {Points[n][i] : n \in Nodes, i \in 0..(MaxReplicas - 1)}

\* Waiting for the ticker.
Idle == [pc |-> "idle", total |-> 0, size |-> 0]

RingInit ==
  /\ ring = [keys |-> <<>>, hashMap |-> [h \in AllPoints |-> None],
             nodeReplicas |-> [n \in Nodes |-> 0]]
  /\ nodeCounts = [n \in Nodes \cup {None} |-> -1]
  /\ totalRequests = 0
  /\ balancer = Idle

\* The nodes the ring has.
Members(r) == {n \in Nodes : r.nodeReplicas[n] > 0}

\* x at its place in the ascending sequence s.
Insert(s, x) ==
  LET i == Min({j \in 1..Len(s) : s[j] > x} \cup {Len(s) + 1})
  IN  [j \in 1..(Len(s) + 1) |-> IF j < i THEN s[j] ELSE IF j = i THEN x ELSE s[j - 1]]

\* sort.Ints
SortInts(s) ==
  LET sorted[i \in 0..Len(s)] == IF i = 0 THEN <<>> ELSE Insert(sorted[i - 1], s[i])
  IN  sorted[Len(s)]

Sorted(r) == [r EXCEPT !.keys = SortInts(r.keys)]

\* The hashes of the first virtual nodes of n, in order.
Virtual(n, replicas) == [i \in 1..replicas |-> Points[n][i - 1]]

\* addNode: append the points; the ring is sorted by the caller.
addNode(r, n, replicas) ==
  [keys |-> r.keys \o Virtual(n, replicas),
   hashMap |-> [h \in AllPoints |->
                  IF h \in Range(Virtual(n, replicas)) THEN n ELSE r.hashMap[h]],
   nodeReplicas |-> [r.nodeReplicas EXCEPT ![n] = replicas]]

\* A bug: a point is overwritten by the last one, unsorted.
SwapRemove(s, h) ==
  LET i == Sq!SelectInSeq(s, LAMBDA x : x = h)
  IN  IF i = 0 THEN s ELSE Sq!Front([s EXCEPT ![i] = Sq!Last(s)])

removeNodeSwap(r, n) ==
  LET points == Virtual(n, r.nodeReplicas[n])
  IN  [keys |-> Sq!FoldLeft(SwapRemove, r.keys, points),
       hashMap |-> [h \in AllPoints |-> IF h \in Range(points) THEN None ELSE r.hashMap[h]],
       nodeReplicas |-> [r.nodeReplicas EXCEPT ![n] = 0]]

\* keys without one occurrence, the first, of each of the points.
Without(keys, points) ==
  LET left[i \in 0..Len(points)] ==
        IF i = 0 THEN keys ELSE Sq!RemoveFirst(left[i - 1], points[i])
  IN  left[Len(points)]

\* removeNode: for every point of n, drop the map entry and one occurrence in
\* keys, whoever they belong to by now.
removeNode(r, n) ==
  LET points == Virtual(n, r.nodeReplicas[n])
  IN  [keys |-> Without(r.keys, points),
       hashMap |-> [h \in AllPoints |-> IF h \in Range(points) THEN None ELSE r.hashMap[h]],
       nodeReplicas |-> [r.nodeReplicas EXCEPT ![n] = 0]]

\* A bug: the other nodes get their default number of points again.
AddResetsAll(n) ==
  LET Again(r, x) == addNode(removeNode(r, x), x, DefaultReplicas)
  IN  /\ n \notin Members(ring)
      /\ ring' = Sorted(addNode(FoldSet(LAMBDA x, r : Again(r, x), ring, Members(ring)),
                               n, DefaultReplicas))
      /\ UNCHANGED <<nodeCounts, totalRequests, balancer>>

Add(n) ==
  /\ n \notin Members(ring)
  /\ ring' = Sorted(addNode(ring, n, DefaultReplicas))
  /\ UNCHANGED <<nodeCounts, totalRequests, balancer>>

Remove(n) ==
  /\ n \in Members(ring)
  /\ ring' = removeNode(ring, n)
  /\ nodeCounts' = [nodeCounts EXCEPT ![n] = -1]
  /\ UNCHANGED <<totalRequests, balancer>>

\* Binary search for the first point that is not smaller than h; the first of
\* all if there is none.
Point(r, h) ==
  LET i == Sq!SelectInSeq(r.keys, LAMBDA x : x >= h)
  IN  r.keys[IF i = 0 THEN 1 ELSE i]

\* The node Get finds for a key with hash h.
Lookup(r, h) == r.hashMap[Point(r, h)]

Get(h) ==
  /\ ring.keys # <<>>
  /\ totalRequests < MaxRequests
  /\ LET n == Lookup(ring, h)
     IN  nodeCounts' = [nodeCounts EXCEPT ![n] = IF @ = -1 THEN 1 ELSE @ + 1]
  /\ totalRequests' = totalRequests + 1
  /\ UNCHANGED <<ring, balancer>>

-----------------------------------------------------------------------------
\* The nodes with an entry in nodeCounts; "" has one once Get returned it.
Counted == {n \in Nodes \cup {None} : nodeCounts[n] # -1}

Abs(x) == IF x < 0 THEN -x ELSE x

\* checkAndRebalance reads, without excluding Get, the total, then the number
\* of nodes, then one counter after the other.
CheckTotal ==
  /\ balancer.pc = "idle"
  /\ totalRequests >= MinSample
  /\ balancer' = [balancer EXCEPT !.pc = "size", !.total = totalRequests]
  /\ UNCHANGED <<ring, nodeCounts, totalRequests>>

CheckSize ==
  LET size == Cardinality(Members(ring))
  IN  /\ balancer.pc = "size"
      /\ balancer' = IF size = 0 THEN Idle
                     ELSE [balancer EXCEPT !.pc = "counts", !.size = size]
      /\ UNCHANGED <<ring, nodeCounts, totalRequests>>

\* A counter is read that is too far from the average total/size.
CheckUneven ==
  /\ balancer.pc = "counts"
  /\ \E n \in Counted :
       100 * Abs(nodeCounts[n] * balancer.size - balancer.total)
         > Threshold * balancer.total
  /\ balancer' = [Idle EXCEPT !.pc = "rebalance"]
  /\ UNCHANGED <<ring, nodeCounts, totalRequests>>

\* Every counter was close to the average when it was read; they were read at
\* different times, so this says nothing about the counters now.
CheckEven ==
  /\ balancer.pc = "counts"
  /\ balancer' = Idle
  /\ UNCHANGED <<ring, nodeCounts, totalRequests>>

\* Lines 219-225: kept within the configured limits.
Clip(x) == IF x < MinReplicas THEN MinReplicas
           ELSE IF x > MaxReplicas THEN MaxReplicas ELSE x

\* With ratio = count * size / total: replicas / ratio above the average,
\* replicas * (2 - ratio) below it, both truncated.
newReplicas(replicas, count, size) ==
  Clip(IF count * size > totalRequests
       THEN (replicas * totalRequests) \div (count * size)
       ELSE (replicas * (2 * totalRequests - count * size)) \div totalRequests)

\* The nodes in order get new numbers of virtual nodes, one after the other.
Replaced(r, order, new) ==
  LET rings[i \in 0..Len(order)] ==
        IF i = 0 THEN r
        ELSE addNode(removeNode(rings[i - 1], order[i]), order[i], new[order[i]])
  IN  rings[Len(order)]

\* rebalanceNodes, in whatever order Range visits the counted nodes.  The
\* number of nodes may have become zero since the check.
Rebalance ==
  LET size == Cardinality(Members(ring))
      new == [n \in Counted \cap Members(ring) |->
                newReplicas(ring.nodeReplicas[n], nodeCounts[n], size)]
      moved == {n \in DOMAIN new : new[n] # ring.nodeReplicas[n]}
  IN  /\ balancer.pc = "rebalance"
      /\ size # 0
      /\ \E order \in Sq!SetToSeqs(moved) : ring' = Sorted(Replaced(ring, order, new))
      /\ nodeCounts' = [n \in Nodes \cup {None} |->
                          IF n \in Counted \ moved THEN 0 ELSE -1]
      /\ totalRequests' = 0
      /\ balancer' = Idle

RebalanceEmpty ==
  /\ balancer.pc = "rebalance"
  /\ Members(ring) = {}
  /\ balancer' = Idle
  /\ UNCHANGED <<ring, nodeCounts, totalRequests>>

RingNext ==
  \/ \E n \in Nodes : Add(n) \/ Remove(n)
  \/ \E h \in Hashes : Get(h)
  \/ CheckTotal \/ CheckSize \/ CheckUneven \/ CheckEven
  \/ Rebalance \/ RebalanceEmpty

RingSpec == RingInit /\ [][RingNext]_ringVars

-----------------------------------------------------------------------------
RingTypeOK ==
  /\ ring.keys \in Seq(AllPoints)
  /\ ring.hashMap \in [AllPoints -> Nodes \cup {None}]
  /\ ring.nodeReplicas \in [Nodes -> 0..MaxReplicas]
  /\ nodeCounts \in [Nodes \cup {None} -> -1..MaxRequests]
  /\ totalRequests \in 0..MaxRequests
  /\ balancer \in [pc : {"idle", "size", "counts", "rebalance"},
                   total : 0..MaxRequests, size : 0..Cardinality(Nodes)]

\* Virtual nodes of two nodes have hash x: there is one map entry for both.
Shared(x) ==
  \E n, k \in Nodes, i, j \in 0..(MaxReplicas - 1) :
    n # k /\ Points[n][i] = x /\ Points[k][j] = x

\* The virtual nodes of the members, their points, and how far clockwise from a
\* key with hash h a point x is.
Live(r) == {q \in Nodes \X (0..(MaxReplicas - 1)) : q[2] < r.nodeReplicas[q[1]]}
Hash(q) == Points[q[1]][q[2]]
Distance(h, x) == IF x >= h THEN x - h ELSE x - h + MaxHash + 1

\* A key goes to the member whose virtual node is next on the ring, also after
\* nodes were rebalanced, removed and added again: the binary search works on a
\* sorted ring that holds every virtual node of every member and no other point.
\* Only a hash that two nodes share can be without a node, when one of them has
\* been removed or rebalanced (lines 99-108, 128-139 and 227-245).
Clockwise ==
  RingTypeOK /\ (Members(ring) # {} =>
    \A h \in Hashes : \E q \in Live(ring) :
      /\ \A o \in Live(ring) : Distance(h, Hash(q)) <= Distance(h, Hash(o))
      /\ \/ Lookup(ring, h) = q[1]
         \/ Lookup(ring, h) = None /\ Shared(Hash(q)))

\* What consistent hashing is for: a new node takes keys only for itself, and
\* the keys of a node that leaves are the only ones that move, but for those at
\* a hash it shares (lines 57-113).
OnlyAffectedKeysMove ==
  [][\A n \in Nodes, h \in Hashes :
       Members(ring) # {} /\ Members(ring') # {} =>
         /\ Members(ring') = Members(ring) \cup {n} /\ n \notin Members(ring)
              => Lookup(ring', h) \in {Lookup(ring, h), n}
         /\ Members(ring') = Members(ring) \ {n} /\ n \in Members(ring)
              => Lookup(ring, h) \in {Lookup(ring', h), n} \/ Shared(Point(ring, h))]_ringVars
=============================================================================
