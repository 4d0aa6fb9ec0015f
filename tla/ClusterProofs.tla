--------------------------- MODULE ClusterProofs ----------------------------
(***************************************************************************)
(* Proofs about Cluster for any set of nodes, any peers, any choice the    *)
(* rings make and any number of calls and writes.                          *)
(***************************************************************************)
EXTENDS Cluster, TLAPS

\* What is in the union of two bags.
LEMMA BagUnionSet ==
  ASSUME NEW A, NEW B, IsABag(A), IsABag(B)
  PROVE  IsABag(A (+) B) /\ BagToSet(A (+) B) = BagToSet(A) \cup BagToSet(B)
BY DEF IsABag, BagToSet, (+)

\* Taking a bag from another adds nothing.
LEMMA BagDifferenceSet ==
  ASSUME NEW A, NEW B, IsABag(A), IsABag(B)
  PROVE  IsABag(A (-) B) /\ BagToSet(A (-) B) \subseteq BagToSet(A)
BY DEF IsABag, BagToSet, (-)

\* A set as a bag.
LEMMA SetToBagSet ==
  ASSUME NEW S
  PROVE  IsABag(SetToBag(S)) /\ BagToSet(SetToBag(S)) = S
BY DEF IsABag, BagToSet, SetToBag

\* What a synchronisation sends.
LEMMA SyncCalls ==
  ASSUME NEW n \in Nodes, NEW op, NEW v
  PROVE  /\ IsABag(Sync(n, op, v))
         /\ \A c \in BagToSet(Sync(n, op, v)) :
              c \in [op : {op}, from : {n}, to : Nodes, v : {v}]
<1>1. Peers[n] \subseteq Nodes
  BY ClusterAssumption
<1>2. QED
  BY <1>1, SetToBagSet DEF Sync

-----------------------------------------------------------------------------
\* A load that asks a peer has one, and a call waits only at the peer it went to.
\* CallFails looks for it there and nowhere else.
AskedIsPick ==
  \A n \in Nodes :
    /\ load[n] = "peer" => Pick[n] \in Nodes
    /\ \A m \in Nodes : n \in asked[m] => m = Pick[n]

\* The three parts of WaitersHaveLoad.
Waiters == \A n \in Nodes : waiting[n] \/ asked[n] # {} => load[n] # "idle"

Queued == \A n \in Nodes : rpc[n] = "queued" <=> \E m \in Nodes : n \in asked[m]

Calling == \A n \in Nodes : rpc[n] # None <=> load[n] = "peer"

ClusterInv == TypeOK /\ AskedIsPick /\ Waiters /\ Queued /\ Calling /\ SetsDoNotEcho

\* Where a node's load begins: at a peer of its own, or with the getter.
LEMMA PickType ==
  ASSUME NEW n \in Nodes, Pick[n] # None
  PROVE  Pick[n] \in Nodes
BY ClusterAssumption

\* A Get joins a load or starts one: nobody else's load or call changes, and the
\* node has a load afterwards.
LEMMA JoinLoadEffect ==
  ASSUME NEW n \in Nodes, NEW r \in [Nodes -> Values \cup {None, "sent", "queued", Fail}],
         TypeOK, JoinLoad(n, r)
  PROVE  /\ load' \in [Nodes -> {"idle", "peer", "getter"}]
         /\ rpc' \in [Nodes -> Values \cup {None, "sent", "queued", Fail}]
         /\ \A m \in Nodes \ {n} : load'[m] = load[m] /\ rpc'[m] = r[m]
         /\ load[n] # "idle" => load'[n] = load[n] /\ rpc'[n] = r[n]
         /\ load[n] = "idle" =>
              \/ load'[n] = "getter" /\ rpc'[n] = None
              \/ load'[n] = "peer" /\ rpc'[n] = "sent" /\ Pick[n] \in Nodes
BY PickType DEF JoinLoad, TypeOK

\* A client's Get.
LEMMA GetInv ==
  ASSUME ClusterInv, NEW n \in Nodes, Get(n)
  PROVE  ClusterInv'
<1> USE DEF ClusterInv
<1>1. UNCHANGED <<cache, asked, calls, writes, written>>
  BY DEF Get
<1>2. rpc \in [Nodes -> Values \cup {None, "sent", "queued", Fail}]
  BY DEF TypeOK
<1>3. /\ load' \in [Nodes -> {"idle", "peer", "getter"}]
      /\ rpc' \in [Nodes -> Values \cup {None, "sent", "queued", Fail}]
      /\ \A m \in Nodes \ {n} : load'[m] = load[m] /\ rpc'[m] = rpc[m]
      /\ load[n] # "idle" => load'[n] = load[n] /\ rpc'[n] = rpc[n]
      /\ load[n] = "idle" =>
           \/ load'[n] = "getter" /\ rpc'[n] = None
           \/ load'[n] = "peer" /\ rpc'[n] = "sent" /\ Pick[n] \in Nodes
  BY <1>2, JoinLoadEffect DEF Get
<1>4. TypeOK'
  BY <1>1, <1>3 DEF Get, TypeOK
<1>5. AskedIsPick' /\ SetsDoNotEcho'
  BY <1>1, <1>3 DEF AskedIsPick, SetsDoNotEcho
<1>6. Waiters'
  BY <1>1, <1>3 DEF Waiters, Get, TypeOK
<1>7. Calling'
  BY <1>3, ClusterAssumption DEF Calling
<1>8. Queued'
  BY <1>1, <1>3, ClusterAssumption DEF Queued, Calling
<1>9. QED
  BY <1>4, <1>5, <1>6, <1>7, <1>8

\* A peer serves the call of a load.
LEMMA ServeInv ==
  ASSUME ClusterInv, NEW n \in Nodes, ServeHit(n) \/ ServeMiss(n)
  PROVE  ClusterInv'
<1> USE DEF ClusterInv
<1> DEFINE p == Pick[n]
           r == [rpc EXCEPT ![n] = "queued"]
<1>1. load[n] = "peer" /\ p \in Nodes /\ rpc[n] = "sent"
  BY ClusterAssumption DEF ServeHit, ServeMiss, AskedIsPick, Calling
<1>2. CASE ServeHit(n)
  BY <1>1, <1>2, ClusterAssumption DEF ServeHit, TypeOK, AskedIsPick, Waiters, Queued,
     Calling, SetsDoNotEcho
<1>3. CASE ServeMiss(n)
  <2>1. UNCHANGED <<cache, waiting, calls, writes, written>>
    BY <1>3 DEF ServeMiss
  <2>2. /\ r \in [Nodes -> Values \cup {None, "sent", "queued", Fail}]
        /\ r[n] = "queued" /\ \A m \in Nodes \ {n} : r[m] = rpc[m]
    BY DEF TypeOK
  <2>3. JoinLoad(p, r)
    BY <1>3 DEF ServeMiss
  <2>4. /\ asked' \in [Nodes -> SUBSET Nodes]
        /\ asked'[p] = asked[p] \cup {n}
        /\ \A m \in Nodes \ {p} : asked'[m] = asked[m]
    BY <1>1, <1>3 DEF ServeMiss, TypeOK
  <2> HIDE DEF r
  <2>5. /\ load' \in [Nodes -> {"idle", "peer", "getter"}]
        /\ rpc' \in [Nodes -> Values \cup {None, "sent", "queued", Fail}]
        /\ \A m \in Nodes \ {p} : load'[m] = load[m] /\ rpc'[m] = r[m]
        /\ load[p] # "idle" => load'[p] = load[p] /\ rpc'[p] = r[p]
        /\ load[p] = "idle" =>
             \/ load'[p] = "getter" /\ rpc'[p] = None
             \/ load'[p] = "peer" /\ rpc'[p] = "sent" /\ Pick[p] \in Nodes
    BY <1>1, <2>2, <2>3, JoinLoadEffect
  <2>6. TypeOK'
    BY <2>1, <2>4, <2>5 DEF TypeOK
  <2>7. AskedIsPick' /\ SetsDoNotEcho'
    BY <1>1, <2>1, <2>4, <2>5 DEF AskedIsPick, SetsDoNotEcho
  <2>8. Waiters'
    BY <1>1, <2>1, <2>4, <2>5 DEF Waiters
  <2>9. Calling'
    <3> SUFFICES ASSUME NEW o \in Nodes PROVE rpc'[o] # None <=> load'[o] = "peer"
      BY DEF Calling
    <3>1. CASE o = n
      BY <1>1, <2>2, <2>5, <3>1, ClusterAssumption
    <3>2. CASE o # n /\ o # p
      BY <2>2, <2>5, <3>2 DEF Calling
    <3>3. CASE o # n /\ o = p
      BY <2>2, <2>5, <3>3, ClusterAssumption DEF Calling
    <3>4. QED
      BY <3>1, <3>2, <3>3
  <2>10. Queued'
    <3> SUFFICES ASSUME NEW o \in Nodes
                 PROVE  rpc'[o] = "queued" <=> \E m \in Nodes : o \in asked'[m]
      BY DEF Queued
    <3>1. CASE o = n
      BY <1>1, <2>2, <2>4, <2>5, <3>1
    <3>2. CASE o # n /\ (o # p \/ load[p] # "idle")
      BY <1>1, <2>2, <2>4, <2>5, <3>2 DEF Queued
    <3>3. CASE o # n /\ o = p /\ load[p] = "idle"
      BY <1>1, <2>2, <2>4, <2>5, <3>3, ClusterAssumption DEF Queued, Calling
    <3>4. QED
      BY <3>1, <3>2, <3>3
  <2>11. QED
    BY <2>6, <2>7, <2>8, <2>9, <2>10
<1>4. QED
  BY <1>2, <1>3

\* The call fails: the load goes on without the peer.
LEMMA CallFailsInv ==
  ASSUME ClusterInv, NEW n \in Nodes, CallFails(n)
  PROVE  ClusterInv'
<1> USE DEF ClusterInv
<1>1. /\ load[n] = "peer" /\ Pick[n] \in Nodes
      /\ UNCHANGED <<cache, waiting, calls, writes, written>>
  BY DEF CallFails, AskedIsPick
<1>2. /\ load' \in [Nodes -> {"idle", "peer", "getter"}] /\ load'[n] = "getter"
      /\ rpc' \in [Nodes -> Values \cup {None, "sent", "queued", Fail}] /\ rpc'[n] = None
      /\ \A m \in Nodes \ {n} : load'[m] = load[m] /\ rpc'[m] = rpc[m]
  BY DEF CallFails, TypeOK
<1>3. /\ asked' \in [Nodes -> SUBSET Nodes]
      /\ asked'[Pick[n]] = asked[Pick[n]] \ {n}
      /\ \A m \in Nodes \ {Pick[n]} : asked'[m] = asked[m]
  BY <1>1 DEF CallFails, TypeOK
<1>4. TypeOK'
  BY <1>1, <1>2, <1>3 DEF TypeOK
<1>5. AskedIsPick' /\ SetsDoNotEcho' /\ Waiters' /\ Calling'
  BY <1>1, <1>2, <1>3 DEF AskedIsPick, SetsDoNotEcho, Waiters, Calling
<1>6. Queued'
  <2> SUFFICES ASSUME NEW o \in Nodes
               PROVE  rpc'[o] = "queued" <=> \E m \in Nodes : o \in asked'[m]
    BY DEF Queued
  <2>1. CASE o = n
    BY <1>2, <1>3, <2>1, ClusterAssumption DEF AskedIsPick
  <2>2. CASE o # n
    BY <1>1, <1>2, <1>3, <2>2 DEF Queued
  <2>3. QED
    BY <2>1, <2>2
<1>7. QED
  BY <1>4, <1>5, <1>6

\* A load ends: everyone in the queue has the answer and the queue is empty.
LEMMA EndLoadInv ==
  ASSUME ClusterInv, NEW n \in Nodes, PeerAnswers(n) \/ GetterAnswers(n)
  PROVE  ClusterInv'
<1> USE DEF ClusterInv
<1>1. PICK r \in Values \cup {Fail} : EndLoad(n, r)
  BY DEF PeerAnswers, GetterAnswers
<1>2. n \notin asked[n]
  BY ClusterAssumption DEF PeerAnswers, GetterAnswers, Queued, Calling
<1>3. r # None /\ r # "queued"
  BY ClusterAssumption
<1>4. /\ UNCHANGED <<calls, writes, written>>
      /\ cache' \in [Nodes -> Values \cup {None}]
      /\ load' \in [Nodes -> {"idle", "peer", "getter"}] /\ load'[n] = "idle"
      /\ \A m \in Nodes \ {n} : load'[m] = load[m]
      /\ waiting' \in [Nodes -> BOOLEAN] /\ waiting'[n] = FALSE
      /\ \A m \in Nodes \ {n} : waiting'[m] = waiting[m]
  BY <1>1 DEF EndLoad, TypeOK
<1>5. /\ asked' \in [Nodes -> SUBSET Nodes] /\ asked'[n] = {}
      /\ \A m \in Nodes \ {n} : asked'[m] = asked[m]
  BY <1>1 DEF EndLoad, TypeOK
<1>6. /\ rpc' \in [Nodes -> Values \cup {None, "sent", "queued", Fail}] /\ rpc'[n] = None
      /\ \A m \in Nodes \ {n} : rpc'[m] = IF m \in asked[n] THEN r ELSE rpc[m]
  BY <1>1, <1>2 DEF EndLoad, TypeOK
<1>7. TypeOK'
  BY <1>4, <1>5, <1>6 DEF TypeOK
<1>8. AskedIsPick' /\ SetsDoNotEcho' /\ Waiters'
  BY <1>4, <1>5 DEF AskedIsPick, SetsDoNotEcho, Waiters
<1>9. Calling'
  <2> SUFFICES ASSUME NEW o \in Nodes PROVE rpc'[o] # None <=> load'[o] = "peer"
    BY DEF Calling
  <2>1. CASE o = n
    BY <1>4, <1>6, <2>1
  <2>2. CASE o # n /\ o \in asked[n]
    <3>1. rpc[o] = "queued" /\ load[o] = "peer"
      BY <2>2, ClusterAssumption DEF Queued, Calling
    <3>2. QED
      BY <1>3, <1>4, <1>6, <2>2, <3>1
  <2>3. CASE o # n /\ o \notin asked[n]
    BY <1>4, <1>6, <2>3 DEF Calling
  <2>4. QED
    BY <2>1, <2>2, <2>3
<1>10. Queued'
  <2> SUFFICES ASSUME NEW o \in Nodes
               PROVE  rpc'[o] = "queued" <=> \E m \in Nodes : o \in asked'[m]
    BY DEF Queued
  <2>1. CASE o = n
    <3>1. rpc[n] # "queued"
      BY ClusterAssumption DEF PeerAnswers, GetterAnswers, Calling
    <3>2. \A m \in Nodes : n \notin asked[m]
      BY <3>1 DEF Queued
    <3>3. QED
      BY <1>5, <1>6, <2>1, <3>2, ClusterAssumption
  <2>2. CASE o # n /\ o \in asked[n]
    BY <1>3, <1>5, <1>6, <2>2 DEF AskedIsPick
  <2>3. CASE o # n /\ o \notin asked[n]
    BY <1>5, <1>6, <2>3 DEF Queued
  <2>4. QED
    BY <2>1, <2>2, <2>3
<1>11. QED
  BY <1>7, <1>8, <1>9, <1>10

\* Writes, and the loss of an entry.
LEMMA WriteInv ==
  ASSUME ClusterInv, NEW n \in Nodes,
         Forget(n) \/ Delete(n) \/ \E v \in Values : Set(n, v)
  PROVE  ClusterInv'
<1> USE ClusterAssumption DEF ClusterInv, AskedIsPick, Waiters, Queued, Calling,
        SetsDoNotEcho
<1>1. CASE Forget(n)
  BY <1>1 DEF Forget, TypeOK
<1>2. CASE Delete(n)
  <2>1. /\ IsABag(calls')
        /\ BagToSet(calls') = BagToSet(calls) \cup BagToSet(Sync(n, "delete", None))
    BY <1>2, BagUnionSet, SyncCalls DEF Delete, TypeOK
  <2>2. TypeOK'
    BY <1>2, <2>1, SyncCalls DEF Delete, TypeOK, CallTypes
  <2>3. SetsDoNotEcho'
    BY <1>2, <2>1, SyncCalls DEF Delete
  <2>4. QED
    BY <1>2, <2>2, <2>3 DEF Delete
<1>3. ASSUME NEW v \in Values, Set(n, v) PROVE ClusterInv'
  <2>1. /\ IsABag(calls')
        /\ BagToSet(calls') = BagToSet(calls) \cup BagToSet(Sync(n, "set", v))
    BY <1>3, BagUnionSet, SyncCalls DEF Set, TypeOK
  <2>2. TypeOK'
    BY <1>3, <2>1, SyncCalls DEF Set, TypeOK, CallTypes
  <2>3. SetsDoNotEcho'
    BY <1>3, <2>1, SyncCalls DEF Set, TypeOK, CallTypes
  <2>4. QED
    BY <1>3, <2>2, <2>3 DEF Set
<1>4. QED
  BY <1>1, <1>2, <1>3

\* The end of a synchronisation.
LEMMA SyncInv ==
  ASSUME ClusterInv, NEW c \in BagToSet(calls), ServeSet(c) \/ ServeDelete(c) \/ CallLost(c)
  PROVE  ClusterInv'
<1> USE DEF ClusterInv
<1>1. c \in CallTypes /\ c.to \in Nodes /\ (c.op = "set" => c.v \in Values)
  BY DEF TypeOK, CallTypes
<1> DEFINE rest == calls (-) SetToBag({c})
<1>2. IsABag(rest) /\ BagToSet(rest) \subseteq BagToSet(calls)
  BY BagDifferenceSet, SetToBagSet DEF TypeOK
<1>3. /\ UNCHANGED <<load, rpc, asked, waiting, writes, written>>
      /\ cache' \in [Nodes -> Values \cup {None}]
  BY <1>1 DEF ServeSet, ServeDelete, CallLost, TypeOK
<1>4. AskedIsPick' /\ Waiters' /\ Queued' /\ Calling'
  BY <1>3 DEF AskedIsPick, Waiters, Queued, Calling
<1>5. calls' = rest \/ calls' = rest (+) Sync(c.to, "delete", None)
  BY DEF ServeSet, ServeDelete, CallLost
<1> HIDE DEF rest
<1>6. CASE calls' = rest
  BY <1>2, <1>3, <1>4, <1>6 DEF TypeOK, SetsDoNotEcho
<1>7. CASE calls' = rest (+) Sync(c.to, "delete", None)
  <2>1. /\ IsABag(Sync(c.to, "delete", None))
        /\ \A d \in BagToSet(Sync(c.to, "delete", None)) : d \in CallTypes /\ d.op = "delete"
    BY <1>1, SyncCalls DEF CallTypes
  <2>2. /\ IsABag(calls')
        /\ BagToSet(calls') = BagToSet(rest) \cup BagToSet(Sync(c.to, "delete", None))
    BY <1>2, <1>7, <2>1, BagUnionSet
  <2>3. QED
    BY <1>2, <1>3, <1>4, <2>1, <2>2 DEF TypeOK, SetsDoNotEcho
<1>8. QED
  BY <1>5, <1>6, <1>7

-----------------------------------------------------------------------------
\* ClusterInv is an inductive invariant.
THEOREM ClusterInvariant == Spec => []ClusterInv
<1>1. Init => ClusterInv
  <2> SUFFICES ASSUME Init PROVE ClusterInv
    OBVIOUS
  <2>1. IsABag(calls) /\ BagToSet(calls) = {}
    BY SetToBagSet DEF Init, EmptyBag
  <2>2. TypeOK
    BY <2>1, ClusterAssumption DEF Init, TypeOK
  <2>3. AskedIsPick /\ Waiters /\ Calling /\ SetsDoNotEcho
    BY <2>1 DEF Init, AskedIsPick, Waiters, Calling, SetsDoNotEcho
  <2>4. Queued
    BY ClusterAssumption DEF Init, Queued
  <2>5. QED
    BY <2>2, <2>3, <2>4 DEF ClusterInv
<1>2. ClusterInv /\ [Next]_vars => ClusterInv'
  <2>1. CASE UNCHANGED vars
    BY <2>1 DEF vars, ClusterInv, TypeOK, AskedIsPick, Waiters, Queued, Calling,
       SetsDoNotEcho
  <2>2. CASE Next
    BY <2>2, GetInv, ServeInv, CallFailsInv, EndLoadInv, WriteInv, SyncInv
       DEF Next, LoadStep, SyncStep
  <2>3. QED
    BY <2>1, <2>2
<1>3. QED
  BY <1>1, <1>2, PTL DEF Spec

\* Whoever waits at a node waits for a load that is under way, and a queued call
\* is in its peer's queue, however the loads ask each other in circles (group.go
\* lines 53-76, server.go lines 158-170).
THEOREM NobodyWaitsInVain == Spec => []WaitersHaveLoad
<1>1. ClusterInv => WaitersHaveLoad
  BY DEF ClusterInv, Waiters, Queued, Calling, WaitersHaveLoad
<1>2. QED
  BY <1>1, ClusterInvariant, PTL

\* A synchronised Set is never passed on by the node that receives it (server.go
\* lines 179-185, group.go lines 220-223).
THEOREM SetsStayLocal == Spec => []SetsDoNotEcho
<1>1. ClusterInv => SetsDoNotEcho
  BY DEF ClusterInv
<1>2. QED
  BY <1>1, ClusterInvariant, PTL
=============================================================================
