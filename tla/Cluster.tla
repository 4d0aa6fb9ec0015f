------------------------------- MODULE Cluster ------------------------------
(***************************************************************************)
(* One key of one group on several nodes: reads that ask a peer first      *)
(* (peerAwareGetter in group.go), writes that are synchronised to all      *)
(* peers (syncToPeers), and the handlers that serve both (server.go).      *)
(*                                                                         *)
(* A node keeps the value in its cache or not, and has at most one load    *)
(* under way, which all the Gets that miss meanwhile join.  That is an     *)
(* idealisation: Do lets two loads of a key overlap (run                   *)
(* Singleflight_once), and each of them answers those who have joined it.  *)
(* A load asks the peer that the node's ring gives for the key; the peer   *)
(* serves that as a Get of its own, which may ask a peer again, the first  *)
(* node included.  The call has a timeout of three seconds; then the node  *)
(* asks its own getter, which is external and returns any value or an      *)
(* error.                                                                  *)
(*                                                                         *)
(* Synchronisations are calls in goroutines of their own: they arrive in   *)
(* any order or not at all.  A Set also fails if its call is not through   *)
(* when the goroutine that has started it returns and cancels the context. *)
(***************************************************************************)
EXTENDS Integers, Bags

CONSTANTS
  Nodes,     \* nodes of the cluster
  Values,    \* values of the key
  None,      \* no value, no peer, no call
  Fail,      \* an error
  Peers,     \* Peers[n]: the nodes n has clients for; n is one of them if it was
             \* started with an address other than the one it is registered with
  Pick,      \* Pick[n]: the peer that n's ring gives for the key, None without one
  MaxWrites, \* bound on the calls of Set and Delete by clients
  MaxCalls   \* bound on the synchronisations under way

ASSUME ClusterAssumption ==
  /\ {None, Fail, "sent", "queued"} \cap Values = {}
  /\ None # Fail /\ {None, Fail} \cap {"sent", "queued"} = {}
  /\ None \notin Nodes
  /\ Peers \in [Nodes -> SUBSET Nodes]
  /\ \A n \in Nodes : Pick[n] \in IF Peers[n] = {} THEN {None} ELSE Peers[n]
  /\ MaxWrites \in Nat /\ MaxCalls \in Nat

VARIABLES
  cache,   \* cache[n]: what a Get at n finds, None for a miss
  load,    \* load[n]: "idle", "peer" while Pick[n] is asked, "getter"
  rpc,     \* rpc[n]: the call of n's load: None, "sent", "queued" when the peer
           \* has joined it to a load, or the answer
  asked,   \* asked[n]: the nodes whose calls wait for n's load
  waiting, \* waiting[n]: a client's Get waits for n's load
  calls,   \* the bag of synchronisations under way
  writes,  \* history: the number of calls of Set and Delete by clients
  written  \* history: written[n]: what clients have set at n

vars == <<cache, load, rpc, asked, waiting, calls, writes, written>>

Init ==
  /\ cache = [n \in Nodes |-> None]
  /\ load = [n \in Nodes |-> "idle"]
  /\ rpc = [n \in Nodes |-> None]
  /\ asked = [n \in Nodes |-> {}]
  /\ waiting = [n \in Nodes |-> FALSE]
  /\ calls = EmptyBag
  /\ writes = 0
  /\ written = [n \in Nodes |-> {}]

-----------------------------------------------------------------------------
(* Get: the node's cache, a peer, the getter *)

\* A Get that misses at n starts a load, or joins the one under way.
JoinLoad(n, r) ==
  IF load[n] # "idle" THEN load' = load /\ rpc' = r
  ELSE /\ load' = [load EXCEPT ![n] = IF Pick[n] = None THEN "getter" ELSE "peer"]
       /\ rpc' = [r EXCEPT ![n] = IF Pick[n] = None THEN None ELSE "sent"]

\* Group.Get of a client; a hit returns at once.
Get(n) ==
  /\ ~waiting[n] /\ cache[n] = None
  /\ waiting' = [waiting EXCEPT ![n] = TRUE]
  /\ JoinLoad(n, rpc)
  /\ UNCHANGED <<cache, asked, calls, writes, written>>

\* Server.Get for the load of n.
ServeHit(n) ==
  /\ rpc[n] = "sent" /\ cache[Pick[n]] # None
  /\ rpc' = [rpc EXCEPT ![n] = cache[Pick[n]]]
  /\ UNCHANGED <<cache, load, asked, waiting, calls, writes, written>>

ServeMiss(n) ==
  /\ rpc[n] = "sent" /\ cache[Pick[n]] = None
  /\ asked' = [asked EXCEPT ![Pick[n]] = @ \cup {n}]
  /\ JoinLoad(Pick[n], [rpc EXCEPT ![n] = "queued"])
  /\ UNCHANGED <<cache, waiting, calls, writes, written>>

\* A bug: only errors that the peer answers with end the call.
CallFailsAnswered(n) ==
  /\ load[n] = "peer" /\ rpc[n] = Fail
  /\ load' = [load EXCEPT ![n] = "getter"]
  /\ rpc' = [rpc EXCEPT ![n] = None]
  /\ UNCHANGED <<cache, asked, waiting, calls, writes, written>>

\* The call of n's load ends with an error: the peer's, a broken connection,
\* or the timeout.  The handler at the peer is not told; what it finds later
\* reaches nobody.
CallFails(n) ==
  /\ load[n] = "peer" /\ rpc[n] \notin Values
  /\ load' = [load EXCEPT ![n] = "getter"]
  /\ rpc' = [rpc EXCEPT ![n] = None]
  /\ asked' = [asked EXCEPT ![Pick[n]] = @ \ {n}]
  /\ UNCHANGED <<cache, waiting, calls, writes, written>>

\* A bug: calls that have joined get no answer.
EndLoadForgets(n, r) ==
  /\ cache' = [cache EXCEPT ![n] = IF r = Fail THEN None ELSE r]
  /\ load' = [load EXCEPT ![n] = "idle"]
  /\ rpc' = [rpc EXCEPT ![n] = None]
  /\ waiting' = [waiting EXCEPT ![n] = FALSE]
  /\ UNCHANGED <<asked, calls, writes, written>>

\* The load ends: its result is cached, an error as a placeholder that counts as
\* a miss, and everyone who has joined gets it.
EndLoad(n, r) ==
  /\ cache' = [cache EXCEPT ![n] = IF r = Fail THEN None ELSE r]
  /\ load' = [load EXCEPT ![n] = "idle"]
  /\ rpc' = [q \in Nodes |-> IF q \in asked[n] THEN r ELSE IF q = n THEN None ELSE rpc[q]]
  /\ asked' = [asked EXCEPT ![n] = {}]
  /\ waiting' = [waiting EXCEPT ![n] = FALSE]
  /\ UNCHANGED <<calls, writes, written>>

PeerAnswers(n) == load[n] = "peer" /\ rpc[n] \in Values /\ EndLoad(n, rpc[n])

GetterAnswers(n) == load[n] = "getter" /\ \E r \in Values \cup {Fail} : EndLoad(n, r)

\* The store drops the entry: expiration, eviction, cleanup.
Forget(n) ==
  /\ cache[n] # None
  /\ cache' = [cache EXCEPT ![n] = None]
  /\ UNCHANGED <<load, rpc, asked, waiting, calls, writes, written>>

-----------------------------------------------------------------------------
(* Set, Delete and their synchronisation *)

\* syncToPeers: one call per peer.
Sync(n, op, v) ==
  SetToBag({[op |-> op, from |-> n, to |-> p, v |-> v] : p \in Peers[n]})

Fits(bag) == BagCardinality(bag) <= MaxCalls

Set(n, v) ==
  /\ writes < MaxWrites
  /\ writes' = writes + 1
  /\ written' = [written EXCEPT ![n] = @ \cup {v}]
  /\ cache' = [cache EXCEPT ![n] = v]
  /\ calls' = calls (+) Sync(n, "set", v)
  /\ Fits(calls')
  /\ UNCHANGED <<load, rpc, asked, waiting>>

Delete(n) ==
  /\ writes < MaxWrites
  /\ writes' = writes + 1
  /\ cache' = [cache EXCEPT ![n] = None]
  /\ calls' = calls (+) Sync(n, "delete", None)
  /\ Fits(calls')
  /\ UNCHANGED <<load, rpc, asked, waiting, written>>

\* A bug: the context is not marked, and the value is synchronised again.
ServeSetUnmarked(c) ==
  /\ BagIn(c, calls) /\ c.op = "set"
  /\ cache' = [cache EXCEPT ![c.to] = c.v]
  /\ calls' = (calls (-) SetToBag({c})) (+) Sync(c.to, "set", c.v)
  /\ Fits(calls')
  /\ UNCHANGED <<load, rpc, asked, waiting, writes, written>>

\* A bug: the call is repeated, as if it had failed.
ServeSetRepeated(c) ==
  /\ BagIn(c, calls) /\ c.op = "set"
  /\ cache' = [cache EXCEPT ![c.to] = c.v]
  /\ UNCHANGED <<load, rpc, asked, waiting, calls, writes, written>>

\* Server.Set marks the context as a peer's, so Group.Set only writes.
ServeSet(c) ==
  /\ BagIn(c, calls) /\ c.op = "set"
  /\ cache' = [cache EXCEPT ![c.to] = c.v]
  /\ calls' = calls (-) SetToBag({c})
  /\ UNCHANGED <<load, rpc, asked, waiting, writes, written>>

\* Server.Delete does not, so Group.Delete synchronises as for a client.
ServeDelete(c) ==
  /\ BagIn(c, calls) /\ c.op = "delete"
  /\ cache' = [cache EXCEPT ![c.to] = None]
  /\ calls' = (calls (-) SetToBag({c})) (+) Sync(c.to, "delete", None)
  /\ Fits(calls')
  /\ UNCHANGED <<load, rpc, asked, waiting, writes, written>>

\* The context is cancelled, the timeout is over, the peer is out of reach.
CallLost(c) ==
  /\ BagIn(c, calls)
  /\ calls' = calls (-) SetToBag({c})
  /\ UNCHANGED <<cache, load, rpc, asked, waiting, writes, written>>

-----------------------------------------------------------------------------
LoadStep(n) == CallFails(n) \/ PeerAnswers(n) \/ GetterAnswers(n)

SyncStep(op) ==
  \E c \in BagToSet(calls) : c.op = op /\ (ServeSet(c) \/ ServeDelete(c) \/ CallLost(c))

Next ==
  \/ \E n \in Nodes :
       \/ Get(n) \/ ServeHit(n) \/ ServeMiss(n) \/ LoadStep(n) \/ Forget(n)
       \/ Delete(n) \/ \E v \in Values : Set(n, v)
  \/ SyncStep("set") \/ SyncStep("delete")

Spec == Init /\ [][Next]_vars

\* Timers fire and getters return; a synchronisation ends one way or another.
FairSpec ==
  /\ Spec
  /\ \A n \in Nodes : WF_vars(LoadStep(n))
  /\ WF_vars(SyncStep("set")) /\ WF_vars(SyncStep("delete"))

-----------------------------------------------------------------------------
CallTypes ==
  [op : {"set"}, from : Nodes, to : Nodes, v : Values]
    \cup [op : {"delete"}, from : Nodes, to : Nodes, v : {None}]

TypeOK ==
  /\ cache \in [Nodes -> Values \cup {None}]
  /\ load \in [Nodes -> {"idle", "peer", "getter"}]
  /\ rpc \in [Nodes -> Values \cup {None, "sent", "queued", Fail}]
  /\ asked \in [Nodes -> SUBSET Nodes]
  /\ waiting \in [Nodes -> BOOLEAN]
  /\ IsABag(calls) /\ BagToSet(calls) \subseteq CallTypes
  /\ writes \in 0..MaxWrites
  /\ written \in [Nodes -> SUBSET Values]

\* Whoever waits at a node, a client or another node's call, waits for a load
\* that is under way there, and a call that has been queued is in the queue of
\* the peer it went to: no answer is lost when loads wait for each other in a
\* circle (group.go lines 53-76, server.go lines 158-170).
WaitersHaveLoad ==
  TypeOK /\ \A n \in Nodes :
    /\ waiting[n] \/ asked[n] # {} => load[n] # "idle"
    /\ rpc[n] = "queued" <=> \E m \in Nodes : n \in asked[m]
    /\ rpc[n] # None <=> load[n] = "peer"

\* Every Get ends although the rings exclude their own nodes, so that two nodes
\* ask each other for the same key: the circle is broken by a timeout (group.go
\* lines 53-76, client.go lines 60-73).
GetsEnd == \A n \in Nodes : waiting[n] ~> ~waiting[n]

\* A value is synchronised only by a node where a client has set it: Sets that
\* come from a peer are not passed on (server.go lines 179-185, group.go lines
\* 220-223).
SetsDoNotEcho ==
  \A c \in BagToSet(calls) : c.op = "set" => c.v \in written[c.from]

\* When clients have stopped writing, the synchronisation of Sets comes to an
\* end, whatever Deletes are under way.
SetsDrain == <>[](\A c \in BagToSet(calls) : c.op # "set")

\* What fromPeerKey is for (group.go:22): when clients have stopped writing, the
\* synchronisation of Deletes comes to an end.
DeletesDrain == <>[](\A c \in BagToSet(calls) : c.op # "delete")
=============================================================================
