----------------------------- MODULE Membership -----------------------------
(***************************************************************************)
(* How nodes learn of each other: registration with a lease in etcd        *)
(* (registry/register.go, started by Server.Start in server.go) and        *)
(* discovery by the ClientPicker of every node (peers.go).                 *)
(*                                                                         *)
(* A node's process starts, registers its address once, and may be stopped *)
(* (Server.Stop), exit or crash, and start again with the same address.    *)
(* etcd is external: a key that is put with a lease is deleted when the    *)
(* lease expires, unless it has been put again with another lease; a       *)
(* watcher gets the events since it began, in order, and a delete event    *)
(* has the key but no value.                                               *)
(***************************************************************************)
EXTENDS PeerNodes

CONSTANTS
  Aliased,  \* nodes whose picker was given another form of the address (":port")
  MaxStarts \* bound on the starts of a node's process

ASSUME MembershipAssumption ==
  /\ None \notin Nodes \cup 1..MaxStarts
  /\ Aliased \subseteq Nodes
  /\ MaxStarts \in Nat \ {0}

VARIABLES
  proc,   \* proc[n]: "down", "up", "stopped" after Server.Stop
  starts, \* starts[n]: how often the process has been started
  agent,  \* agent[n]: the registration: "none", "registering", "alive" while its
          \* goroutine keeps the lease alive, "lost" when it has given up
  key,    \* key[n]: the lease of etcd's key for n, a number of a start, or None
  picker  \* picker[n]: .watch is "none", "fetched", "watching" or "closed",
          \* .clients the addresses with a client and points on the ring, .queue
          \* the events that have not been handled; history: .missed, addresses
          \* whose put was not seen or whose dial has failed

vars == <<proc, starts, agent, key, picker>>

NoPicker == [watch |-> "none", clients |-> {}, queue |-> <<>>, missed |-> {}]

Init ==
  /\ proc = [n \in Nodes |-> "down"]
  /\ starts = [n \in Nodes |-> 0]
  /\ agent = [n \in Nodes |-> "none"]
  /\ key = [n \in Nodes |-> None]
  /\ picker = [n \in Nodes |-> NoPicker]

\* Whether a picker at n takes address m for its own.
Self(n, m) == m = n /\ n \notin Aliased

\* Whether grpc.Dial(m) can get a connection in time; it may fail all the same.
Reachable(m) == proc[m] = "up"

-----------------------------------------------------------------------------
(* etcd *)

\* Watchers get event e; who is between fetch and watch misses a put.
Watched(e) ==
  [n \in Nodes |->
     CASE picker[n].watch = "watching" -> [picker[n] EXCEPT !.queue = Append(@, e)]
       [] picker[n].watch = "fetched" /\ e.type = "put" ->
            [picker[n] EXCEPT !.missed = @ \cup {e.value}]
       [] OTHER -> picker[n]]

PutEvent(n) == [type |-> "put", value |-> n]

DeleteEvent == [type |-> "delete", value |-> None]

\* Nobody keeps n's lease alive.
Unattended(n) == agent[n] # "alive" \/ key[n] # starts[n]

LeaseExpires(n) ==
  /\ key[n] # None
  /\ Unattended(n)
  /\ key' = [key EXCEPT ![n] = None]
  /\ picker' = Watched(DeleteEvent)
  /\ UNCHANGED <<proc, starts, agent>>

-----------------------------------------------------------------------------
(* Server.Start, registry.Register, Server.Stop *)

Start(n) ==
  /\ proc[n] = "down" /\ starts[n] < MaxStarts
  /\ proc' = [proc EXCEPT ![n] = "up"]
  /\ starts' = [starts EXCEPT ![n] = @ + 1]
  /\ agent' = [agent EXCEPT ![n] = "registering"]
  /\ UNCHANGED <<key, picker>>

\* A bug: the key is not put if it is there.
RegisterIfAbsent(n) ==
  /\ agent[n] = "registering"
  /\ agent' = [agent EXCEPT ![n] = "alive"]
  /\ key' = [key EXCEPT ![n] = IF @ = None THEN starts[n] ELSE @]
  /\ picker' = IF key[n] = None THEN Watched(PutEvent(n)) ELSE picker
  /\ UNCHANGED <<proc, starts>>

\* Grant, Put with the new lease, KeepAlive.
Register(n) ==
  /\ agent[n] = "registering"
  /\ agent' = [agent EXCEPT ![n] = "alive"]
  /\ key' = [key EXCEPT ![n] = starts[n]]
  /\ picker' = Watched(PutEvent(n))
  /\ UNCHANGED <<proc, starts>>

\* A call to etcd fails, or the keep-alive channel is closed: no second try.
GiveUp(n) ==
  /\ agent[n] \in {"registering", "alive"}
  /\ agent' = [agent EXCEPT ![n] = "lost"]
  /\ UNCHANGED <<proc, starts, key, picker>>

\* Stop closes a channel of the Server.  Register listens to another one, made
\* in Start, so the lease is kept alive as long as the process lives.
Stop(n) ==
  /\ proc[n] = "up"
  /\ proc' = [proc EXCEPT ![n] = "stopped"]
  /\ UNCHANGED <<starts, agent, key, picker>>

\* The process exits or crashes.
Exit(n) ==
  /\ proc[n] # "down"
  /\ proc' = [proc EXCEPT ![n] = "down"]
  /\ agent' = [agent EXCEPT ![n] = "none"]
  /\ picker' = [picker EXCEPT ![n] = NoPicker]
  /\ UNCHANGED <<starts, key>>

-----------------------------------------------------------------------------
(* ClientPicker *)

\* set: dial; without a connection the address is forgotten.
SetClient(s, m, connected) ==
  IF connected THEN [s EXCEPT !.clients = @ \cup {m}, !.missed = @ \ {m}]
  ELSE [s EXCEPT !.missed = @ \cup {m}]

\* A bug: an address that is not reachable ends the loop.
FetchFirst(n) ==
  LET found == {m \in Nodes : key[m] # None /\ ~Self(n, m)}
  IN  /\ proc[n] # "down" /\ picker[n].watch = "none"
      /\ picker' = [picker EXCEPT ![n] = [NoPicker EXCEPT !.watch = "fetched",
           !.clients = {m \in found : \A o \in found : Reachable(o)}]]
      /\ UNCHANGED <<proc, starts, agent, key>>

\* NewClientPicker: fetchAllServices; any of the dials may fail.
Fetch(n) ==
  LET found == {m \in Nodes : key[m] # None /\ ~Self(n, m)}
  IN  /\ proc[n] # "down" /\ picker[n].watch = "none"
      /\ \E dialled \in SUBSET {m \in found : Reachable(m)} :
           picker' = [picker EXCEPT ![n] = [NoPicker EXCEPT !.watch = "fetched",
                        !.clients = dialled, !.missed = found \ dialled]]
      /\ UNCHANGED <<proc, starts, agent, key>>

\* watchServiceChanges: the watch begins with what happens from now on.
Watch(n) ==
  /\ picker[n].watch = "fetched"
  /\ picker' = [picker EXCEPT ![n].watch = "watching"]
  /\ UNCHANGED <<proc, starts, agent, key>>

\* handleWatchEvents, a put: a known address keeps its client.
HandlePut(s, n, m, connected) ==
  IF Self(n, m) \/ m \in s.clients THEN s ELSE SetClient(s, m, connected)

\* A delete: the address is the event's value.
HandleDelete(s, m) == [s EXCEPT !.clients = @ \ {m}]

HandleEvent(n) ==
  LET e == Head(picker[n].queue)
      s == [picker[n] EXCEPT !.queue = Tail(@)]
  IN  /\ picker[n].queue # <<>>
      /\ \/ /\ e.type = "put"
            /\ \E connected \in BOOLEAN :
                 /\ connected => Reachable(e.value)
                 /\ picker' = [picker EXCEPT ![n] = HandlePut(s, n, e.value, connected)]
         \/ /\ e.type = "delete"
            /\ picker' = [picker EXCEPT ![n] = HandleDelete(s, e.value)]
      /\ UNCHANGED <<proc, starts, agent, key>>

\* Close ends the watch, and with it the history; the maps keep the closed clients.
\* The same, for this module, as etcd closing the channel: the loop then spins and
\* gets no events.
ClosePicker(n) ==
  /\ picker[n].watch \in {"fetched", "watching"}
  /\ picker' = [picker EXCEPT ![n].watch = "closed", ![n].queue = <<>>, ![n].missed = {}]
  /\ UNCHANGED <<proc, starts, agent, key>>

-----------------------------------------------------------------------------
Next ==
  \E n \in Nodes :
    \/ Start(n) \/ Register(n) \/ GiveUp(n) \/ Stop(n) \/ Exit(n) \/ LeaseExpires(n)
    \/ Fetch(n) \/ Watch(n) \/ HandleEvent(n) \/ ClosePicker(n)

Spec == Init /\ [][Next]_vars

-----------------------------------------------------------------------------
EventType == [type : {"put"}, value : Nodes] \cup {DeleteEvent}

PickerType ==
  [watch : {"none", "fetched", "watching", "closed"}, clients : SUBSET Nodes,
   queue : Seq(EventType), missed : SUBSET Nodes]

TypeOK ==
  /\ proc \in [Nodes -> {"down", "up", "stopped"}]
  /\ starts \in [Nodes -> 0..MaxStarts]
  /\ agent \in [Nodes -> {"none", "registering", "alive", "lost"}]
  /\ key \in [Nodes -> 1..MaxStarts \cup {None}]
  /\ picker \in [Nodes -> PickerType]

\* A node that is registered is a peer of every node that watches, or its put
\* event is on the way, or it has been missed in one of two ways: it was put
\* between that node's fetch and its watch, or the one attempt to dial it has
\* failed (peers.go lines 104-119, 136-147 and 168-190).
KnownOrMissed ==
  TypeOK /\ \A n, m \in Nodes :
    picker[n].watch = "watching" /\ key[m] # None /\ ~Self(n, m) =>
      \/ m \in picker[n].clients \cup picker[n].missed
      \/ PutEvent(m) \in Range(picker[n].queue)

\* A node whose goroutine keeps a lease alive is registered with that lease: the
\* lease of an earlier process of the same address, which expires some time
\* after the restart, does not take the new registration away (register.go
\* lines 44-64).
AliveIsRegistered == \A n \in Nodes : agent[n] = "alive" => key[n] = starts[n]
=============================================================================
