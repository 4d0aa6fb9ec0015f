------------------------------- MODULE Groups -------------------------------
(***************************************************************************)
(* The registry of cache groups and the life of a group, group.go.         *)
(*                                                                         *)
(* Goroutines of Procs call NewGroup, GetGroup, ListGroups, DestroyGroup   *)
(* and DestroyAllGroups, which share the map groups under groupsMu, and    *)
(* Set (or Delete) and Close of the groups they hold.  Only the two        *)
(* Destroy calls keep groupsMu over several steps; the others hold it for  *)
(* one access to the map, which is one step here.                          *)
(*                                                                         *)
(* Set starts a goroutine that starts one goroutine per peer, counted by   *)
(* syncWG; Close waits for the counter in a goroutine of its own for at    *)
(* most ten seconds.  A WaitGroup that is used again before its waiter has *)
(* been scheduled panics, and that ends the process.                       *)
(***************************************************************************)
EXTENDS Integers, FiniteSetsExt

CONSTANTS
  Procs,    \* goroutines of the application and of the server
  Names,    \* group names
  GroupIds, \* addresses of *Group objects; each is allocated at most once
  Peered,   \* the groups that have a PeerPicker
  None,     \* nil: no group, nobody
  MaxSyncs  \* bound on the synchronisations with peers that have not ended

ASSUME GroupsAssumption ==
  /\ None \notin Procs \cup Names \cup GroupIds
  /\ MaxSyncs \in Nat \ {0}
  /\ Peered \subseteq GroupIds

VARIABLES
  groups,  \* groups[n]: the group registered under n, or None
  mu,      \* the goroutine that holds groupsMu for writing, or None
  g,       \* g[i], the fields of a Group:
           \*   .name: None before NewGroup
           \*   .close: "open" until the compare-and-swap of closed, "closing"
           \*     while Close waits, then "waited" or "timedOut"
           \*   .adds: syncWG.Add(1) calls that synchronisations have still to do
           \*   .wg: the counter of syncWG
           \*   .waiter: Close's goroutine: "none", "start", "blocked" in Wait,
           \*     "woken" but not scheduled yet, "done" when it has closed done,
           \*     "none" again when Close has seen that
           \*   .late: history: Add has been called after the compare-and-swap
  pc,      \* pc[p]: .at is a location, .op the call, .n the name and .i the
           \* group it is about, .todo the names a Destroy call has still to do
  panicked \* the process has ended

vars == <<groups, mu, g, pc, panicked>>

NewObject ==
  [name |-> None, close |-> "open", adds |-> 0, wg |-> 0, waiter |-> "none", late |-> FALSE]

Idle == [at |-> "idle", op |-> None, n |-> None, i |-> None, todo |-> {}]

Init ==
  /\ groups = [n \in Names |-> None]
  /\ mu = None
  /\ g = [i \in GroupIds |-> NewObject]
  /\ pc = [p \in Procs |-> Idle]
  /\ panicked = FALSE

Created(i) == g[i].name # None

\* What NewGroup may allocate.
Fresh == {i \in GroupIds : ~Created(i) /\ \A p \in Procs : pc[p].i # i}

Registered == {n \in Names : groups[n] # None}

\* p asks for groupsMu.
Ask(p, op, n, i) ==
  /\ pc[p] = Idle
  /\ pc' = [pc EXCEPT ![p] = [Idle EXCEPT !.at = "lock", !.op = op, !.n = n, !.i = i]]
  /\ UNCHANGED <<groups, mu, g, panicked>>

\* p gets the lock for one of the calls in ops.
Locks(p, ops) == mu = None /\ pc[p].at = "lock" /\ pc[p].op \in ops

Returns(p) == pc' = [pc EXCEPT ![p] = Idle]

-----------------------------------------------------------------------------
(* The registry *)

\* NewGroup: a group of the same name is replaced, not closed.
NewGroup(p) ==
  /\ Locks(p, {"new"})
  /\ groups' = [groups EXCEPT ![pc[p].n] = pc[p].i]
  /\ g' = [g EXCEPT ![pc[p].i].name = pc[p].n]
  /\ Returns(p)
  /\ UNCHANGED <<mu, panicked>>

\* GetGroup and ListGroups only read, but they need the lock too.
Read(p) ==
  /\ Locks(p, {"read"})
  /\ Returns(p)
  /\ UNCHANGED <<groups, mu, g, panicked>>

\* DestroyGroup and DestroyAllGroups keep the lock until they return.
DestroyLock(p) ==
  /\ Locks(p, {"destroy", "destroyAll"})
  /\ mu' = p
  /\ pc' = [pc EXCEPT ![p] = [Idle EXCEPT !.at = "destroy",
              !.todo = Registered \cap IF pc[p].op = "destroyAll" THEN Names ELSE {pc[p].n}]]
  /\ UNCHANGED <<groups, g, panicked>>

\* The compare-and-swap of Close, and the goroutine that waits for syncWG.
BeginClose(p, i) ==
  /\ g[i].close = "open"
  /\ g' = [g EXCEPT ![i].close = "closing", ![i].waiter = "start"]
  /\ pc' = [pc EXCEPT ![p].at = "wait", ![p].i = i]
  /\ UNCHANGED <<groups, mu, panicked>>

\* g.Close() of a group in the loop, or at once if someone else closes it.
DestroyClose(p, n) ==
  /\ pc[p].at = "destroy" /\ n \in pc[p].todo
  /\ BeginClose(p, groups[n])

DestroyDelete(p, n) ==
  /\ pc[p].at = "destroy" /\ n \in pc[p].todo
  /\ g[groups[n]].close # "open"
  /\ groups' = [groups EXCEPT ![n] = None]
  /\ pc' = [pc EXCEPT ![p].todo = @ \ {n}]
  /\ UNCHANGED <<mu, g, panicked>>

DestroyUnlock(p) ==
  /\ pc[p].at = "destroy" /\ pc[p].todo = {}
  /\ mu' = None
  /\ Returns(p)
  /\ UNCHANGED <<groups, g, panicked>>

-----------------------------------------------------------------------------
(* Group.Close *)

\* A bug: the registry forgets the group before it is marked as closed.
CloseUnregistered(p, i) ==
  /\ pc[p] = Idle
  /\ Created(i) /\ g[i].close = "open" /\ mu = None
  /\ groups' = [groups EXCEPT ![g[i].name] = None]
  /\ pc' = [pc EXCEPT ![p].at = "wait", ![p].i = i]
  /\ UNCHANGED <<g, mu, panicked>>

\* A second Close returns at once, whether or not the first one has ended.
Close(p, i) ==
  /\ pc[p] = Idle
  /\ Created(i)
  /\ BeginClose(p, i)

WaitBegin(i) ==
  /\ g[i].waiter = "start"
  /\ g' = [g EXCEPT ![i].waiter = IF g[i].wg = 0 THEN "done" ELSE "blocked"]
  /\ UNCHANGED <<groups, mu, pc, panicked>>

\* Wait panics if the counter is in use again.
WaitEnd(i) ==
  /\ g[i].waiter = "woken"
  /\ g' = [g EXCEPT ![i].waiter = "done"]
  /\ panicked' = (g[i].wg # 0)
  /\ UNCHANGED <<groups, mu, pc>>

\* A bug: the goroutine is not waited for.
CloseWaitedNot(p) ==
  /\ pc[p].at = "wait"
  /\ g' = [g EXCEPT ![pc[p].i].close = "waited"]
  /\ pc' = [pc EXCEPT ![p].at = "unregister"]
  /\ UNCHANGED <<groups, mu, panicked>>

\* One case of the select; the policy is closed next.
CloseWaited(p) ==
  /\ pc[p].at = "wait"
  /\ g[pc[p].i].waiter = "done"
  /\ g' = [g EXCEPT ![pc[p].i].close = "waited", ![pc[p].i].waiter = "none"]
  /\ pc' = [pc EXCEPT ![p].at = "unregister"]
  /\ UNCHANGED <<groups, mu, panicked>>

\* A bug: there is no timeout.
CloseTimeoutNever(p) == FALSE /\ UNCHANGED vars

CloseTimeout(p) ==
  /\ pc[p].at = "wait"
  /\ g' = [g EXCEPT ![pc[p].i].close = "timedOut"]
  /\ pc' = [pc EXCEPT ![p].at = "unregister"]
  /\ UNCHANGED <<groups, mu, panicked>>

\* A bug: the registry is left alone.
UnregisterForgotten(p) ==
  /\ mu = None /\ pc[p].at = "unregister"
  /\ Returns(p)
  /\ UNCHANGED <<groups, mu, g, panicked>>

\* delete(groups, g.name), whichever group has the name by now.
Unregister(p) ==
  /\ mu = None /\ pc[p].at = "unregister"
  /\ groups' = [groups EXCEPT ![g[pc[p].i].name] = None]
  /\ Returns(p)
  /\ UNCHANGED <<mu, g, panicked>>

-----------------------------------------------------------------------------
(* Group.Set and Group.Delete, and syncToPeers *)

\* The flag closed.  Without peers there is nothing that concerns this module.
Set(p, i) ==
  /\ pc[p] = Idle
  /\ i \in Peered
  /\ Created(i) /\ g[i].close = "open"
  /\ pc' = [pc EXCEPT ![p].at = "set", ![p].i = i]
  /\ UNCHANGED <<groups, mu, g, panicked>>

\* The synchronisations that have not ended.
Syncs == MapThenSumSet(LAMBDA i : g[i].adds + g[i].wg, GroupIds)

\* After the write: go g.syncToPeers, to some number of peers.
SetSync(p) ==
  /\ pc[p].at = "set"
  /\ \E peers \in 0..MaxSyncs :
       /\ Syncs + peers <= MaxSyncs
       /\ g' = [g EXCEPT ![pc[p].i].adds = @ + peers]
  /\ Returns(p)
  /\ UNCHANGED <<groups, mu, panicked>>

\* syncWG.Add(1), and the goroutine that calls the peer.
SyncAdd(i) ==
  /\ g[i].adds > 0
  /\ g' = [g EXCEPT ![i].adds = @ - 1, ![i].wg = @ + 1, ![i].late = @ \/ g[i].close # "open"]
  /\ UNCHANGED <<groups, mu, pc, panicked>>

\* The call to the peer has ended: syncWG.Done().
SyncDone(i) ==
  LET o == g[i]
  IN  /\ o.wg > 0
      /\ g' = [g EXCEPT ![i].wg = @ - 1,
                 ![i].waiter = IF o.wg = 1 /\ @ = "blocked" THEN "woken" ELSE @]
      /\ UNCHANGED <<groups, mu, pc, panicked>>

-----------------------------------------------------------------------------
Begin(p) ==
  \/ \E n \in Names, i \in Fresh : Ask(p, "new", n, i)
  \/ \E n \in Names : Ask(p, "destroy", n, None)
  \/ Ask(p, "read", None, None) \/ Ask(p, "destroyAll", None, None)
  \/ \E i \in GroupIds : Close(p, i) \/ Set(p, i)

\* Steps that need groupsMu.
LockStep(p) == NewGroup(p) \/ Read(p) \/ DestroyLock(p) \/ Unregister(p)

OwnStep(p) ==
  \/ DestroyUnlock(p) \/ CloseWaited(p) \/ CloseTimeout(p) \/ SetSync(p)
  \/ \E n \in Names : DestroyClose(p, n) \/ DestroyDelete(p, n)

Background(i) == WaitBegin(i) \/ WaitEnd(i) \/ SyncAdd(i) \/ SyncDone(i)

Next ==
  /\ ~panicked
  /\ \/ \E p \in Procs : Begin(p) \/ LockStep(p) \/ OwnStep(p)
     \/ \E i \in GroupIds : Background(i)

Spec == Init /\ [][Next]_vars

\* Goroutines are scheduled, timers fire, and a mutex starves nobody.  Nothing
\* is assumed of the calls to peers: they may hang.
FairSpec ==
  /\ Spec
  /\ \A p \in Procs : WF_vars(~panicked /\ OwnStep(p)) /\ SF_vars(~panicked /\ LockStep(p))

-----------------------------------------------------------------------------
GroupType ==
  [name : Names \cup {None}, close : {"open", "closing", "waited", "timedOut"},
   adds : Nat, wg : Nat,
   waiter : {"none", "start", "blocked", "woken", "done"}, late : BOOLEAN]

CallType ==
  [at : {"idle", "lock", "destroy", "wait", "unregister", "set"},
   op : {None, "new", "read", "destroy", "destroyAll"},
   n : Names \cup {None}, i : GroupIds \cup {None}, todo : SUBSET Names]

TypeOK ==
  /\ groups \in [Names -> GroupIds \cup {None}]
  /\ mu \in Procs \cup {None}
  /\ g \in [GroupIds -> GroupType]
  /\ pc \in [Procs -> CallType]
  /\ panicked \in BOOLEAN

\* The goroutine that holds groupsMu waits for groupsMu.
SelfLocked == \E p \in Procs : mu = p /\ pc[p].at = "unregister"

\* Every call returns, however long the calls to peers take, unless a Destroy
\* call has closed a group itself: Close, called with groupsMu held, waits for
\* groupsMu, and nobody gets the lock any more (lines 128-170, 292-319 and 378-401).
CallsReturn ==
  \A p \in Procs : pc[p] # Idle ~> (pc[p] = Idle \/ SelfLocked \/ panicked)

\* A group that is open can be found under its name, unless another group has
\* had the same name: NewGroup replaces it, and Close of the other one removes
\* by name whatever is registered (lines 155-160 and 313-315).
OpenGroupIsFound ==
  \A i \in GroupIds :
    Created(i) /\ g[i].close = "open" /\ groups[g[i].name] # i
      => \E j \in GroupIds \ {i} : g[j].name = g[i].name

\* When the call that closes a group has returned the registry does not know
\* the group any more, whoever else closes or destroys groups (lines 292-319).
ClosedIsGone ==
  TypeOK /\ \A i \in GroupIds :
    g[i].close # "open" /\ (\A p \in Procs : pc[p].i # i) => groups[g[i].name] # i

\* Close waits for the synchronisations (line 297): when it has not timed out,
\* one is under way, or has broken the WaitGroup, only if it was added after
\* Close had begun.
OnlyLateSyncsSurvive ==
  \A i \in GroupIds :
    \/ g[i].late
    \/ /\ g[i].close = "waited" => g[i].wg = 0
       /\ g[i].waiter = "woken" => g[i].wg = 0
=============================================================================
