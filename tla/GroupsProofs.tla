---------------------------- MODULE GroupsProofs ----------------------------
(***************************************************************************)
(* Proofs about Groups for any number of goroutines, names and groups and  *)
(* any number of synchronisations.                                         *)
(***************************************************************************)
EXTENDS Groups, TLAPS

\* A call of Close is under way for group i.
Closing(p, i) == pc[p].at \in {"wait", "unregister"} /\ pc[p].i = i

\* What a goroutine knows of the group it is working on: NewGroup's is its own,
\* Close's has passed the compare-and-swap; a Destroy call has the lock, so the
\* names it has still to do stay registered.
Knows(p) ==
  /\ pc[p].at = "lock" /\ pc[p].op = "new" =>
       /\ pc[p].n \in Names /\ pc[p].i \in GroupIds /\ ~Created(pc[p].i)
       /\ \A q \in Procs \ {p} : pc[q].i # pc[p].i
  /\ pc[p].at = "destroy" => mu = p /\ pc[p].todo \subseteq Registered
  /\ pc[p].at \in {"wait", "unregister"} =>
       pc[p].i \in GroupIds /\ Created(pc[p].i) /\ g[pc[p].i].close # "open"
  /\ pc[p].at = "set" => pc[p].i \in GroupIds /\ Created(pc[p].i)

CallsKnow == \A p \in Procs : Knows(p)

\* The registry has only groups that NewGroup has made, and nobody closes others.
OnlyCreated ==
  /\ \A n \in Names : groups[n] # None => Created(groups[n])
  /\ \A i \in GroupIds : ~Created(i) => g[i].close = "open"

\* A closed group stays registered only while the call that closes it is under way.
\* (ClosedIsGone is satisfied by any goroutine that works on the group.)
CloserRemains ==
  \A i \in GroupIds :
    g[i].close # "open" /\ groups[g[i].name] = i => \E p \in Procs : Closing(p, i)

\* The waiting goroutine exists only after the compare-and-swap.  Without a late Add
\* the counter is 0 from the moment the goroutine is woken.
WaiterIsRight ==
  \A i \in GroupIds :
    /\ g[i].waiter # "none" => g[i].close # "open"
    /\ \/ g[i].late
       \/ /\ g[i].waiter \in {"woken", "done"} => g[i].wg = 0
          /\ g[i].close = "waited" => g[i].wg = 0

\* The process ends only by a WaitGroup that was used after Close had begun.
PanicIsLate == panicked => \E i \in GroupIds : g[i].late

GroupsInv ==
  /\ TypeOK /\ CallsKnow /\ OnlyCreated /\ OpenGroupIsFound /\ CloserRemains
  /\ WaiterIsRight /\ PanicIsLate

-----------------------------------------------------------------------------
\* The states a call begins and ends in.
LEMMA IdleType ==
  Idle \in CallType /\ Idle.at = "idle" /\ Idle.i = None /\ Idle.op = None /\ Idle.todo = {}
BY DEF Idle, CallType

\* What a call that returns leaves.
LEMMA ReturnsEffect ==
  ASSUME TypeOK, NEW p \in Procs, Returns(p)
  PROVE  /\ pc' \in [Procs -> CallType] /\ pc'[p] = Idle
         /\ \A q \in Procs \ {p} : pc'[q] = pc[q]
BY IdleType DEF TypeOK, Returns

\* A call that asks for groupsMu.
LEMMA AskEffect ==
  ASSUME TypeOK, NEW p \in Procs, NEW op \in {"new", "read", "destroy", "destroyAll"},
         NEW n \in Names \cup {None}, NEW i \in GroupIds \cup {None}, Ask(p, op, n, i)
  PROVE  /\ TypeOK' /\ pc[p] = Idle /\ UNCHANGED <<groups, mu, g, panicked>>
         /\ pc'[p].at = "lock" /\ pc'[p].op = op /\ pc'[p].n = n /\ pc'[p].i = i
         /\ \A q \in Procs \ {p} : pc'[q] = pc[q]
<1> DEFINE r == [Idle EXCEPT !.at = "lock", !.op = op, !.n = n, !.i = i]
<1>1. r \in CallType /\ r.at = "lock" /\ r.op = op /\ r.n = n /\ r.i = i
  BY IdleType DEF CallType
<1>2. pc[p] = Idle /\ UNCHANGED <<groups, mu, g, panicked>> /\ pc' = [pc EXCEPT ![p] = r]
  BY DEF Ask
<1> HIDE DEF r
<1>3. QED
  BY <1>1, <1>2 DEF TypeOK

\* A call goes on at another location with group i.
LEMMA GotoEffect ==
  ASSUME TypeOK, NEW p \in Procs, NEW i \in GroupIds, NEW at \in {"wait", "unregister", "set"},
         pc' = [pc EXCEPT ![p].at = at, ![p].i = i]
  PROVE  /\ pc' \in [Procs -> CallType]
         /\ pc'[p].at = at /\ pc'[p].i = i
         /\ \A q \in Procs \ {p} : pc'[q] = pc[q]
<1>1. pc \in [Procs -> CallType] /\ pc[p] \in CallType
  BY DEF TypeOK
<1>2. pc' = [pc EXCEPT ![p] = [pc[p] EXCEPT !.at = at, !.i = i]]
  BY <1>1 DEF CallType
<1>3. QED
  BY <1>1, <1>2 DEF CallType

\* A step of the calls that leaves the registry, the lock and the closed flags as
\* they are: it begins, ends or goes on in one of these ways.
LEMMA SameRegistry ==
  ASSUME GroupsInv, UNCHANGED <<groups, mu>>,
         \A i \in GroupIds :
           g'[i].name = g[i].name /\ (g'[i].close = "open" <=> g[i].close = "open"),
         \A p \in Procs :
           \/ pc'[p] = pc[p]
           \/ /\ pc[p].at \notin {"wait", "unregister"}
              /\ \/ pc'[p].at = "idle" /\ pc'[p].i = None
                 \/ pc'[p].at = "lock" /\ pc'[p].op # "new" /\ pc'[p].i = None
                 \/ pc'[p].at = "set" /\ pc'[p].i \in GroupIds /\ Created(pc'[p].i)
           \/ /\ pc[p].at = "wait" /\ pc'[p].at = "unregister"
              /\ pc'[p].i = pc[p].i
  PROVE  CallsKnow' /\ OnlyCreated' /\ OpenGroupIsFound' /\ CloserRemains'
<1> USE DEF GroupsInv
<1>1. \A i \in GroupIds : Created(i)' <=> Created(i)
  BY DEF Created
<1>2. CallsKnow'
  <2> SUFFICES ASSUME NEW p \in Procs PROVE Knows(p)'
    BY DEF CallsKnow
  <2>1. Registered' = Registered
    BY DEF Registered
  <2>2. CASE pc'[p].at = "lock" /\ pc'[p].op = "new"
    <3>1. pc'[p] = pc[p] /\ pc[p].i \in GroupIds /\ ~Created(pc[p].i)
      BY <2>2 DEF CallsKnow, Knows
    <3>2. ASSUME NEW q \in Procs \ {p} PROVE pc'[q].i # pc'[p].i
      BY <2>2, <3>1, GroupsAssumption DEF CallsKnow, Knows
    <3>3. QED
      BY <2>2, <3>1, <3>2, <1>1 DEF CallsKnow, Knows
  <2>3. CASE pc'[p].at = "destroy"
    BY <2>1, <2>3 DEF CallsKnow, Knows
  <2>4. CASE pc'[p].at \in {"wait", "unregister", "set"}
    BY <1>1, <2>4 DEF CallsKnow, Knows
  <2>5. QED
    BY <2>2, <2>3, <2>4 DEF Knows
<1>3. OnlyCreated'
  BY <1>1 DEF OnlyCreated, TypeOK
<1>4. OpenGroupIsFound'
  BY <1>1 DEF OpenGroupIsFound
<1>5. CloserRemains'
  <2> SUFFICES ASSUME NEW i \in GroupIds, g'[i].close # "open", groups'[g'[i].name] = i
               PROVE  \E p \in Procs : Closing(p, i)'
    BY DEF CloserRemains
  <2>1. PICK p \in Procs : Closing(p, i)
    BY DEF CloserRemains
  <2>2. Closing(p, i)'
    BY <2>1 DEF Closing
  <2>3. QED
    BY <2>2
<1>6. QED
  BY <1>2, <1>3, <1>4, <1>5

-----------------------------------------------------------------------------
\* The goroutines of a group: the waiter of Close and the synchronisations.
LEMMA BackgroundInv ==
  ASSUME GroupsInv, NEW i \in GroupIds, ~panicked, Background(i)
  PROVE  GroupsInv'
<1> USE DEF GroupsInv
<1>1. g \in [GroupIds -> GroupType] /\ g[i] \in GroupType
  BY DEF TypeOK
<1>2. UNCHANGED <<groups, mu, pc>> /\ (panicked' = panicked \/ WaitEnd(i))
  BY DEF Background, WaitBegin, WaitEnd, SyncAdd, SyncDone
<1>3. /\ \A j \in GroupIds \ {i} : g'[j] = g[j]
      /\ g'[i].name = g[i].name /\ g'[i].close = g[i].close
      /\ g' \in [GroupIds -> GroupType]
  <2>1. CASE WaitBegin(i)
    BY <1>1, <2>1 DEF WaitBegin, GroupType
  <2>2. CASE WaitEnd(i)
    BY <1>1, <2>2 DEF WaitEnd, GroupType
  <2>3. CASE SyncAdd(i)
    <3>1. g' = [g EXCEPT ![i] = [g[i] EXCEPT !.adds = @ - 1, !.wg = @ + 1,
                                             !.late = @ \/ g[i].close # "open"]]
      BY <1>1, <2>3 DEF SyncAdd, GroupType
    <3>2. g[i].adds - 1 \in Nat /\ g[i].wg + 1 \in Nat
      BY <1>1, <2>3 DEF SyncAdd, GroupType
    <3>3. QED
      BY <1>1, <3>1, <3>2 DEF GroupType
  <2>4. CASE SyncDone(i)
    <3>1. g' = [g EXCEPT ![i] = [g[i] EXCEPT !.wg = @ - 1,
                   !.waiter = IF g[i].wg = 1 /\ @ = "blocked" THEN "woken" ELSE @]]
      BY <1>1, <2>4 DEF SyncDone, GroupType
    <3>2. g[i].wg - 1 \in Nat
      BY <1>1, <2>4 DEF SyncDone, GroupType
    <3>3. QED
      BY <1>1, <3>1, <3>2 DEF GroupType
  <2>5. QED
    BY <2>1, <2>2, <2>3, <2>4 DEF Background
<1>4. TypeOK'
  BY <1>2, <1>3 DEF TypeOK, WaitEnd
<1>5. CallsKnow' /\ OnlyCreated' /\ OpenGroupIsFound' /\ CloserRemains'
  BY <1>2, <1>3, SameRegistry
<1>6. WaiterIsRight'
  <2> SUFFICES /\ g'[i].waiter # "none" => g'[i].close # "open"
               /\ \/ g'[i].late
                  \/ /\ g'[i].waiter \in {"woken", "done"} => g'[i].wg = 0
                     /\ g'[i].close = "waited" => g'[i].wg = 0
    BY <1>3 DEF WaiterIsRight
  <2>1. CASE WaitBegin(i)
    BY <1>1, <2>1 DEF WaitBegin, GroupType, WaiterIsRight
  <2>2. CASE WaitEnd(i)
    BY <1>1, <2>2 DEF WaitEnd, GroupType, WaiterIsRight
  <2>3. CASE SyncAdd(i)
    <3>1. g'[i].waiter = g[i].waiter /\ g'[i].late = (g[i].late \/ g[i].close # "open")
      BY <1>1, <2>3 DEF SyncAdd, GroupType
    <3>2. QED
      BY <1>3, <3>1 DEF WaiterIsRight
  <2>4. CASE SyncDone(i)
    <3>1. /\ g[i].wg \in Nat /\ g[i].wg > 0
          /\ g'[i].wg = g[i].wg - 1 /\ g'[i].late = g[i].late
          /\ g'[i].waiter = IF g[i].wg = 1 /\ g[i].waiter = "blocked" THEN "woken"
                            ELSE g[i].waiter
      BY <1>1, <2>4 DEF SyncDone, GroupType
    <3>2. QED
      BY <1>3, <3>1 DEF WaiterIsRight
  <2>5. QED
    BY <2>1, <2>2, <2>3, <2>4 DEF Background
<1>7. PanicIsLate'
  <2>1. panicked' => WaitEnd(i) /\ g[i].wg # 0
    BY <1>2 DEF WaitEnd
  <2>2. WaitEnd(i) /\ g[i].wg # 0 => g'[i].late
    BY <1>1 DEF WaitEnd, WaiterIsRight, GroupType
  <2>3. QED
    BY <2>1, <2>2 DEF PanicIsLate
<1>8. QED
  BY <1>4, <1>5, <1>6, <1>7

\* The compare-and-swap of Close, by whichever call gets there first.
LEMMA BeginCloseInv ==
  ASSUME GroupsInv, NEW p \in Procs, NEW i \in GroupIds, ~panicked, Created(i),
         BeginClose(p, i), pc[p].at \notin {"wait", "unregister"}
  PROVE  GroupsInv'
<1> USE DEF GroupsInv
<1>1. UNCHANGED <<groups, mu, panicked>> /\ g[i].close = "open"
  BY DEF BeginClose
<1>2. /\ g' \in [GroupIds -> GroupType]
      /\ g'[i].close = "closing" /\ g'[i].waiter = "start"
      /\ g'[i].name = g[i].name /\ g'[i].late = g[i].late /\ g'[i].wg = g[i].wg
      /\ \A j \in GroupIds \ {i} : g'[j] = g[j]
  <2>1. g \in [GroupIds -> GroupType] /\ g[i] \in GroupType
    BY DEF TypeOK
  <2>2. g' = [g EXCEPT ![i] = [g[i] EXCEPT !.close = "closing", !.waiter = "start"]]
    BY <2>1 DEF BeginClose, GroupType
  <2>3. QED
    BY <2>1, <2>2 DEF GroupType
<1>3. /\ pc' \in [Procs -> CallType] /\ pc'[p].at = "wait" /\ pc'[p].i = i
      /\ \A q \in Procs \ {p} : pc'[q] = pc[q]
  BY GotoEffect DEF BeginClose
<1>4. TypeOK'
  BY <1>1, <1>2, <1>3 DEF TypeOK
<1>5. \A j \in GroupIds : Created(j)' <=> Created(j)
  BY <1>2 DEF Created
<1>6. CallsKnow'
  <2> SUFFICES ASSUME NEW q \in Procs PROVE Knows(q)'
    BY DEF CallsKnow
  <2>1. CASE q = p
    BY <1>2, <1>3, <1>5, <2>1 DEF Knows
  <2>2. CASE q # p
    <3>1. pc'[q] = pc[q] /\ Registered' = Registered
      BY <1>1, <1>3, <2>2 DEF Registered
    <3>2. \A o \in Procs : pc'[o].i = pc[o].i \/ pc'[o].i = i
      BY <1>3
    <3>3. QED
      BY <1>1, <1>2, <1>5, <3>1, <3>2 DEF CallsKnow, Knows
  <2>3. QED
    BY <2>1, <2>2
<1>7. OnlyCreated'
  BY <1>1, <1>2, <1>5 DEF OnlyCreated, TypeOK
<1>8. OpenGroupIsFound'
  <2> SUFFICES ASSUME NEW j \in GroupIds, Created(j)', g'[j].close = "open",
                      groups'[g'[j].name] # j
               PROVE  \E k \in GroupIds \ {j} : g'[k].name = g'[j].name
    BY DEF OpenGroupIsFound
  <2>1. j # i /\ Created(j) /\ g[j].close = "open" /\ groups[g[j].name] # j
    BY <1>1, <1>2, <1>5
  <2>2. PICK k \in GroupIds \ {j} : g[k].name = g[j].name
    BY <2>1 DEF OpenGroupIsFound
  <2>3. QED
    BY <1>2, <2>1, <2>2
<1>9. CloserRemains'
  <2> SUFFICES ASSUME NEW j \in GroupIds, g'[j].close # "open", groups'[g'[j].name] = j
               PROVE  \E q \in Procs : Closing(q, j)'
    BY DEF CloserRemains
  <2>1. CASE j = i
    BY <1>3, <2>1 DEF Closing
  <2>2. CASE j # i
    <3>1. PICK q \in Procs : Closing(q, j)
      BY <1>1, <1>2, <2>2 DEF CloserRemains
    <3>2. q # p
      BY <3>1 DEF Closing
    <3>3. QED
      BY <1>3, <3>1, <3>2 DEF Closing
  <2>3. QED
    BY <2>1, <2>2
<1>10. WaiterIsRight'
  BY <1>1, <1>2 DEF WaiterIsRight
<1>11. PanicIsLate'
  BY <1>1 DEF PanicIsLate
<1>12. QED
  BY <1>4, <1>6, <1>7, <1>8, <1>9, <1>10, <1>11

\* The start of a call.
LEMMA BeginInv ==
  ASSUME GroupsInv, NEW p \in Procs, ~panicked, Begin(p)
  PROVE  GroupsInv'
<1> USE DEF GroupsInv
<1>1. ASSUME NEW n \in Names, NEW i \in Fresh, Ask(p, "new", n, i)
      PROVE  GroupsInv'
  <2>1. i \in GroupIds /\ ~Created(i) /\ \A q \in Procs : pc[q].i # i
    BY DEF Fresh
  <2>2. /\ TypeOK' /\ pc[p] = Idle /\ UNCHANGED <<groups, mu, g, panicked>>
        /\ pc'[p].at = "lock" /\ pc'[p].op = "new" /\ pc'[p].n = n /\ pc'[p].i = i
        /\ \A q \in Procs \ {p} : pc'[q] = pc[q]
    BY <1>1, <2>1, AskEffect
  <2>3. Registered' = Registered /\ \A j \in GroupIds : Created(j)' <=> Created(j)
    BY <2>2 DEF Registered, Created
  <2>4. CallsKnow'
    <3> SUFFICES ASSUME NEW q \in Procs PROVE Knows(q)'
      BY DEF CallsKnow
    <3>1. CASE q = p
      BY <2>1, <2>2, <2>3, <3>1 DEF Knows
    <3>2. CASE q # p
      BY <2>1, <2>2, <2>3, <3>2 DEF CallsKnow, Knows
    <3>3. QED
      BY <3>1, <3>2
  <2>5. OnlyCreated' /\ OpenGroupIsFound' /\ WaiterIsRight' /\ PanicIsLate'
    BY <2>2 DEF OnlyCreated, OpenGroupIsFound, WaiterIsRight, PanicIsLate, Created
  <2>6. CloserRemains'
    <3>1. \A q \in Procs, j \in GroupIds : Closing(q, j) => Closing(q, j)'
      BY <2>2, IdleType DEF Closing
    <3>2. QED
      BY <2>2, <3>1 DEF CloserRemains
  <2>7. QED
    BY <2>2, <2>4, <2>5, <2>6
<1>2. ASSUME NEW op \in {"read", "destroy", "destroyAll"}, NEW n \in Names \cup {None},
             Ask(p, op, n, None)
      PROVE  GroupsInv'
  <2>1. /\ TypeOK' /\ pc[p] = Idle /\ UNCHANGED <<groups, mu, g, panicked>>
        /\ pc'[p].at = "lock" /\ pc'[p].op # "new" /\ pc'[p].i = None
        /\ \A q \in Procs \ {p} : pc'[q] = pc[q]
    BY <1>2, AskEffect
  <2>2. CallsKnow' /\ OnlyCreated' /\ OpenGroupIsFound' /\ CloserRemains'
    BY <2>1, IdleType, SameRegistry
  <2>3. WaiterIsRight' /\ PanicIsLate'
    BY <2>1 DEF WaiterIsRight, PanicIsLate
  <2>4. QED
    BY <2>1, <2>2, <2>3
<1>3. ASSUME NEW i \in GroupIds, Close(p, i) PROVE GroupsInv'
  BY <1>3, IdleType, BeginCloseInv DEF Close
<1>4. ASSUME NEW i \in GroupIds, Set(p, i) PROVE GroupsInv'
  <2>1. /\ pc' \in [Procs -> CallType] /\ pc'[p].at = "set" /\ pc'[p].i = i
        /\ \A q \in Procs \ {p} : pc'[q] = pc[q]
    BY <1>4, GotoEffect DEF Set
  <2>2. UNCHANGED <<groups, mu, g, panicked>> /\ pc[p] = Idle /\ Created(i)
    BY <1>4 DEF Set
  <2>3. CallsKnow' /\ OnlyCreated' /\ OpenGroupIsFound' /\ CloserRemains'
    BY <2>1, <2>2, IdleType, SameRegistry
  <2>4. TypeOK' /\ WaiterIsRight' /\ PanicIsLate'
    BY <2>1, <2>2 DEF TypeOK, WaiterIsRight, PanicIsLate
  <2>5. QED
    BY <2>3, <2>4
<1>5. QED
  BY <1>1, <1>2, <1>3, <1>4 DEF Begin

\* The steps that need groupsMu.
LEMMA LockStepInv ==
  ASSUME GroupsInv, NEW p \in Procs, ~panicked, LockStep(p)
  PROVE  GroupsInv'
<1> USE DEF GroupsInv
<1>1. mu = None /\ None \notin Procs /\ \A q \in Procs : pc[q].at # "destroy"
  BY GroupsAssumption DEF LockStep, NewGroup, Read, DestroyLock, Unregister, Locks,
     CallsKnow, Knows
<1>2. CASE NewGroup(p)
  <2> DEFINE n == pc[p].n
             i == pc[p].i
  <2>1. /\ n \in Names /\ i \in GroupIds /\ ~Created(i)
        /\ \A q \in Procs \ {p} : pc[q].i # i
        /\ pc[p].at = "lock"
    BY <1>2 DEF NewGroup, Locks, CallsKnow, Knows
  <2>2. /\ UNCHANGED <<mu, panicked>>
        /\ groups' \in [Names -> GroupIds \cup {None}] /\ groups'[n] = i
        /\ \A m \in Names \ {n} : groups'[m] = groups[m]
    BY <1>2, <2>1 DEF NewGroup, TypeOK
  <2>3. /\ g' \in [GroupIds -> GroupType] /\ g'[i].name = n
        /\ g'[i].close = g[i].close /\ g'[i].waiter = g[i].waiter
        /\ g'[i].late = g[i].late /\ g'[i].wg = g[i].wg
        /\ \A j \in GroupIds \ {i} : g'[j] = g[j]
    <3>1. g \in [GroupIds -> GroupType] /\ g[i] \in GroupType
      BY <2>1 DEF TypeOK
    <3>2. QED
      BY <1>2, <2>1, <3>1 DEF NewGroup, GroupType
  <2>4. /\ pc' \in [Procs -> CallType] /\ pc'[p] = Idle
        /\ \A q \in Procs \ {p} : pc'[q] = pc[q]
    BY <1>2, ReturnsEffect DEF NewGroup
  <2>5. g[i].close = "open" /\ g[i].name = None /\ n # None
    BY <2>1, GroupsAssumption DEF OnlyCreated, Created
  <2> HIDE DEF n, i
  <2>6. TypeOK'
    BY <2>2, <2>3, <2>4 DEF TypeOK
  <2>7. g'[i].name # None /\ \A j \in GroupIds \ {i} : Created(j)' <=> Created(j)
    BY <2>1, <2>3, <2>5 DEF Created
  <2>8. CallsKnow'
    <3> SUFFICES ASSUME NEW q \in Procs PROVE Knows(q)'
      BY DEF CallsKnow
    <3>1. CASE q = p
      BY <2>4, <3>1, IdleType DEF Knows
    <3>2. CASE q # p
      <4>1. pc'[q] = pc[q] /\ pc[q].i # i /\ pc[q].at # "destroy"
        BY <1>1, <2>1, <2>4, <3>2
      <4>2. \A o \in Procs : pc'[o].i = pc[o].i \/ pc'[o].i = None
        BY <2>4, IdleType
      <4>3. QED
        BY <2>3, <2>7, <4>1, <4>2, GroupsAssumption DEF CallsKnow, Knows
    <3>3. QED
      BY <3>1, <3>2
  <2>9. OnlyCreated'
    BY <2>2, <2>3, <2>5, <2>7 DEF OnlyCreated, TypeOK, Created
  <2>10. OpenGroupIsFound'
    <3> SUFFICES ASSUME NEW j \in GroupIds, Created(j)', g'[j].close = "open",
                        groups'[g'[j].name] # j
                 PROVE  \E k \in GroupIds \ {j} : g'[k].name = g'[j].name
      BY DEF OpenGroupIsFound
    <3>1. j # i
      BY <2>2, <2>3
    <3>2. CASE g[j].name = n
      BY <2>1, <2>3, <3>1, <3>2
    <3>3. CASE g[j].name # n
      <4>1. Created(j) /\ g[j].close = "open" /\ groups[g[j].name] # j
        BY <2>2, <2>3, <2>7, <3>1, <3>3 DEF Created, TypeOK, GroupType
      <4>2. PICK k \in GroupIds \ {j} : g[k].name = g[j].name
        BY <4>1 DEF OpenGroupIsFound
      <4>3. k # i
        BY <2>5, <4>1, <4>2 DEF Created
      <4>4. QED
        BY <2>3, <3>1, <4>2, <4>3
    <3>4. QED
      BY <3>2, <3>3
  <2>11. CloserRemains'
    <3> SUFFICES ASSUME NEW j \in GroupIds, g'[j].close # "open", groups'[g'[j].name] = j
                 PROVE  \E q \in Procs : Closing(q, j)'
      BY DEF CloserRemains
    <3>1. j # i /\ g[j].close # "open" /\ g[j].name \in Names
      BY <2>3, <2>5 DEF OnlyCreated, Created, TypeOK, GroupType
    <3>2. groups[g[j].name] = j
      BY <2>2, <2>3, <3>1
    <3>3. PICK q \in Procs : Closing(q, j)
      BY <3>1, <3>2 DEF CloserRemains
    <3>4. q # p
      BY <2>1, <3>3 DEF Closing
    <3>5. QED
      BY <2>4, <3>3, <3>4 DEF Closing
  <2>12. WaiterIsRight' /\ PanicIsLate'
    BY <2>2, <2>3 DEF WaiterIsRight, PanicIsLate
  <2>13. QED
    BY <2>6, <2>8, <2>9, <2>10, <2>11, <2>12
<1>3. CASE Read(p)
  <2>1. /\ pc' \in [Procs -> CallType] /\ pc'[p] = Idle
        /\ \A q \in Procs \ {p} : pc'[q] = pc[q]
    BY <1>3, ReturnsEffect DEF Read
  <2>2. UNCHANGED <<groups, mu, g, panicked>> /\ pc[p].at = "lock"
    BY <1>3 DEF Read, Locks
  <2>3. CallsKnow' /\ OnlyCreated' /\ OpenGroupIsFound' /\ CloserRemains'
    BY <2>1, <2>2, IdleType, SameRegistry
  <2>4. TypeOK' /\ WaiterIsRight' /\ PanicIsLate'
    BY <2>1, <2>2 DEF TypeOK, WaiterIsRight, PanicIsLate
  <2>5. QED
    BY <2>3, <2>4
<1>4. CASE DestroyLock(p)
  <2> DEFINE todo == Registered \cap IF pc[p].op = "destroyAll" THEN Names ELSE {pc[p].n}
             r == [Idle EXCEPT !.at = "destroy", !.todo = todo]
  <2>1. todo \subseteq Registered /\ Registered \subseteq Names
    BY DEF Registered
  <2> HIDE DEF todo
  <2>2. r \in CallType /\ r.at = "destroy" /\ r.todo = todo /\ r.i = None
    BY <2>1, IdleType DEF CallType
  <2>3. UNCHANGED <<groups, g, panicked>> /\ mu' = p /\ pc[p].at = "lock"
    BY <1>4 DEF DestroyLock, Locks
  <2>4. pc' = [pc EXCEPT ![p] = r]
    BY <1>4 DEF DestroyLock, todo
  <2> HIDE DEF r
  <2>5. pc' \in [Procs -> CallType] /\ pc'[p] = r /\ \A q \in Procs \ {p} : pc'[q] = pc[q]
    BY <2>2, <2>4 DEF TypeOK
  <2>6. Registered' = Registered /\ \A j \in GroupIds : Created(j)' <=> Created(j)
    BY <2>3 DEF Registered, Created
  <2>7. CallsKnow'
    <3> SUFFICES ASSUME NEW q \in Procs PROVE Knows(q)'
      BY DEF CallsKnow
    <3>1. CASE q = p
      BY <2>1, <2>2, <2>3, <2>5, <2>6, <3>1 DEF Knows
    <3>2. CASE q # p
      BY <1>1, <2>2, <2>3, <2>5, <2>6, <3>2, GroupsAssumption DEF CallsKnow, Knows
    <3>3. QED
      BY <3>1, <3>2
  <2>8. TypeOK' /\ OnlyCreated' /\ OpenGroupIsFound' /\ WaiterIsRight' /\ PanicIsLate'
    BY <2>3, <2>5 DEF TypeOK, OnlyCreated, OpenGroupIsFound, WaiterIsRight, PanicIsLate,
       Created
  <2>9. CloserRemains'
    <3>1. \A q \in Procs, j \in GroupIds : Closing(q, j) => Closing(q, j)'
      BY <2>3, <2>5 DEF Closing
    <3>2. QED
      BY <2>3, <3>1 DEF CloserRemains
  <2>10. QED
    BY <2>7, <2>8, <2>9
<1>5. CASE Unregister(p)
  <2> DEFINE i == pc[p].i
             n == g[i].name
  <2>1. /\ i \in GroupIds /\ Created(i) /\ g[i].close # "open" /\ n \in Names
        /\ UNCHANGED <<mu, g, panicked>>
    BY <1>5 DEF Unregister, CallsKnow, Knows, Created, TypeOK, GroupType
  <2>2. /\ groups' \in [Names -> GroupIds \cup {None}] /\ groups'[n] = None
        /\ \A m \in Names \ {n} : groups'[m] = groups[m]
    BY <1>5, <2>1 DEF Unregister, TypeOK
  <2>3. /\ pc' \in [Procs -> CallType] /\ pc'[p] = Idle
        /\ \A q \in Procs \ {p} : pc'[q] = pc[q]
    BY <1>5, ReturnsEffect DEF Unregister
  <2>4. \A j \in GroupIds : Created(j)' <=> Created(j)
    BY <2>1 DEF Created
  <2>5. CallsKnow'
    <3> SUFFICES ASSUME NEW q \in Procs PROVE Knows(q)'
      BY DEF CallsKnow
    <3>1. CASE q = p
      BY <2>3, <3>1, IdleType DEF Knows
    <3>2. CASE q # p
      <4>1. pc'[q] = pc[q] /\ pc[q].at # "destroy"
        BY <1>1, <2>3, <3>2
      <4>2. \A o \in Procs : pc'[o].i = pc[o].i \/ pc'[o].i = None
        BY <2>3, IdleType
      <4>3. QED
        BY <2>1, <2>4, <4>1, <4>2, GroupsAssumption DEF CallsKnow, Knows
    <3>3. QED
      BY <3>1, <3>2
  <2>6. OnlyCreated'
    BY <2>1, <2>2, <2>4 DEF OnlyCreated
  <2>7. OpenGroupIsFound'
    <3> SUFFICES ASSUME NEW j \in GroupIds, Created(j), g[j].close = "open",
                        groups'[g[j].name] # j
                 PROVE  \E k \in GroupIds \ {j} : g[k].name = g[j].name
      BY <2>1, <2>4 DEF OpenGroupIsFound
    <3>1. CASE g[j].name = n
      BY <2>1, <3>1
    <3>2. CASE g[j].name # n
      BY <2>2, <3>2 DEF OpenGroupIsFound, Created, TypeOK, GroupType
    <3>3. QED
      BY <3>1, <3>2
  <2>8. CloserRemains'
    <3> SUFFICES ASSUME NEW j \in GroupIds, g[j].close # "open", groups'[g[j].name] = j
                 PROVE  \E q \in Procs : Closing(q, j)'
      BY <2>1 DEF CloserRemains
    <3>1. g[j].name \in Names
      BY DEF OnlyCreated, Created, TypeOK, GroupType
    <3>2. g[j].name # n /\ groups[g[j].name] = j
      BY <2>2, <3>1, GroupsAssumption
    <3>3. PICK q \in Procs : Closing(q, j)
      BY <3>2 DEF CloserRemains
    <3>4. q # p
      BY <3>2, <3>3 DEF Closing
    <3>5. QED
      BY <2>3, <3>3, <3>4 DEF Closing
  <2>9. TypeOK' /\ WaiterIsRight' /\ PanicIsLate'
    BY <2>1, <2>2, <2>3 DEF TypeOK, WaiterIsRight, PanicIsLate
  <2>10. QED
    BY <2>5, <2>6, <2>7, <2>8, <2>9
<1>6. QED
  BY <1>2, <1>3, <1>4, <1>5 DEF LockStep

\* The other steps of a call.
LEMMA OwnStepInv ==
  ASSUME GroupsInv, NEW p \in Procs, ~panicked, OwnStep(p)
  PROVE  GroupsInv'
<1> USE DEF GroupsInv
<1>1. CASE DestroyUnlock(p)
  <2>1. /\ pc' \in [Procs -> CallType] /\ pc'[p] = Idle
        /\ \A q \in Procs \ {p} : pc'[q] = pc[q]
    BY <1>1, ReturnsEffect DEF DestroyUnlock
  <2>2. UNCHANGED <<groups, g, panicked>> /\ mu' = None /\ mu = p /\ pc[p].at = "destroy"
    BY <1>1 DEF DestroyUnlock, CallsKnow, Knows
  <2>3. Registered' = Registered /\ \A j \in GroupIds : Created(j)' <=> Created(j)
    BY <2>2 DEF Registered, Created
  <2>4. CallsKnow'
    <3> SUFFICES ASSUME NEW q \in Procs PROVE Knows(q)'
      BY DEF CallsKnow
    <3>1. CASE q = p
      BY <2>1, <3>1, IdleType DEF Knows
    <3>2. CASE q # p
      BY <2>1, <2>2, <2>3, <3>2, IdleType, GroupsAssumption DEF CallsKnow, Knows
    <3>3. QED
      BY <3>1, <3>2
  <2>5. TypeOK' /\ OnlyCreated' /\ OpenGroupIsFound' /\ WaiterIsRight' /\ PanicIsLate'
    BY <2>1, <2>2 DEF TypeOK, OnlyCreated, OpenGroupIsFound, WaiterIsRight, PanicIsLate,
       Created
  <2>6. CloserRemains'
    <3>1. \A q \in Procs, j \in GroupIds : Closing(q, j) => Closing(q, j)'
      BY <2>1, <2>2 DEF Closing
    <3>2. QED
      BY <2>2, <3>1 DEF CloserRemains
  <2>7. QED
    BY <2>4, <2>5, <2>6
<1>2. CASE CloseWaited(p) \/ CloseTimeout(p)
  <2> DEFINE i == pc[p].i
  <2>1. /\ pc[p].at = "wait" /\ i \in GroupIds /\ g[i].close # "open"
        /\ UNCHANGED <<groups, mu, panicked>>
    BY <1>2 DEF CloseWaited, CloseTimeout, CallsKnow, Knows
  <2>2. g \in [GroupIds -> GroupType] /\ g[i] \in GroupType
    BY <2>1 DEF TypeOK
  <2>3. /\ g' \in [GroupIds -> GroupType]
        /\ g'[i].name = g[i].name /\ g'[i].wg = g[i].wg /\ g'[i].late = g[i].late
        /\ \A j \in GroupIds \ {i} : g'[j] = g[j]
        /\ \/ g'[i].close = "waited" /\ g[i].waiter = "done" /\ g'[i].waiter = "none"
           \/ g'[i].close = "timedOut" /\ g'[i].waiter = g[i].waiter
    <3>1. CASE CloseWaited(p)
      <4>1. g' = [g EXCEPT ![i] = [g[i] EXCEPT !.close = "waited", !.waiter = "none"]]
        BY <2>1, <2>2, <3>1 DEF CloseWaited, GroupType
      <4>2. g[i].waiter = "done"
        BY <3>1 DEF CloseWaited
      <4>3. QED
        BY <2>1, <2>2, <4>1, <4>2 DEF GroupType
    <3>2. CASE CloseTimeout(p)
      BY <2>1, <2>2, <3>2 DEF CloseTimeout, GroupType
    <3>3. QED
      BY <1>2, <3>1, <3>2
  <2>4. /\ pc' \in [Procs -> CallType] /\ pc'[p].at = "unregister" /\ pc'[p].i = i
        /\ \A q \in Procs \ {p} : pc'[q] = pc[q]
    <3>1. pc \in [Procs -> CallType] /\ pc[p] \in CallType
      BY DEF TypeOK
    <3>2. pc' = [pc EXCEPT ![p].at = "unregister"]
      BY <1>2 DEF CloseWaited, CloseTimeout
    <3>3. QED
      BY <3>1, <3>2 DEF CallType
  <2>5. CallsKnow' /\ OnlyCreated' /\ OpenGroupIsFound' /\ CloserRemains'
    BY <2>1, <2>3, <2>4, SameRegistry
  <2>6. WaiterIsRight'
    BY <2>1, <2>3 DEF WaiterIsRight
  <2>7. TypeOK' /\ PanicIsLate'
    BY <2>1, <2>3, <2>4 DEF TypeOK, PanicIsLate
  <2>8. QED
    BY <2>5, <2>6, <2>7
<1>3. CASE SetSync(p)
  <2> DEFINE i == pc[p].i
  <2>1. /\ pc[p].at = "set" /\ i \in GroupIds
        /\ UNCHANGED <<groups, mu, panicked>>
    BY <1>3 DEF SetSync, CallsKnow, Knows
  <2>2. g \in [GroupIds -> GroupType] /\ g[i] \in GroupType
    BY <2>1 DEF TypeOK
  <2>3. PICK peers \in 0..MaxSyncs : g' = [g EXCEPT ![i].adds = @ + peers]
    BY <1>3 DEF SetSync
  <2>4. g[i].adds + peers \in Nat
    BY <2>2 DEF GroupType
  <2>5. /\ g' \in [GroupIds -> GroupType]
        /\ g'[i].name = g[i].name /\ g'[i].wg = g[i].wg /\ g'[i].late = g[i].late
        /\ g'[i].close = g[i].close /\ g'[i].waiter = g[i].waiter
        /\ \A j \in GroupIds \ {i} : g'[j] = g[j]
    BY <2>1, <2>2, <2>3, <2>4 DEF GroupType
  <2>6. /\ pc' \in [Procs -> CallType] /\ pc'[p] = Idle
        /\ \A q \in Procs \ {p} : pc'[q] = pc[q]
    BY <1>3, ReturnsEffect DEF SetSync
  <2>7. CallsKnow' /\ OnlyCreated' /\ OpenGroupIsFound' /\ CloserRemains'
    BY <2>1, <2>5, <2>6, IdleType, SameRegistry
  <2>8. TypeOK' /\ WaiterIsRight' /\ PanicIsLate'
    BY <2>1, <2>5, <2>6 DEF TypeOK, WaiterIsRight, PanicIsLate
  <2>9. QED
    BY <2>7, <2>8
<1>4. ASSUME NEW n \in Names, DestroyClose(p, n) PROVE GroupsInv'
  <2>1. pc[p].at = "destroy" /\ groups[n] # None /\ BeginClose(p, groups[n])
    BY <1>4 DEF DestroyClose, CallsKnow, Knows, Registered
  <2>2. groups[n] \in GroupIds /\ Created(groups[n])
    BY <2>1 DEF OnlyCreated, TypeOK
  <2>3. QED
    BY <2>1, <2>2, BeginCloseInv
<1>5. ASSUME NEW n \in Names, DestroyDelete(p, n) PROVE GroupsInv'
  <2>1. /\ pc[p].at = "destroy" /\ mu = p /\ pc[p].todo \subseteq Registered
        /\ g[groups[n]].close # "open" /\ UNCHANGED <<mu, g, panicked>>
    BY <1>5 DEF DestroyDelete, CallsKnow, Knows
  <2>2. /\ groups' \in [Names -> GroupIds \cup {None}] /\ groups'[n] = None
        /\ \A m \in Names \ {n} : groups'[m] = groups[m]
    BY <1>5 DEF DestroyDelete, TypeOK
  <2>3. /\ pc' \in [Procs -> CallType] /\ pc'[p].at = "destroy" /\ pc'[p].i = pc[p].i
        /\ pc'[p].todo = pc[p].todo \ {n}
        /\ \A q \in Procs \ {p} : pc'[q] = pc[q]
    <3>1. pc \in [Procs -> CallType] /\ pc[p] \in CallType
      BY DEF TypeOK
    <3>2. pc' = [pc EXCEPT ![p].todo = @ \ {n}]
      BY <1>5 DEF DestroyDelete
    <3>3. QED
      BY <2>1, <3>1, <3>2 DEF CallType
  <2>4. Registered' = Registered \ {n} /\ \A j \in GroupIds : Created(j)' <=> Created(j)
    BY <2>1, <2>2 DEF Registered, Created
  <2>5. CallsKnow'
    <3> SUFFICES ASSUME NEW q \in Procs PROVE Knows(q)'
      BY DEF CallsKnow
    <3>1. CASE q = p
      BY <2>1, <2>3, <2>4, <3>1 DEF Knows
    <3>2. CASE q # p
      <4>1. pc'[q] = pc[q] /\ pc[q].at # "destroy" /\ \A o \in Procs : pc'[o].i = pc[o].i
        BY <2>1, <2>3, <3>2 DEF CallsKnow, Knows
      <4>2. QED
        BY <2>1, <2>4, <4>1 DEF CallsKnow, Knows
    <3>3. QED
      BY <3>1, <3>2
  <2>6. OnlyCreated'
    BY <2>1, <2>2, <2>4 DEF OnlyCreated
  <2>7. OpenGroupIsFound'
    <3> SUFFICES ASSUME NEW j \in GroupIds, Created(j), g[j].close = "open",
                        groups'[g[j].name] # j
                 PROVE  \E k \in GroupIds \ {j} : g[k].name = g[j].name
      BY <2>1, <2>4 DEF OpenGroupIsFound
    <3>1. groups[g[j].name] # j
      BY <2>1, <2>2 DEF Created, TypeOK, GroupType
    <3>2. QED
      BY <3>1 DEF OpenGroupIsFound
  <2>8. CloserRemains'
    <3> SUFFICES ASSUME NEW j \in GroupIds, g[j].close # "open", groups'[g[j].name] = j
                 PROVE  \E q \in Procs : Closing(q, j)'
      BY <2>1 DEF CloserRemains
    <3>1. g[j].name \in Names
      BY DEF OnlyCreated, Created, TypeOK, GroupType
    <3>2. groups[g[j].name] = j
      BY <2>2, <3>1, GroupsAssumption
    <3>3. PICK q \in Procs : Closing(q, j)
      BY <3>2 DEF CloserRemains
    <3>4. q # p
      BY <2>1, <3>3 DEF Closing
    <3>5. QED
      BY <2>3, <3>3, <3>4 DEF Closing
  <2>9. TypeOK' /\ WaiterIsRight' /\ PanicIsLate'
    BY <2>1, <2>2, <2>3 DEF TypeOK, WaiterIsRight, PanicIsLate
  <2>10. QED
    BY <2>5, <2>6, <2>7, <2>8, <2>9
<1>6. QED
  BY <1>1, <1>2, <1>3, <1>4, <1>5 DEF OwnStep

-----------------------------------------------------------------------------
\* GroupsInv is an inductive invariant.
THEOREM GroupsInvariant == Spec => []GroupsInv
<1>1. Init => GroupsInv
  <2> SUFFICES ASSUME Init PROVE GroupsInv
    OBVIOUS
  <2>1. TypeOK
    <3>1. NewObject \in GroupType
      BY DEF NewObject, GroupType
    <3>2. QED
      BY <3>1, IdleType DEF Init, TypeOK
  <2>2. \A i \in GroupIds : g[i].name = None /\ g[i].close = "open" /\ g[i].waiter = "none"
    BY DEF Init, NewObject
  <2>3. CallsKnow
    BY IdleType DEF Init, CallsKnow, Knows
  <2>4. QED
    BY <2>1, <2>2, <2>3 DEF Init, GroupsInv, OnlyCreated, OpenGroupIsFound, CloserRemains,
       WaiterIsRight, PanicIsLate, Created
<1>2. GroupsInv /\ [Next]_vars => GroupsInv'
  <2> SUFFICES ASSUME GroupsInv, [Next]_vars PROVE GroupsInv'
    OBVIOUS
  <2>1. CASE UNCHANGED vars
    BY <2>1 DEF vars, GroupsInv, TypeOK, CallsKnow, Knows, OnlyCreated, OpenGroupIsFound,
       CloserRemains, WaiterIsRight, PanicIsLate, Created, Registered, Closing
  <2>2. CASE Next
    BY <2>2, BeginInv, LockStepInv, OwnStepInv, BackgroundInv DEF Next
  <2>3. QED
    BY <2>1, <2>2
<1>3. QED
  BY <1>1, <1>2, PTL DEF Spec

\* Only a group of the same name can keep an open group from being found
\* (group.go lines 155-160 and 313-315).
THEOREM OpenGroupsAreFound == Spec => []OpenGroupIsFound
<1>1. GroupsInv => OpenGroupIsFound
  BY DEF GroupsInv
<1>2. QED
  BY <1>1, GroupsInvariant, PTL

\* The registry does not know a group any more when the call that closes it has
\* returned (group.go lines 292-319).
THEOREM ClosedGroupsAreGone == Spec => []ClosedIsGone
<1>1. GroupsInv => ClosedIsGone
  BY DEF GroupsInv, CloserRemains, Closing, ClosedIsGone
<1>2. QED
  BY <1>1, GroupsInvariant, PTL

\* A Close that has not timed out has waited for every synchronisation that was
\* added before it began (group.go lines 297-311).
THEOREM CloseWaitsForSyncs == Spec => []OnlyLateSyncsSurvive
<1>1. GroupsInv => OnlyLateSyncsSurvive
  BY DEF GroupsInv, WaiterIsRight, OnlyLateSyncsSurvive
<1>2. QED
  BY <1>1, GroupsInvariant, PTL

\* The WaitGroup panics only if a synchronisation was added after Close had begun:
\* the check of closed in Set does not prevent that (group.go lines 200, 264 and 293-302).
THEOREM OnlyLateAddsPanic == Spec => [](panicked => \E i \in GroupIds : g[i].late)
<1>1. GroupsInv => (panicked => \E i \in GroupIds : g[i].late)
  BY DEF GroupsInv, PanicIsLate
<1>2. QED
  BY <1>1, GroupsInvariant, PTL
=============================================================================
