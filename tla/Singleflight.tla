---------------------------- MODULE Singleflight ----------------------------
(***************************************************************************)
(* Request coalescing, singleflight/singleflight.go.                       *)
(*                                                                         *)
(* Goroutines of Procs call Group.Do(key, fn).  The group keeps a sync.Map *)
(* m from keys to *call objects.  Load and Store of that map are atomic    *)
(* each, but Do performs them as two separate steps, and the leader wakes  *)
(* its followers (wg.Done) before it deletes the map entry.  The callback  *)
(* fn is the caller's: it stays in the "fn" location as long as it likes   *)
(* and ends by returning a result or by panicking.                         *)
(*                                                                         *)
(* A *call is garbage-collected once nothing refers to it, so a newly      *)
(* allocated call is any member of Calls that no goroutine and no map      *)
(* entry refers to.                                                        *)
(***************************************************************************)
EXTENDS Integers

CONSTANTS
  Procs,    \* goroutines that call Do
  Keys,     \* keys
  Calls,    \* heap addresses for *call objects
  Results,  \* the (val, err) pairs fn can return
  Panic,    \* the result recorded when fn panics
  None      \* nil: no map entry, no call, no result

ASSUME SFAssumption ==
  /\ None \notin Calls \cup Results \cup Keys
  /\ Panic \notin Results \cup {None}

VARIABLES
  m,        \* m[k]: the call published for k in Group.m, or None
  call,     \* call[c]: .wg is the WaitGroup counter, .res is (val, err)
  pc,       \* pc[p]: where goroutine p is in Do
  arg,      \* arg[p]: the key p passed to Do
  cur,      \* cur[p]: the local variable c of Do
  ret,      \* ret[p]: what Do returned to p, until p takes it
  produced  \* history: produced[k] is every outcome an fn for k has had

sfvars == <<m, call, pc, arg, cur, ret, produced>>

Outcomes == Results \cup {Panic}

\* The locations of Do between its atomic steps.
Locations ==
  {"idle", "load", "store", "fn", "done", "delete", "wait", "return", "returned"}

\* A call that nobody uses.
Blank == [wg |-> 0, res |-> None]

\* Locations in which a goroutine executes the call it created itself.
Leading == {"store", "fn", "done", "delete"}

TypeOK ==
  /\ m \in [Keys -> Calls \cup {None}]
  /\ call \in [Calls -> [wg : {0, 1}, res : Outcomes \cup {None}]]
  /\ pc \in [Procs -> Locations]
  /\ arg \in [Procs -> Keys \cup {None}]
  /\ cur \in [Procs -> Calls \cup {None}]
  /\ ret \in [Procs -> Outcomes \cup {None}]
  /\ produced \in [Keys -> SUBSET Outcomes]

Init ==
  /\ m = [k \in Keys |-> None]
  /\ call = [c \in Calls |-> Blank]
  /\ pc = [p \in Procs |-> "idle"]
  /\ arg = [p \in Procs |-> None]
  /\ cur = [p \in Procs |-> None]
  /\ ret = [p \in Procs |-> None]
  /\ produced = [k \in Keys |-> {}]

Goto(p, from, to) ==
  /\ pc[p] = from
  /\ pc' = [pc EXCEPT ![p] = to]

\* A call object that nothing refers to: what &call{} may return.
Fresh(c) ==
  /\ \A q \in Procs : cur[q] # c
  /\ \A k \in Keys : m[k] # c

Do(p, k) ==
  /\ Goto(p, "idle", "load")
  /\ arg' = [arg EXCEPT ![p] = k]
  /\ UNCHANGED <<m, call, cur, ret, produced>>

\* g.m.Load(key) finds a call: become a follower.
LoadHit(p) ==
  /\ Goto(p, "load", "wait")
  /\ m[arg[p]] # None
  /\ cur' = [cur EXCEPT ![p] = m[arg[p]]]
  /\ UNCHANGED <<m, call, arg, ret, produced>>

\* A bug: Add(1) is missing.
LoadMissNoAdd(p) ==
  /\ Goto(p, "load", "store")
  /\ m[arg[p]] = None
  /\ \E c \in Calls :
       /\ Fresh(c)
       /\ cur' = [cur EXCEPT ![p] = c]
       /\ call' = [call EXCEPT ![c] = [wg |-> 0, res |-> None]]
  /\ UNCHANGED <<m, arg, ret, produced>>

\* g.m.Load(key) finds nothing: c := &call{}; c.wg.Add(1).
LoadMiss(p) ==
  /\ Goto(p, "load", "store")
  /\ m[arg[p]] = None
  /\ \E c \in Calls :
       /\ Fresh(c)
       /\ cur' = [cur EXCEPT ![p] = c]
       /\ call' = [call EXCEPT ![c] = [wg |-> 1, res |-> None]]
  /\ UNCHANGED <<m, arg, ret, produced>>

\* g.m.Store(key, c), whatever the map holds by now.
Store(p) ==
  /\ Goto(p, "store", "fn")
  /\ m' = [m EXCEPT ![arg[p]] = cur[p]]
  /\ UNCHANGED <<call, arg, cur, ret, produced>>

\* c.val, c.err = fn(), or the deferred recover when fn panics.
FnEnd(p, r) ==
  /\ Goto(p, "fn", "done")
  /\ call' = [call EXCEPT ![cur[p]].res = r]
  /\ produced' = [produced EXCEPT ![arg[p]] = @ \cup {r}]
  /\ UNCHANGED <<m, arg, cur, ret>>

\* A bug: a panic of fn skips Done.
DoneUnlessPanic(p) ==
  /\ Goto(p, "done", "delete")
  /\ call' = [call EXCEPT ![cur[p]].wg = IF call[cur[p]].res = Panic THEN @ ELSE @ - 1]
  /\ UNCHANGED <<m, arg, cur, ret, produced>>

\* The deferred c.wg.Done().
Done(p) ==
  /\ Goto(p, "done", "delete")
  /\ call' = [call EXCEPT ![cur[p]].wg = @ - 1]
  /\ UNCHANGED <<m, arg, cur, ret, produced>>

\* A bug: the leader returns without deleting the entry.
DeleteForgotten(p) ==
  /\ Goto(p, "delete", "return")
  /\ UNCHANGED <<m, call, arg, cur, ret, produced>>

\* g.m.Delete(key): by key, whichever call is published there.
Delete(p) ==
  /\ Goto(p, "delete", "return")
  /\ m' = [m EXCEPT ![arg[p]] = None]
  /\ UNCHANGED <<call, arg, cur, ret, produced>>

\* A bug: the follower does not wait.
WaitSkipped(p) ==
  /\ Goto(p, "wait", "return")
  /\ UNCHANGED <<m, call, arg, cur, ret, produced>>

\* A bug: a follower whose leader panicked tries again.
WaitRetries(p) ==
  /\ Goto(p, "wait", IF call[cur[p]].res = Panic THEN "load" ELSE "return")
  /\ call[cur[p]].wg = 0
  /\ UNCHANGED <<m, call, arg, cur, ret, produced>>

\* c.wg.Wait() of a follower.
Wait(p) ==
  /\ Goto(p, "wait", "return")
  /\ call[cur[p]].wg = 0
  /\ UNCHANGED <<m, call, arg, cur, ret, produced>>

\* return c.val, c.err; the last goroutine to let go of a call leaves garbage.
Return(p) ==
  /\ Goto(p, "return", "returned")
  /\ ret' = [ret EXCEPT ![p] = call[cur[p]].res]
  /\ cur' = [cur EXCEPT ![p] = None]
  /\ call' = IF \E q \in Procs \ {p} : cur[q] = cur[p] THEN call
             ELSE [call EXCEPT ![cur[p]] = Blank]
  /\ UNCHANGED <<m, arg, produced>>

\* The caller takes what Do has returned.
Leave(p) ==
  /\ Goto(p, "returned", "idle")
  /\ ret' = [ret EXCEPT ![p] = None]
  /\ arg' = [arg EXCEPT ![p] = None]
  /\ UNCHANGED <<m, call, cur, produced>>

Step(p) ==
  \/ LoadHit(p) \/ LoadMiss(p) \/ Store(p)
  \/ \E r \in Outcomes : FnEnd(p, r)
  \/ Done(p) \/ Delete(p) \/ Wait(p) \/ Return(p) \/ Leave(p)

Next == \E p \in Procs : Step(p) \/ \E k \in Keys : Do(p, k)

Spec == Init /\ [][Next]_sfvars

\* A runnable goroutine is scheduled and fn terminates; nobody has to call Do.
FairSpec == Spec /\ \A p \in Procs : WF_sfvars(Step(p))

-----------------------------------------------------------------------------
\* Do returns only what an execution of fn for the same key has produced: a
\* follower never reads the val and err of its call before the leader wrote
\* them, and never those of another key (lines 23-26 and 50).
ReturnsProduced ==
  \A p \in Procs : pc[p] = "returned" => ret[p] \in produced[arg[p]]

\* A published call always has a goroutine that is still going to delete the
\* entry: no entry outlives its Do, so no later Do for the key can join a call
\* that was over before it started, and the map does not leak (lines 32-48).
PublishedCallsAreLed ==
  \A k \in Keys : m[k] # None =>
    \E p \in Procs :
      pc[p] \in Leading \ {"store"} /\ arg[p] = k /\ cur[p] = m[k]

\* The counter a goroutine waits on belongs to a call that is either over or
\* still executed by its creator: a waiter is never left behind (lines 24-25
\* and 37-46).
WaitersHaveLeader ==
  \A p \in Procs : pc[p] = "wait" /\ call[cur[p]].wg = 1 =>
    \E q \in Procs : pc[q] \in {"fn", "done"} /\ cur[q] = cur[p]

\* Every Do returns, followers included, whatever other goroutines do to the
\* map meanwhile and whether or not fn panics (lines 21-51).
DoReturns == \A p \in Procs : pc[p] = "load" ~> pc[p] = "idle"

\* What the comment on Do promises (line 20): concurrent calls for one key
\* execute fn once.
OneExecution ==
  \A p, q \in Procs :
    p # q /\ pc[p] = "fn" /\ pc[q] = "fn" => arg[p] # arg[q]
=============================================================================
