------------------------- MODULE SingleflightProofs -------------------------
(***************************************************************************)
(* Proofs about Singleflight for any number of goroutines, keys, calls and *)
(* results.                                                                *)
(***************************************************************************)
EXTENDS Singleflight, TLAPS

\* What a goroutine's location says about its local variables.
LocalsOK ==
  \A p \in Procs :
    /\ pc[p] \in {"idle", "load", "returned"} => cur[p] = None
    /\ pc[p] \notin {"idle", "load", "returned"} => cur[p] \in Calls
    /\ pc[p] # "idle" => arg[p] \in Keys
    /\ pc[p] # "returned" => ret[p] = None

\* Two leaders never share a call.
LeadersDistinct ==
  \A p, q \in Procs :
    p # q /\ pc[p] \in Leading /\ pc[q] \in Leading => cur[p] # cur[q]

\* The counter and the result of the call a leader executes.
LeaderCall ==
  \A p \in Procs :
    /\ pc[p] \in {"store", "fn", "done"} => call[cur[p]].wg = 1
    /\ pc[p] = "done" => call[cur[p]].res \in produced[arg[p]]
    /\ pc[p] = "delete" => call[cur[p]].wg = 0

\* A call whose counter is zero holds a result of the right key for everyone
\* who is past the map lookup and still refers to it.
ClosedCall ==
  \A p \in Procs :
    pc[p] \in {"delete", "wait", "return"} /\ call[cur[p]].wg = 0
      => call[cur[p]].res \in produced[arg[p]]

\* A goroutine that is about to return has a finished call.
ReturnReady ==
  \A p \in Procs : pc[p] = "return" => call[cur[p]].wg = 0

\* A follower waits on a call of its own key.
WaitersLed ==
  \A p \in Procs : pc[p] = "wait" /\ call[cur[p]].wg = 1 =>
    \E q \in Procs :
      pc[q] \in {"fn", "done"} /\ cur[q] = cur[p] /\ arg[q] = arg[p]

IInv ==
  /\ TypeOK
  /\ LocalsOK
  /\ LeadersDistinct
  /\ PublishedCallsAreLed
  /\ LeaderCall
  /\ ClosedCall
  /\ ReturnReady
  /\ WaitersLed
  /\ ReturnsProduced
-----------------------------------------------------------------------------
\* Do preserves the inductive invariant.
LEMMA DoInv ==
  ASSUME IInv, NEW p \in Procs, NEW k \in Keys, Do(p, k)
  PROVE  IInv'
<1> USE SFAssumption DEF Goto, Locations, Leading, Outcomes, TypeOK, LocalsOK
<1>1. TypeOK'
  BY DEF IInv, Do
<1>2. LocalsOK'
  BY DEF IInv, Do
<1>3. LeadersDistinct'
  BY DEF IInv, Do, LeadersDistinct
<1>4. PublishedCallsAreLed'
  BY DEF IInv, Do, PublishedCallsAreLed
<1>5. LeaderCall'
  BY DEF IInv, Do, LeaderCall
<1>6. ClosedCall'
  BY DEF IInv, Do, ClosedCall
<1>7. ReturnReady'
  BY DEF IInv, Do, ReturnReady
<1>8. WaitersLed'
  BY DEF IInv, Do, WaitersLed
<1>9. ReturnsProduced'
  BY DEF IInv, Do, ReturnsProduced
<1>10. QED
  BY <1>1, <1>2, <1>3, <1>4, <1>5, <1>6, <1>7, <1>8, <1>9 DEF IInv

\* LoadHit preserves the inductive invariant.
LEMMA LoadHitInv ==
  ASSUME IInv, NEW p \in Procs, LoadHit(p)
  PROVE  IInv'
<1> USE SFAssumption DEF Goto, Locations, Leading, Outcomes, TypeOK, LocalsOK
<1>1. TypeOK'
  BY DEF IInv, LoadHit
<1>2. LocalsOK'
  BY DEF IInv, LoadHit
<1>3. LeadersDistinct'
  BY DEF IInv, LoadHit, LeadersDistinct
<1>4. PublishedCallsAreLed'
  BY DEF IInv, LoadHit, PublishedCallsAreLed
<1>5. LeaderCall'
  BY DEF IInv, LoadHit, LeaderCall
<1>6. ClosedCall'
  BY DEF IInv, LoadHit, ClosedCall, PublishedCallsAreLed, LeaderCall
<1>7. ReturnReady'
  BY DEF IInv, LoadHit, ReturnReady
<1>8. WaitersLed'
  BY DEF IInv, LoadHit, WaitersLed, PublishedCallsAreLed, LeaderCall
<1>9. ReturnsProduced'
  BY DEF IInv, LoadHit, ReturnsProduced
<1>10. QED
  BY <1>1, <1>2, <1>3, <1>4, <1>5, <1>6, <1>7, <1>8, <1>9 DEF IInv

\* LoadMiss preserves the inductive invariant.
LEMMA LoadMissInv ==
  ASSUME IInv, NEW p \in Procs, LoadMiss(p)
  PROVE  IInv'
<1> USE SFAssumption DEF Goto, Locations, Leading, Outcomes, TypeOK, LocalsOK
<1>1. TypeOK'
  BY DEF IInv, LoadMiss, Fresh
<1>2. LocalsOK'
  BY DEF IInv, LoadMiss, Fresh
<1>3. LeadersDistinct'
  BY DEF IInv, LoadMiss, Fresh, LeadersDistinct
<1>4. PublishedCallsAreLed'
  BY DEF IInv, LoadMiss, Fresh, PublishedCallsAreLed
<1>5. LeaderCall'
  BY DEF IInv, LoadMiss, Fresh, LeaderCall
<1>6. ClosedCall'
  BY DEF IInv, LoadMiss, Fresh, ClosedCall
<1>7. ReturnReady'
  BY DEF IInv, LoadMiss, Fresh, ReturnReady
<1>8. WaitersLed'
  BY DEF IInv, LoadMiss, Fresh, WaitersLed
<1>9. ReturnsProduced'
  BY DEF IInv, LoadMiss, Fresh, ReturnsProduced
<1>10. QED
  BY <1>1, <1>2, <1>3, <1>4, <1>5, <1>6, <1>7, <1>8, <1>9 DEF IInv

\* Store preserves the inductive invariant.
LEMMA StoreInv ==
  ASSUME IInv, NEW p \in Procs, Store(p)
  PROVE  IInv'
<1> USE SFAssumption DEF Goto, Locations, Leading, Outcomes, TypeOK, LocalsOK
<1>1. TypeOK'
  BY DEF IInv, Store
<1>2. LocalsOK'
  BY DEF IInv, Store
<1>3. LeadersDistinct'
  BY DEF IInv, Store, LeadersDistinct
<1>4. PublishedCallsAreLed'
  BY DEF IInv, Store, PublishedCallsAreLed
<1>5. LeaderCall'
  BY DEF IInv, Store, LeaderCall
<1>6. ClosedCall'
  BY DEF IInv, Store, ClosedCall
<1>7. ReturnReady'
  BY DEF IInv, Store, ReturnReady
<1>8. WaitersLed'
  BY DEF IInv, Store, WaitersLed
<1>9. ReturnsProduced'
  BY DEF IInv, Store, ReturnsProduced
<1>10. QED
  BY <1>1, <1>2, <1>3, <1>4, <1>5, <1>6, <1>7, <1>8, <1>9 DEF IInv

\* FnEnd preserves the inductive invariant.
LEMMA FnEndInv ==
  ASSUME IInv, NEW p \in Procs, NEW r \in Outcomes, FnEnd(p, r)
  PROVE  IInv'
<1> USE SFAssumption DEF Goto, Locations, Leading, Outcomes, TypeOK, LocalsOK
<1>1. TypeOK'
  BY DEF IInv, FnEnd
<1>2. LocalsOK'
  BY DEF IInv, FnEnd
<1>3. LeadersDistinct'
  BY DEF IInv, FnEnd, LeadersDistinct
<1>4. PublishedCallsAreLed'
  BY DEF IInv, FnEnd, PublishedCallsAreLed
<1>5. LeaderCall'
  BY DEF IInv, FnEnd, LeaderCall, LeadersDistinct
<1>6. ClosedCall'
  BY DEF IInv, FnEnd, ClosedCall, LeaderCall
<1>7. ReturnReady'
  BY DEF IInv, FnEnd, ReturnReady
<1>8. WaitersLed'
  BY DEF IInv, FnEnd, WaitersLed
<1>9. ReturnsProduced'
  BY DEF IInv, FnEnd, ReturnsProduced
<1>10. QED
  BY <1>1, <1>2, <1>3, <1>4, <1>5, <1>6, <1>7, <1>8, <1>9 DEF IInv

\* Done preserves the inductive invariant.
LEMMA DoneInv ==
  ASSUME IInv, NEW p \in Procs, Done(p)
  PROVE  IInv'
<1> USE SFAssumption DEF Goto, Locations, Leading, Outcomes, TypeOK, LocalsOK
<1>a. pc[p] = "done" /\ cur[p] \in Calls /\ call[cur[p]].wg = 1
  BY DEF IInv, Done, LeaderCall
<1>b. call' = [call EXCEPT ![cur[p]] = [wg |-> 0, res |-> call[cur[p]].res]]
  <2>1. call[cur[p]] = [wg |-> 1, res |-> call[cur[p]].res]
    BY <1>a DEF IInv
  <2>2. call' = [call EXCEPT ![cur[p]] = [call[cur[p]] EXCEPT !.wg = 1 - 1]]
    BY <1>a DEF IInv, Done
  <2>3. [call[cur[p]] EXCEPT !.wg = 1 - 1] = [wg |-> 0, res |-> call[cur[p]].res]
    BY <2>1
  <2>4. QED
    BY ONLY <2>2, <2>3
<1>1. TypeOK'
  BY <1>a, <1>b DEF IInv, Done
<1>2. LocalsOK'
  BY DEF IInv, Done
<1>3. LeadersDistinct'
  BY DEF IInv, Done, LeadersDistinct
<1>4. PublishedCallsAreLed'
  BY DEF IInv, Done, PublishedCallsAreLed
<1>5. LeaderCall'
  BY <1>a, <1>b DEF IInv, Done, LeaderCall, LeadersDistinct
<1>6. ClosedCall'
  <2> SUFFICES ASSUME NEW q \in Procs, pc'[q] \in {"delete", "wait", "return"},
                      call'[cur'[q]].wg = 0
               PROVE  call'[cur'[q]].res \in produced'[arg'[q]]
    BY DEF ClosedCall
  <2>1. CASE cur[q] # cur[p]
    BY <2>1 DEF IInv, Done, ClosedCall
  <2>2. CASE cur[q] = cur[p]
    <3>1. pc[p] = "done" /\ call[cur[p]].wg = 1 /\ call[cur[p]].res \in produced[arg[p]]
      BY DEF IInv, Done, LeaderCall
    <3>2. arg[q] = arg[p]
      BY <2>2, <3>1 DEF IInv, Done, WaitersLed, LeadersDistinct, ReturnReady, LeaderCall
    <3>3. QED
      BY <2>2, <3>1, <3>2 DEF IInv, Done
  <2>3. QED
    BY <2>1, <2>2
<1>7. ReturnReady'
  BY <1>a, <1>b DEF IInv, Done, ReturnReady
<1>8. WaitersLed'
  BY DEF IInv, Done, WaitersLed
<1>9. ReturnsProduced'
  BY DEF IInv, Done, ReturnsProduced
<1>10. QED
  BY <1>1, <1>2, <1>3, <1>4, <1>5, <1>6, <1>7, <1>8, <1>9 DEF IInv

\* Delete preserves the inductive invariant.
LEMMA DeleteInv ==
  ASSUME IInv, NEW p \in Procs, Delete(p)
  PROVE  IInv'
<1> USE SFAssumption DEF Goto, Locations, Leading, Outcomes, TypeOK, LocalsOK
<1>1. TypeOK'
  BY DEF IInv, Delete
<1>2. LocalsOK'
  BY DEF IInv, Delete
<1>3. LeadersDistinct'
  BY DEF IInv, Delete, LeadersDistinct
<1>4. PublishedCallsAreLed'
  BY DEF IInv, Delete, PublishedCallsAreLed
<1>5. LeaderCall'
  BY DEF IInv, Delete, LeaderCall
<1>6. ClosedCall'
  BY DEF IInv, Delete, ClosedCall
<1>7. ReturnReady'
  BY DEF IInv, Delete, ReturnReady, LeaderCall
<1>8. WaitersLed'
  BY DEF IInv, Delete, WaitersLed
<1>9. ReturnsProduced'
  BY DEF IInv, Delete, ReturnsProduced
<1>10. QED
  BY <1>1, <1>2, <1>3, <1>4, <1>5, <1>6, <1>7, <1>8, <1>9 DEF IInv

\* Wait preserves the inductive invariant.
LEMMA WaitInv ==
  ASSUME IInv, NEW p \in Procs, Wait(p)
  PROVE  IInv'
<1> USE SFAssumption DEF Goto, Locations, Leading, Outcomes, TypeOK, LocalsOK
<1>1. TypeOK'
  BY DEF IInv, Wait
<1>2. LocalsOK'
  BY DEF IInv, Wait
<1>3. LeadersDistinct'
  BY DEF IInv, Wait, LeadersDistinct
<1>4. PublishedCallsAreLed'
  BY DEF IInv, Wait, PublishedCallsAreLed
<1>5. LeaderCall'
  BY DEF IInv, Wait, LeaderCall
<1>6. ClosedCall'
  BY DEF IInv, Wait, ClosedCall
<1>7. ReturnReady'
  BY DEF IInv, Wait, ReturnReady
<1>8. WaitersLed'
  BY DEF IInv, Wait, WaitersLed
<1>9. ReturnsProduced'
  BY DEF IInv, Wait, ReturnsProduced
<1>10. QED
  BY <1>1, <1>2, <1>3, <1>4, <1>5, <1>6, <1>7, <1>8, <1>9 DEF IInv

\* Return preserves the inductive invariant.
LEMMA ReturnInv ==
  ASSUME IInv, NEW p \in Procs, Return(p)
  PROVE  IInv'
<1> USE SFAssumption DEF Goto, Locations, Leading, Outcomes, TypeOK, LocalsOK, Blank
<1>1. TypeOK'
  BY DEF IInv, Return
<1>2. LocalsOK'
  BY DEF IInv, Return
<1>3. LeadersDistinct'
  BY DEF IInv, Return, LeadersDistinct
<1>4. PublishedCallsAreLed'
  BY DEF IInv, Return, PublishedCallsAreLed
<1>5. LeaderCall'
  BY DEF IInv, Return, LeaderCall
<1>6. ClosedCall'
  BY DEF IInv, Return, ClosedCall
<1>7. ReturnReady'
  BY DEF IInv, Return, ReturnReady
<1>8. WaitersLed'
  BY DEF IInv, Return, WaitersLed
<1>9. ReturnsProduced'
  BY DEF IInv, Return, ReturnsProduced, ReturnReady, ClosedCall
<1>10. QED
  BY <1>1, <1>2, <1>3, <1>4, <1>5, <1>6, <1>7, <1>8, <1>9 DEF IInv

\* Leave preserves the inductive invariant.
LEMMA LeaveInv ==
  ASSUME IInv, NEW p \in Procs, Leave(p)
  PROVE  IInv'
<1> USE SFAssumption DEF Goto, Locations, Leading, Outcomes, TypeOK, LocalsOK
<1>1. TypeOK'
  BY DEF IInv, Leave
<1>2. LocalsOK'
  BY DEF IInv, Leave
<1>3. LeadersDistinct'
  BY DEF IInv, Leave, LeadersDistinct
<1>4. PublishedCallsAreLed'
  BY DEF IInv, Leave, PublishedCallsAreLed
<1>5. LeaderCall'
  BY DEF IInv, Leave, LeaderCall
<1>6. ClosedCall'
  BY DEF IInv, Leave, ClosedCall
<1>7. ReturnReady'
  BY DEF IInv, Leave, ReturnReady
<1>8. WaitersLed'
  BY DEF IInv, Leave, WaitersLed
<1>9. ReturnsProduced'
  BY DEF IInv, Leave, ReturnsProduced
<1>10. QED
  BY <1>1, <1>2, <1>3, <1>4, <1>5, <1>6, <1>7, <1>8, <1>9 DEF IInv

\* The inductive step: every goroutine's step and every new call of Do.
LEMMA NextInv == IInv /\ [Next]_sfvars => IInv'
<1> SUFFICES ASSUME IInv, [Next]_sfvars PROVE IInv'
  OBVIOUS
<1>1. CASE UNCHANGED sfvars
  BY <1>1 DEF IInv, sfvars, TypeOK, LocalsOK, LeadersDistinct, LeaderCall,
     ClosedCall, ReturnReady, WaitersLed, PublishedCallsAreLed, ReturnsProduced
<1>2. CASE Next
  <2>1. PICK p \in Procs : Step(p) \/ \E k \in Keys : Do(p, k)
    BY <1>2 DEF Next
  <2>2. CASE \E k \in Keys : Do(p, k)
    BY <2>2, DoInv
  <2>3. CASE Step(p)
    BY <2>3, LoadHitInv, LoadMissInv, StoreInv, FnEndInv, DoneInv, DeleteInv,
       WaitInv, ReturnInv, LeaveInv DEF Step
  <2>4. QED
    BY <2>1, <2>2, <2>3
<1>3. QED
  BY <1>1, <1>2

\* The invariant holds in every reachable state, for every set of goroutines,
\* keys and results.
THEOREM Invariance == Spec => []IInv
<1>1. Init => IInv
  BY SFAssumption DEF Init, IInv, TypeOK, LocalsOK, LeadersDistinct, LeaderCall,
     ClosedCall, ReturnReady, WaitersLed, PublishedCallsAreLed, ReturnsProduced,
     Locations, Leading, Outcomes, Blank
<1>2. QED
  BY <1>1, NextInv, PTL DEF Spec

\* Every variable of the singleflight group stays in its type.
THEOREM TypeCorrect == Spec => []TypeOK
<1>1. IInv => TypeOK
  BY DEF IInv
<1>2. QED
  BY <1>1, Invariance, PTL

\* Do never returns anything but an outcome of fn for the same key
\* (singleflight.go lines 23-26 and 50).
THEOREM DoReturnsProduced == Spec => []ReturnsProduced
<1>1. IInv => ReturnsProduced
  BY DEF IInv
<1>2. QED
  BY <1>1, Invariance, PTL

\* No published call is left without the goroutine that will delete its entry,
\* although Delete removes by key and may remove another leader's entry
\* (singleflight.go lines 32-48).
THEOREM NoOrphanedCall == Spec => []PublishedCallsAreLed
<1>1. IInv => PublishedCallsAreLed
  BY DEF IInv
<1>2. QED
  BY <1>1, Invariance, PTL

\* No follower is left waiting on a call that nobody executes any more
\* (singleflight.go lines 24-25 and 37-46).
THEOREM NoAbandonedWaiter == Spec => []WaitersHaveLeader
<1>1. IInv => WaitersHaveLeader
  BY DEF IInv, WaitersLed, WaitersHaveLeader
<1>2. QED
  BY <1>1, Invariance, PTL
=============================================================================
