------------------------- MODULE CachePolicyProofs --------------------------
(***************************************************************************)
(* Proofs about CachePolicy for any number of goroutines, keys and values, *)
(* any hash functions of the filter and any mix of operations.             *)
(***************************************************************************)
EXTENDS CachePolicy, TLAPS

\* The part of TypeOK that the proofs need.
LocalTypes ==
  /\ loc \in [Procs -> Locations]
  /\ val \in [Procs -> Values \cup {Null, None}]
  /\ store = Nil \/ store \in [Keys -> Values \cup {Null, None}]
  /\ initialized \in BOOLEAN /\ closed \in BOOLEAN

\* While the cache is open the flag and the field agree, and whoever is about
\* to dereference the store has seen it initialised; Close clears the store
\* only after it has set closed.
StoreReady ==
  ~closed =>
    /\ initialized => store # Nil
    /\ \A p \in Procs :
         /\ loc[p] \in {"storeGet", "setStore", "delStore", "clearStore"} => initialized
         /\ loc[p] # "close"

CrashInv == LocalTypes /\ StoreReady /\ CrashOnlyAfterClose

\* A step of a call preserves CrashInv.
LEMMA StepCrashInv ==
  ASSUME CrashInv, NEW p \in Procs, Step(p)
  PROVE  CrashInv'
<1> USE PolicyAssumption DEF CrashInv, LocalTypes, StoreReady, CrashOnlyAfterClose,
        Locations, Goto, cachevars, locals
<1>1. CASE \/ GetRejected(p) \/ GetAdmitted(p) \/ GetClosed(p) \/ GetOpen(p)
           \/ GetNotReady(p) \/ GetReady(p)
  BY <1>1 DEF GetRejected, GetAdmitted, GetClosed, GetOpen, GetNotReady, GetReady
<1>2. CASE GetHit(p) \/ GetMiss(p) \/ GetCrash(p)
  BY <1>2 DEF GetHit, GetMiss, GetCrash
<1>3. CASE Coalesce(p)
  BY <1>3 DEF Coalesce
<1>4. CASE FnDoubleHit(p) \/ FnDoubleMiss(p) \/ FnDoublePanic(p)
  BY <1>4 DEF FnDoubleHit, FnDoubleMiss, FnDoublePanic, FnEnd
<1>5. CASE \E v \in Values \cup {Null} : FnLoad(p, v)
  BY <1>5 DEF FnLoad
<1>6. CASE FnLoadPanic(p) \/ FnLoaded(p) \/ FnEmpty(p) \/ FnFailed(p) \/ GetLoaded(p)
  BY <1>6 DEF FnLoadPanic, FnLoaded, FnEmpty, FnFailed, GetLoaded, FnEnd
<1>7. CASE SetRefused(p) \/ SetOpen(p) \/ SetSkipped(p) \/ SetReturn(p)
  BY <1>7 DEF SetRefused, SetOpen, SetSkipped, SetReturn
<1>8. CASE SetInit(p)
  BY <1>8 DEF SetInit
<1>9. CASE SetStore(p)
  BY <1>9 DEF SetStore
<1>10. CASE SetCrash(p) \/ FnSetPanic(p)
  BY <1>10 DEF SetCrash, FnSetPanic, FnEnd
<1>11. CASE DeleteInit(p) \/ DeleteStore(p)
  BY <1>11 DEF DeleteInit, DeleteStore
<1>12. CASE ClearInit(p) \/ ClearStore(p)
  BY <1>12 DEF ClearInit, ClearStore
<1>13. CASE CloseStore(p)
  BY <1>13 DEF CloseStore
<1>14. QED
  BY <1>1, <1>2, <1>3, <1>4, <1>5, <1>6, <1>7, <1>8, <1>9, <1>10, <1>11, <1>12,
     <1>13 DEF Step

\* So does the start of a call.
LEMMA BeginCrashInv ==
  ASSUME CrashInv, NEW p \in Procs, Begin(p)
  PROVE  CrashInv'
<1> USE PolicyAssumption DEF CrashInv, LocalTypes, StoreReady, CrashOnlyAfterClose,
        Locations, Goto, cachevars, locals
<1>1. CASE \E k \in Keys : Get(p, k)
  BY <1>1 DEF Get
<1>2. CASE \E k \in Keys, v \in Values : Set(p, k, v)
  BY <1>2 DEF Set
<1>3. CASE \E k \in Keys : Delete(p, k)
  BY <1>3 DEF Delete
<1>4. CASE Clear(p)
  BY <1>4 DEF Clear
<1>5. CASE Close(p)
  BY <1>5 DEF Close
<1>6. QED
  BY <1>1, <1>2, <1>3, <1>4, <1>5 DEF Begin

\* And so does the loss of an entry.
LEMMA ForgetCrashInv ==
  ASSUME CrashInv, NEW k \in Keys, Forget(k)
  PROVE  CrashInv'
BY PolicyAssumption DEF CrashInv, LocalTypes, StoreReady, CrashOnlyAfterClose,
   Forget, locals

\* As long as the cache is open no goroutine dereferences a nil store outside
\* the function given to singleflight, however many of them call whatever they
\* like (cache.go lines 99-107, 130-136 and 162-175).
THEOREM OpenCacheNeverCrashes == Spec => []CrashOnlyAfterClose
<1>1. Init => CrashInv
  BY PolicyAssumption DEF Init, CrashInv, LocalTypes, StoreReady, CrashOnlyAfterClose,
     Locations
<1>2. CrashInv /\ [Next]_vars => CrashInv'
  <2> SUFFICES ASSUME CrashInv, [Next]_vars PROVE CrashInv'
    OBVIOUS
  <2>1. CASE UNCHANGED vars
    BY <2>1 DEF CrashInv, LocalTypes, StoreReady, CrashOnlyAfterClose, vars, cachevars,
       locals
  <2>2. CASE Next
    BY <2>2, StepCrashInv, BeginCrashInv, ForgetCrashInv DEF Next
  <2>3. QED
    BY <2>1, <2>2
<1>3. CrashInv => CrashOnlyAfterClose
  BY DEF CrashInv
<1>4. QED
  BY <1>1, <1>2, <1>3, PTL DEF Spec

-----------------------------------------------------------------------------
\* A filter that hashes every key to at least one bit stays empty and lets no Get
\* pass, whatever is set, since bf.Add is only reached by a Get that bf.Contains has
\* let through.  That is not what the filter is for (README line 54: it stops
\* requests of keys that do not exist), and no run checks it as a property.
FilterShutsOut ==
  (\A k \in Keys : hash[k] # {}) =>
    /\ bits = {}
    /\ \A p \in Procs : res[p] \in {None, Rejected} /\ pc[p] = "idle"

\* Where goroutines can be when the filter lets nobody pass: no Get gets any
\* further than bf.Contains, so nobody is inside singleflight.
ShutOut ==
  /\ bits = {}
  /\ \A p \in Procs :
       /\ loc[p] \notin {"check", "checkInit", "storeGet", "double", "loader", "left"}
       /\ pc[p] = "idle"
       /\ res[p] \in {None, Rejected}

FilterInv ==
  /\ loc \in [Procs -> Locations]
  /\ key \in [Procs -> Keys \cup {None}]
  /\ res \in [Procs -> Values \cup {Null, LoaderFailed, Rejected, Panic, None}]
  /\ \A p \in Procs : loc[p] = "contains" => key[p] \in Keys
  /\ ShutOut

\* With at least one hash function no step lets a Get pass.
LEMMA NextFilterInv ==
  ASSUME \A k \in Keys : hash[k] # {}, FilterInv, [Next]_vars
  PROVE  FilterInv'
<1> USE DEF FilterInv, ShutOut, Locations, Goto, cachevars, locals, sfvars, InFn
<1>1. CASE UNCHANGED vars
  BY <1>1 DEF vars
<1>2. ASSUME NEW p \in Procs, Begin(p) PROVE FilterInv'
  BY <1>2 DEF Begin, Get, Set, Delete, Clear, Close
<1>3. ASSUME NEW p \in Procs, Step(p) PROVE FilterInv'
  <2>1. CASE GetRejected(p)
    BY <2>1 DEF GetRejected
  <2>2. CASE GetAdmitted(p)
    BY <2>2 DEF GetAdmitted, Contains
  <2>3. CASE \/ GetClosed(p) \/ GetOpen(p) \/ GetNotReady(p) \/ GetReady(p)
             \/ GetHit(p) \/ GetMiss(p) \/ GetCrash(p)
    BY <2>3 DEF GetClosed, GetOpen, GetNotReady, GetReady, GetHit, GetMiss, GetCrash
  <2>4. CASE Coalesce(p)
    BY <2>4 DEF Coalesce, SF!LoadHit, SF!LoadMiss, SF!Store, SF!Done, SF!Delete, SF!Return,
       SF!Wait, SF!Goto
  <2>5. CASE FnDoubleHit(p) \/ FnDoubleMiss(p) \/ FnDoublePanic(p)
              \/ (\E v \in Values \cup {Null} : FnLoad(p, v)) \/ FnLoadPanic(p)
    BY <2>5 DEF FnDoubleHit, FnDoubleMiss, FnDoublePanic, FnLoad, FnLoadPanic, FnEnd
  <2>6. CASE FnLoaded(p) \/ FnEmpty(p) \/ FnFailed(p) \/ GetLoaded(p) \/ FnSetPanic(p)
    BY <2>6 DEF FnLoaded, FnEmpty, FnFailed, GetLoaded, FnSetPanic, FnEnd, SF!FnEnd, SF!Goto,
       SF!Leave
  <2>7. CASE SetRefused(p) \/ SetOpen(p) \/ SetInit(p) \/ SetStore(p) \/ SetSkipped(p)
    BY <2>7 DEF SetRefused, SetOpen, SetInit, SetStore, SetSkipped
  <2>8. CASE \/ SetCrash(p) \/ SetReturn(p) \/ DeleteInit(p) \/ DeleteStore(p)
             \/ ClearInit(p) \/ ClearStore(p) \/ CloseStore(p)
    BY <2>8 DEF SetCrash, SetReturn, DeleteInit, DeleteStore, ClearInit, ClearStore,
       CloseStore
  <2>9. QED
    BY <1>3, <2>1, <2>2, <2>3, <2>4, <2>5, <2>6, <2>7, <2>8 DEF Step
<1>4. ASSUME NEW k \in Keys, Forget(k) PROVE FilterInv'
  BY <1>4 DEF Forget
<1>5. QED
  BY <1>1, <1>2, <1>3, <1>4 DEF Next

\* How far a defect reaches: with any hash functions at all - that is, with any false
\* positive rate below one - every Get of every key is rejected for ever, also of a key
\* that was just Set (policy.go lines 38-40, 53-58 and 117-120).
THEOREM EveryGetIsRejected == Spec => []FilterShutsOut
<1> DEFINE Hashed == \A k \in Keys : hash[k] # {}
           HashedInv == Hashed => FilterInv
<1>1. Init => HashedInv
  BY DEF Init, SF!Init, FilterInv, ShutOut, Locations
<1>2. HashedInv /\ [Next]_vars => HashedInv'
  <2> SUFFICES ASSUME HashedInv, [Next]_vars, Hashed' PROVE FilterInv'
    OBVIOUS
  <2>1. hash' = hash
    BY DEF Next, vars
  <2>2. Hashed
    BY <2>1
  <2>3. QED
    BY <2>2, NextFilterInv
<1>3. HashedInv => FilterShutsOut
  BY DEF FilterInv, ShutOut, FilterShutsOut
<1>4. QED
  BY <1>1, <1>2, <1>3, PTL DEF Spec

-----------------------------------------------------------------------------
\* When Close has ended with nobody on the way to ensureInitialized, nobody gets
\* there any more: SetOpen tests closed.
CloseInv ==
  /\ loc \in [Procs -> Locations]
  /\ \A p \in Procs : loc[p] = "close" => closed
  /\ closing = "clean" => closed /\ store = Nil /\ \A p \in Procs : loc[p] # "setInit"

\* No step creates a store after that.
LEMMA NextCloseInv ==
  ASSUME CloseInv, [Next]_vars
  PROVE  CloseInv'
<1> USE DEF CloseInv, Locations, Goto, cachevars, locals
<1>1. CASE UNCHANGED vars
  BY <1>1 DEF vars
<1>2. ASSUME NEW p \in Procs, Begin(p) PROVE CloseInv'
  BY <1>2 DEF Begin, Get, Set, Delete, Clear, Close
<1>3. ASSUME NEW p \in Procs, Step(p) PROVE CloseInv'
  <2>1. CASE \/ GetRejected(p) \/ GetAdmitted(p) \/ GetClosed(p) \/ GetOpen(p)
             \/ GetNotReady(p) \/ GetReady(p) \/ GetHit(p) \/ GetMiss(p) \/ GetCrash(p)
    BY <2>1 DEF GetRejected, GetAdmitted, GetClosed, GetOpen, GetNotReady, GetReady,
       GetHit, GetMiss, GetCrash
  <2>2. CASE Coalesce(p)
    BY <2>2 DEF Coalesce
  <2>3. CASE FnDoubleHit(p) \/ FnDoubleMiss(p) \/ FnDoublePanic(p)
              \/ (\E v \in Values \cup {Null} : FnLoad(p, v)) \/ FnLoadPanic(p)
    BY <2>3 DEF FnDoubleHit, FnDoubleMiss, FnDoublePanic, FnLoad, FnLoadPanic, FnEnd
  <2>4. CASE FnLoaded(p) \/ FnEmpty(p) \/ FnFailed(p) \/ GetLoaded(p) \/ FnSetPanic(p)
    BY <2>4 DEF FnLoaded, FnEmpty, FnFailed, GetLoaded, FnSetPanic, FnEnd
  <2>5. CASE SetRefused(p) \/ SetOpen(p) \/ SetSkipped(p) \/ SetCrash(p) \/ SetReturn(p)
    BY <2>5 DEF SetRefused, SetOpen, SetSkipped, SetCrash, SetReturn
  <2>6. CASE SetInit(p) \/ SetStore(p)
    BY <2>6 DEF SetInit, SetStore
  <2>7. CASE DeleteInit(p) \/ DeleteStore(p) \/ ClearInit(p) \/ ClearStore(p)
    BY <2>7 DEF DeleteInit, DeleteStore, ClearInit, ClearStore
  <2>8. CASE CloseStore(p)
    BY <2>8 DEF CloseStore
  <2>9. QED
    BY <1>3, <2>1, <2>2, <2>3, <2>4, <2>5, <2>6, <2>7, <2>8 DEF Step
<1>4. ASSUME NEW k \in Keys, Forget(k) PROVE CloseInv'
  BY <1>4 DEF Forget
<1>5. QED
  BY <1>1, <1>2, <1>3, <1>4 DEF Next

\* After Close has ended no store is left and none is created, unless a Set was
\* between its test of closed and ensureInitialized (cache.go lines 188-204).
THEOREM CloseReleasesStore == Spec => []CloseReleases
<1>1. Init => CloseInv
  BY DEF Init, CloseInv, Locations
<1>2. CloseInv => CloseReleases
  BY DEF CloseInv, CloseReleases
<1>3. QED
  BY <1>1, <1>2, NextCloseInv, PTL DEF Spec

-----------------------------------------------------------------------------
\* The locations of calls that have a key.
Keyed ==
  {"contains", "check", "checkInit", "storeGet", "double", "loader", "left",
   "setClosed", "setInit", "setStore", "setDone", "delInit", "delStore"}

\* A call of Do gets a key.
KeyInv ==
  /\ loc \in [Procs -> Locations]
  /\ key \in [Procs -> Keys \cup {None}]
  /\ \A p \in Procs : loc[p] \in Keyed => key[p] \in Keys

\* Every step of the policy is a step of singleflight or leaves it alone, and
\* keeps the keys.
LEMMA NextKeyInv ==
  ASSUME KeyInv, [Next]_vars
  PROVE  KeyInv' /\ [SF!Next]_SF!sfvars
<1> USE DEF KeyInv, Keyed, Locations, Goto, cachevars, locals
<1>1. CASE UNCHANGED vars
  BY <1>1 DEF vars, sfvars, SF!sfvars
<1>2. ASSUME NEW p \in Procs, Begin(p) PROVE KeyInv' /\ UNCHANGED sfvars
  BY <1>2 DEF Begin, Get, Set, Delete, Clear, Close
<1>3. ASSUME NEW p \in Procs, Step(p) PROVE KeyInv' /\ [SF!Next]_SF!sfvars
  <2>1. CASE \/ GetRejected(p) \/ GetAdmitted(p) \/ GetOpen(p) \/ GetReady(p)
             \/ GetHit(p) \/ GetCrash(p)
    BY <2>1 DEF GetRejected, GetAdmitted, GetOpen, GetReady, GetHit, GetCrash, sfvars,
       SF!sfvars
  <2>2. CASE GetClosed(p) \/ GetNotReady(p) \/ GetMiss(p)
    BY <2>2 DEF GetClosed, GetNotReady, GetMiss, SF!Next
  <2>3. CASE Coalesce(p)
    BY <2>3 DEF Coalesce, SF!Next, SF!Step
  <2>4. ASSUME NEW from \in Keyed, NEW r \in SF!Outcomes, FnEnd(p, from, r)
        PROVE  KeyInv' /\ SF!Next
    <3>1. SF!Step(p)
      BY <2>4 DEF FnEnd, SF!Step
    <3>2. KeyInv'
      BY <2>4 DEF FnEnd
    <3>3. QED
      BY <3>1, <3>2 DEF SF!Next
  <2>5. CASE FnDoubleHit(p) \/ FnDoublePanic(p) \/ FnLoadPanic(p)
    BY <2>4, <2>5 DEF FnDoubleHit, FnDoublePanic, FnLoadPanic, SF!Outcomes
  <2>6. CASE FnLoaded(p) \/ FnEmpty(p) \/ FnFailed(p) \/ FnSetPanic(p)
    BY <2>4, <2>6 DEF FnLoaded, FnEmpty, FnFailed, FnSetPanic, SF!Outcomes
  <2>7. CASE FnDoubleMiss(p) \/ \E v \in Values \cup {Null} : FnLoad(p, v)
    BY <2>7 DEF FnDoubleMiss, FnLoad, sfvars, SF!sfvars
  <2>8. CASE GetLoaded(p)
    BY <2>8 DEF GetLoaded, SF!Next, SF!Step
  <2>9. CASE \/ SetRefused(p) \/ SetOpen(p) \/ SetInit(p) \/ SetStore(p) \/ SetSkipped(p)
             \/ SetCrash(p) \/ SetReturn(p)
    BY <2>9 DEF SetRefused, SetOpen, SetInit, SetStore, SetSkipped, SetCrash, SetReturn,
       sfvars, SF!sfvars
  <2>10. CASE \/ DeleteInit(p) \/ DeleteStore(p) \/ ClearInit(p) \/ ClearStore(p)
              \/ CloseStore(p)
    BY <2>10 DEF DeleteInit, DeleteStore, ClearInit, ClearStore, CloseStore, sfvars,
       SF!sfvars
  <2>11. QED
    BY <1>3, <2>1, <2>2, <2>3, <2>5, <2>6, <2>7, <2>8, <2>9, <2>10 DEF Step
<1>4. ASSUME NEW k \in Keys, Forget(k) PROVE KeyInv' /\ UNCHANGED sfvars
  BY <1>4 DEF Forget
<1>5. QED
  BY <1>1, <1>2, <1>3, <1>4 DEF Next, sfvars, SF!sfvars

-----------------------------------------------------------------------------
(* What singleflight gives back to Get, and the types of both. *)

\* The local variables of Do.
DoLocals ==
  \A p \in Procs :
    /\ pc[p] \in {"idle", "load", "returned"} => cur[p] = None
    /\ pc[p] \notin {"idle", "load", "returned"} => cur[p] \in Calls
    /\ pc[p] # "idle" => arg[p] \in Keys

\* A leader has its call to itself, with the counter at one until Done.
DoLeads ==
  \A p \in Procs :
    /\ pc[p] \in {"store", "fn", "done"} => call[cur[p]].wg = 1
    /\ \A q \in Procs \ {p} :
         pc[p] \in SF!Leading /\ pc[q] \in SF!Leading => cur[p] # cur[q]

\* A call is used for one key only, by the goroutines and in the map, as long as
\* someone refers to it.
OneKey ==
  /\ \A p, q \in Procs : cur[p] # None /\ cur[p] = cur[q] => arg[p] = arg[q]
  /\ \A p \in Procs, k \in Keys : m[k] # None /\ cur[p] = m[k] => arg[p] = k
  /\ \A j, k \in Keys : m[k] # None /\ m[j] = m[k] => j = k

DoInv == SF!TypeOK /\ DoLocals /\ DoLeads /\ OneKey

\* Every step of singleflight preserves DoInv.
LEMMA NextDoInv ==
  ASSUME DoInv, [SF!Next]_SF!sfvars
  PROVE  DoInv'
<1> USE PolicyAssumption DEF DoInv, SF!TypeOK, DoLocals, DoLeads, OneKey, SF!Leading,
        SF!Locations, SF!Outcomes, SF!Goto
<1>1. CASE UNCHANGED SF!sfvars
  BY <1>1 DEF SF!sfvars
<1>2. ASSUME NEW p \in Procs, NEW k \in Keys, SF!Do(p, k) PROVE DoInv'
  BY <1>2 DEF SF!Do
<1>3. ASSUME NEW p \in Procs, SF!LoadHit(p) PROVE DoInv'
  BY <1>3 DEF SF!LoadHit
<1>4. ASSUME NEW p \in Procs, SF!LoadMiss(p) PROVE DoInv'
  BY <1>4 DEF SF!LoadMiss, SF!Fresh
<1>5. ASSUME NEW p \in Procs, SF!Store(p) PROVE DoInv'
  BY <1>5 DEF SF!Store
<1>6. ASSUME NEW p \in Procs, NEW r \in SF!Outcomes, SF!FnEnd(p, r) PROVE DoInv'
  BY <1>6 DEF SF!FnEnd
<1>7. ASSUME NEW p \in Procs, SF!Done(p) PROVE DoInv'
  <2>1. /\ pc[p] = "done" /\ cur[p] \in Calls /\ call[cur[p]].wg = 1
        /\ call[cur[p]] \in [wg : {0, 1}, res : SF!Outcomes \cup {None}]
        /\ UNCHANGED <<m, arg, cur, ret, produced>>
    BY <1>7 DEF SF!Done
  <2>2. call' = [call EXCEPT ![cur[p]] = [call[cur[p]] EXCEPT !.wg = 0]]
    BY <1>7, <2>1 DEF SF!Done
  <2>3. /\ call' \in [Calls -> [wg : {0, 1}, res : SF!Outcomes \cup {None}]]
        /\ \A c \in Calls \ {cur[p]} : call'[c] = call[c]
    BY <2>1, <2>2
  <2>4. /\ pc' \in [Procs -> SF!Locations] /\ pc'[p] = "delete"
        /\ \A q \in Procs \ {p} : pc'[q] = pc[q]
    BY <1>7 DEF SF!Done
  <2>5. SF!TypeOK' /\ DoLocals' /\ OneKey'
    BY <2>1, <2>3, <2>4
  <2>6. DoLeads'
    BY <2>1, <2>3, <2>4
  <2>7. QED
    BY <2>5, <2>6
<1>8. ASSUME NEW p \in Procs, SF!Delete(p) PROVE DoInv'
  <2>1. /\ pc[p] = "delete" /\ arg[p] \in Keys
        /\ UNCHANGED <<call, arg, cur, ret, produced>>
    BY <1>8 DEF SF!Delete
  <2>2. /\ pc' \in [Procs -> SF!Locations] /\ pc'[p] = "return"
        /\ \A q \in Procs \ {p} : pc'[q] = pc[q]
    BY <1>8 DEF SF!Delete
  <2>3. /\ m' \in [Keys -> Calls \cup {None}]
        /\ \A k \in Keys : m'[k] = m[k] \/ m'[k] = None
    BY <1>8 DEF SF!Delete
  <2>4. SF!TypeOK' /\ DoLocals' /\ DoLeads'
    BY <2>1, <2>2, <2>3
  <2>5. OneKey'
    BY <2>1, <2>3
  <2>6. QED
    BY <2>4, <2>5
<1>9. ASSUME NEW p \in Procs, SF!Wait(p) PROVE DoInv'
  BY <1>9 DEF SF!Wait
<1>10. ASSUME NEW p \in Procs, SF!Return(p) PROVE DoInv'
  BY <1>10 DEF SF!Return, SF!Blank
<1>11. ASSUME NEW p \in Procs, SF!Leave(p) PROVE DoInv'
  BY <1>11 DEF SF!Leave
<1>12. QED
  BY <1>1, <1>2, <1>3, <1>4, <1>5, <1>6, <1>7, <1>8, <1>9, <1>10, <1>11
     DEF SF!Next, SF!Step

\* What Get may return for key k: a value that was set or loaded for it, or nil if
\* a load has had nil for an answer.
Good(k, r) ==
  /\ r \in Values => r \in written[k]
  /\ r = Null => Null \in produced[k]

\* Every call that someone can still read, and every result, is good for its key.
\* A call without a result yet has None, which is good for every key.
GoodCalls ==
  /\ \A p \in Procs : cur[p] # None => Good(arg[p], call[cur[p]].res)
  /\ \A k \in Keys : m[k] # None => Good(k, call[m[k]].res)
  /\ \A p \in Procs : pc[p] = "returned" => Good(arg[p], ret[p])

\* What is written stays written.
Keeps == \A k \in Keys : written[k] \subseteq written'[k] /\ produced[k] \subseteq produced'[k]

\* Steps that do not end an execution of fn keep GoodCalls.
LEMMA QuietGoodCalls ==
  ASSUME DoInv, GoodCalls, NEW p \in Procs, Keeps,
         \/ UNCHANGED sfvars
         \/ \E k \in Keys : SF!Do(p, k)
         \/ SF!LoadHit(p) \/ SF!LoadMiss(p) \/ SF!Store(p) \/ SF!Done(p) \/ SF!Delete(p)
         \/ SF!Wait(p) \/ SF!Return(p) \/ SF!Leave(p)
  PROVE  GoodCalls'
<1> USE PolicyAssumption DEF DoInv, SF!TypeOK, DoLocals, OneKey, GoodCalls, SF!Locations,
        SF!Goto
<1>1. \A k \in Keys : \A x : Good(k, x) => Good(k, x)'
  BY DEF Good, Keeps
<1>2. \A k \in Keys : Good(k, None)'
  BY DEF Good
<1>3. CASE UNCHANGED sfvars
  BY <1>1, <1>3 DEF sfvars
<1>4. ASSUME NEW k \in Keys, SF!Do(p, k) PROVE GoodCalls'
  <2>1. /\ UNCHANGED <<m, call, cur, ret, produced>> /\ cur[p] = None /\ pc'[p] # "returned"
        /\ \A q \in Procs \ {p} : pc'[q] = pc[q] /\ arg'[q] = arg[q]
    BY <1>4 DEF SF!Do
  <2>2. \A q \in Procs : cur[q] # None => arg[q] \in Keys /\ arg'[q] = arg[q]
    BY <2>1
  <2>3. QED
    BY <1>1, <2>1, <2>2
<1>5. CASE SF!LoadHit(p)
  <2>1. /\ UNCHANGED <<m, call, arg, ret, produced>> /\ pc'[p] # "returned"
        /\ arg[p] \in Keys /\ m[arg[p]] # None /\ cur'[p] = m[arg[p]]
        /\ \A q \in Procs \ {p} : pc'[q] = pc[q] /\ cur'[q] = cur[q]
    BY <1>5 DEF SF!LoadHit
  <2>2. \A q \in Procs \ {p} : cur[q] # None => arg[q] \in Keys
    OBVIOUS
  <2>3. QED
    BY <1>1, <2>1, <2>2
<1>6. CASE SF!LoadMiss(p)
  <2>1. PICK c \in Calls : /\ SF!Fresh(c)
                           /\ cur' = [cur EXCEPT ![p] = c]
                           /\ call' = [call EXCEPT ![c] = [wg |-> 1, res |-> None]]
    BY <1>6 DEF SF!LoadMiss
  <2>2. /\ UNCHANGED <<m, arg, ret, produced>> /\ pc'[p] # "returned" /\ arg[p] \in Keys
        /\ \A q \in Procs \ {p} : pc'[q] = pc[q]
    BY <1>6 DEF SF!LoadMiss
  <2>3. /\ call'[c].res = None /\ cur'[p] = c
        /\ \A d \in Calls \ {c} : call'[d] = call[d]
        /\ \A q \in Procs \ {p} : cur'[q] = cur[q]
    BY <2>1
  <2>4. /\ \A q \in Procs \ {p} : cur[q] # None => cur[q] \in Calls \ {c} /\ arg[q] \in Keys
        /\ \A k \in Keys : m[k] # None => m[k] \in Calls \ {c}
    BY <2>1 DEF SF!Fresh
  <2>5. QED
    BY <1>1, <1>2, <2>2, <2>3, <2>4
<1>7. CASE SF!Store(p)
  BY <1>1, <1>7 DEF SF!Store
<1>8. CASE SF!Done(p)
  <2>1. /\ UNCHANGED <<m, arg, cur, ret, produced>> /\ pc'[p] # "returned"
        /\ \A q \in Procs \ {p} : pc'[q] = pc[q]
    BY <1>8 DEF SF!Done
  <2>2. \A c \in Calls : call'[c].res = call[c].res
    BY <1>8 DEF SF!Done
  <2>3. \A q \in Procs : cur[q] # None => cur[q] \in Calls /\ arg[q] \in Keys
    OBVIOUS
  <2>4. QED
    BY <1>1, <2>1, <2>2, <2>3
<1>9. CASE SF!Delete(p) \/ SF!Wait(p)
  BY <1>1, <1>9 DEF SF!Delete, SF!Wait
<1>10. CASE SF!Return(p)
  <2>1. /\ UNCHANGED <<m, arg, produced>> /\ cur[p] \in Calls /\ arg[p] \in Keys
        /\ cur'[p] = None /\ ret'[p] = call[cur[p]].res
        /\ \A q \in Procs \ {p} : pc'[q] = pc[q] /\ cur'[q] = cur[q] /\ ret'[q] = ret[q]
    BY <1>10 DEF SF!Return
  <2>2. \A c \in Calls : call'[c] = call[c] \/ call'[c].res = None
    BY <1>10 DEF SF!Return, SF!Blank
  <2>3. \A q \in Procs : cur[q] # None => cur[q] \in Calls /\ arg[q] \in Keys
    OBVIOUS
  <2>4. \A q \in Procs : cur'[q] # None => Good(arg[q], call[cur[q]].res)'
    BY <1>1, <1>2, <2>1, <2>2, <2>3
  <2>5. \A k \in Keys : m[k] # None => Good(k, call[m[k]].res)'
    BY <1>1, <1>2, <2>1, <2>2
  <2>6. \A q \in Procs : pc'[q] = "returned" => Good(arg[q], ret[q])'
    BY <1>1, <2>1
  <2>7. QED
    BY <2>1, <2>4, <2>5, <2>6
<1>11. CASE SF!Leave(p)
  <2>1. /\ UNCHANGED <<m, call, cur, produced>> /\ cur[p] = None /\ pc'[p] # "returned"
        /\ \A q \in Procs \ {p} : pc'[q] = pc[q] /\ arg'[q] = arg[q] /\ ret'[q] = ret[q]
    BY <1>11 DEF SF!Leave
  <2>2. \A q \in Procs : cur[q] # None => arg[q] \in Keys /\ arg'[q] = arg[q]
    BY <2>1
  <2>3. QED
    BY <1>1, <2>1, <2>2
<1>12. QED
  BY <1>3, <1>4, <1>5, <1>6, <1>7, <1>8, <1>9, <1>10, <1>11

\* The end of fn does, if its result is a written value or no value: whoever refers
\* to the call asked for the same key.
LEMMA FnEndGoodCalls ==
  ASSUME DoInv, GoodCalls, NEW p \in Procs, NEW r \in SF!Outcomes, SF!FnEnd(p, r),
         r \in Values => r \in written[arg[p]],
         UNCHANGED written
  PROVE  GoodCalls' /\ Keeps
<1> USE PolicyAssumption DEF DoInv, SF!TypeOK, DoLocals, OneKey, SF!Locations, SF!Goto
<1>1. /\ pc[p] = "fn" /\ cur[p] \in Calls /\ arg[p] \in Keys
      /\ UNCHANGED <<m, arg, cur, ret>>
      /\ pc'[p] = "done" /\ \A q \in Procs \ {p} : pc'[q] = pc[q]
  BY DEF SF!FnEnd
<1>2. call'[cur[p]].res = r /\ \A c \in Calls \ {cur[p]} : call'[c] = call[c]
  BY <1>1 DEF SF!FnEnd
<1>3. Keeps /\ r \in produced'[arg[p]]
  BY <1>1 DEF SF!FnEnd, Keeps
<1>4. \A k \in Keys : \A x : Good(k, x) => Good(k, x)'
  BY <1>3 DEF Good, Keeps
<1>5. Good(arg[p], r)'
  BY <1>1, <1>3 DEF Good
<1>6. ASSUME NEW q \in Procs, cur'[q] # None PROVE Good(arg[q], call[cur[q]].res)'
  <2>1. CASE cur[q] = cur[p]
    BY <1>1, <1>2, <1>5, <2>1
  <2>2. CASE cur[q] # cur[p]
    <3>1. cur[q] \in Calls /\ arg[q] \in Keys /\ call'[cur[q]] = call[cur[q]]
      BY <1>1, <1>2, <1>6, <2>2
    <3>2. QED
      BY <1>1, <1>4, <1>6, <3>1 DEF GoodCalls
  <2>3. QED
    BY <2>1, <2>2
<1>7. ASSUME NEW k \in Keys, m'[k] # None PROVE Good(k, call[m[k]].res)'
  <2>1. CASE m[k] = cur[p]
    BY <1>1, <1>2, <1>5, <2>1
  <2>2. CASE m[k] # cur[p]
    <3>1. call'[m[k]] = call[m[k]]
      BY <1>1, <1>2, <1>7, <2>2
    <3>2. QED
      BY <1>1, <1>4, <1>7, <3>1 DEF GoodCalls
  <2>3. QED
    BY <2>1, <2>2
<1>8. ASSUME NEW q \in Procs, pc'[q] = "returned" PROVE Good(arg[q], ret[q])'
  BY <1>1, <1>4, <1>8 DEF GoodCalls
<1>9. QED
  BY <1>3, <1>6, <1>7, <1>8 DEF GoodCalls

-----------------------------------------------------------------------------
\* Where a goroutine is in Do, by its location: inside only in loadFromSource,
\* with the key of its Get, and in a write only while the function executes it.
LoadState ==
  \A p \in Procs :
    /\ loc[p] = "double" => pc[p] \in {"load", "store", "fn", "wait", "return", "returned"}
    /\ loc[p] = "loader" => pc[p] = "fn"
    /\ loc[p] = "left" => pc[p] \in {"done", "delete", "return", "returned"}
    /\ loc[p] \in {"setClosed", "setInit", "setStore", "setDone"} => pc[p] \in {"idle", "fn"}
    /\ loc[p] \notin {"double", "loader", "left", "setClosed", "setInit", "setStore",
                      "setDone"} => pc[p] = "idle"
    /\ pc[p] # "idle" => arg[p] = key[p]

\* Every step keeps a goroutine's two locations together.
LEMMA NextLoadState ==
  ASSUME KeyInv, DoInv, LoadState, [Next]_vars
  PROVE  LoadState'
<1> USE DEF LoadState, Locations, SF!Locations, Goto, SF!Goto, cachevars, locals, sfvars, InFn
<1>1. /\ loc \in [Procs -> Locations] /\ key \in [Procs -> Keys \cup {None}]
      /\ pc \in [Procs -> SF!Locations] /\ arg \in [Procs -> Keys \cup {None}]
  BY DEF KeyInv, DoInv, SF!TypeOK
<1>2. CASE UNCHANGED vars
  BY <1>2 DEF vars
<1>3. ASSUME NEW p \in Procs, Begin(p) PROVE LoadState'
  BY <1>1, <1>3 DEF Begin, Get, Set, Delete, Clear, Close
<1>4. ASSUME NEW p \in Procs, Step(p) PROVE LoadState'
  <2>1. CASE \/ GetRejected(p) \/ GetAdmitted(p) \/ GetOpen(p) \/ GetReady(p)
             \/ GetHit(p) \/ GetCrash(p)
    BY <1>1, <2>1 DEF GetRejected, GetAdmitted, GetOpen, GetReady, GetHit, GetCrash
  <2>2. CASE GetClosed(p) \/ GetNotReady(p) \/ GetMiss(p)
    BY <1>1, <2>2 DEF GetClosed, GetNotReady, GetMiss, SF!Do
  <2>3. CASE Coalesce(p)
    BY <1>1, <2>3 DEF Coalesce, SF!LoadHit, SF!LoadMiss, SF!Store, SF!Done, SF!Delete,
       SF!Wait, SF!Return
  <2>4. ASSUME NEW from \in Keyed, NEW r, FnEnd(p, from, r) PROVE LoadState'
    BY <1>1, <2>4 DEF FnEnd, SF!FnEnd
  <2>5. CASE FnDoubleHit(p) \/ FnDoublePanic(p) \/ FnLoadPanic(p)
    BY <2>4, <2>5 DEF FnDoubleHit, FnDoublePanic, FnLoadPanic, Keyed
  <2>6. CASE FnLoaded(p) \/ FnEmpty(p) \/ FnFailed(p) \/ FnSetPanic(p)
    BY <2>4, <2>6 DEF FnLoaded, FnEmpty, FnFailed, FnSetPanic, Keyed
  <2>7. CASE FnDoubleMiss(p) \/ \E v \in Values \cup {Null} : FnLoad(p, v)
    BY <1>1, <2>7 DEF FnDoubleMiss, FnLoad
  <2>8. CASE GetLoaded(p)
    BY <1>1, <2>8 DEF GetLoaded, SF!Leave
  <2>9. CASE \/ SetRefused(p) \/ SetOpen(p) \/ SetInit(p) \/ SetStore(p) \/ SetSkipped(p)
             \/ SetCrash(p) \/ SetReturn(p)
    BY <1>1, <2>9 DEF SetRefused, SetOpen, SetInit, SetStore, SetSkipped, SetCrash, SetReturn
  <2>10. CASE \/ DeleteInit(p) \/ DeleteStore(p) \/ ClearInit(p) \/ ClearStore(p)
              \/ CloseStore(p)
    BY <1>1, <2>10 DEF DeleteInit, DeleteStore, ClearInit, ClearStore, CloseStore
  <2>11. QED
    BY <1>4, <2>1, <2>2, <2>3, <2>5, <2>6, <2>7, <2>8, <2>9, <2>10 DEF Step
<1>5. ASSUME NEW k \in Keys, Forget(k) PROVE LoadState'
  BY <1>5 DEF Forget
<1>6. QED
  BY <1>2, <1>3, <1>4, <1>5 DEF Next

-----------------------------------------------------------------------------
\* TypeOK without what KeyInv and DoInv say.
PolicyTypes ==
  /\ val \in [Procs -> Values \cup {Null, None}]
  /\ res \in [Procs -> Values \cup {Null, LoaderFailed, Rejected, Panic, None}]
  /\ bits \subseteq UNION {hash[k] : k \in Keys}
  /\ store = Nil \/ store \in [Keys -> Values \cup {Null, None}]
  /\ initialized \in BOOLEAN /\ closed \in BOOLEAN
  /\ closing \in {"open", "closing", "late", "clean"}
  /\ written \in [Keys -> SUBSET Values]

\* What GetReturnsWritten says, together with the key it is about.
GoodResults ==
  \A p \in Procs : res[p] \in Values \cup {Null} => key[p] \in Keys /\ Good(key[p], res[p])

\* What Cache.Set is going to write has been recorded, and so is what it has written.
GoodWrites ==
  /\ \A p \in Procs :
       loc[p] \in {"setClosed", "setInit", "setStore", "setDone"} =>
         val[p] \in written[key[p]] \cup {Null}
  /\ store # Nil => \A k \in Keys : store[k] \in Values => store[k] \in written[k]

PolicyInv ==
  KeyInv /\ DoInv /\ LoadState /\ GoodCalls /\ PolicyTypes /\ GoodResults /\ GoodWrites

\* Steps of the policy that leave results, pending values, the store and written alone.
LEMMA SameValues ==
  ASSUME PolicyInv, NEW p \in Procs, NEW to \in Locations,
         loc' = [loc EXCEPT ![p] = to],
         to \in {"setClosed", "setInit", "setStore", "setDone"} =>
           loc[p] \in {"setClosed", "setInit", "setStore", "setDone"},
         UNCHANGED <<key, val, res, bits, store, initialized, closed, closing, written, hash>>,
         Keeps
  PROVE  PolicyTypes' /\ GoodResults' /\ GoodWrites'
<1> USE DEF PolicyInv, KeyInv
<1>1. PolicyTypes'
  BY DEF PolicyTypes
<1>2. GoodResults'
  BY DEF GoodResults, Good, Keeps
<1>3. GoodWrites'
  BY DEF GoodWrites
<1>4. QED
  BY <1>1, <1>2, <1>3

\* A call of Do, and the steps in which the cache takes no part.
LEMMA DoValues ==
  ASSUME PolicyInv, NEW p \in Procs, UNCHANGED hash,
         GetClosed(p) \/ GetNotReady(p) \/ GetMiss(p) \/ Coalesce(p)
  PROVE  GoodCalls' /\ PolicyTypes' /\ GoodResults' /\ GoodWrites'
<1> USE DEF PolicyInv
<1>1. Keeps
  BY DEF GetClosed, GetNotReady, GetMiss, Coalesce, cachevars, Keeps, SF!Do, SF!LoadHit,
     SF!LoadMiss, SF!Store, SF!Done, SF!Delete, SF!Wait, SF!Return
<1>2. CASE GetClosed(p) \/ GetNotReady(p) \/ GetMiss(p)
  <2>1. SF!Do(p, key[p]) /\ key[p] \in Keys
    BY <1>2 DEF GetClosed, GetNotReady, GetMiss, Goto, KeyInv, Keyed
  <2>2. /\ loc' = [loc EXCEPT ![p] = "double"] /\ "double" \in Locations
        /\ UNCHANGED <<key, val, res, bits, store, initialized, closed, closing, written>>
    BY <1>2 DEF GetClosed, GetNotReady, GetMiss, Goto, cachevars, Locations
  <2>3. GoodCalls'
    BY <1>1, <2>1, QuietGoodCalls
  <2>4. QED
    BY <1>1, <2>2, <2>3, SameValues
<1>3. CASE Coalesce(p)
  <2>1. GoodCalls'
    BY <1>1, <1>3, QuietGoodCalls DEF Coalesce
  <2>2. UNCHANGED <<loc, key, val, res, bits, store, initialized, closed, closing, written>>
    BY <1>3 DEF Coalesce, locals, cachevars
  <2>3. QED
    BY <1>1, <2>1, <2>2 DEF PolicyTypes, GoodResults, GoodWrites, Good, Keeps
<1>4. QED
  BY <1>2, <1>3

\* The end of the function that singleflight executes.
LEMMA FnEndValues ==
  ASSUME PolicyInv, NEW p \in Procs, NEW from \in Keyed, NEW r \in SF!Outcomes,
         FnEnd(p, from, r), r \in Values => r \in written[key[p]],
         UNCHANGED <<store, initialized, closed, closing, written, hash>>,
         bits' = bits \/ bits' = bits \cup hash[key[p]]
  PROVE  GoodCalls' /\ PolicyTypes' /\ GoodResults' /\ GoodWrites'
<1> USE DEF PolicyInv
<1>1. /\ SF!FnEnd(p, r) /\ pc[p] = "fn" /\ arg[p] = key[p] /\ key[p] \in Keys
      /\ loc' = [loc EXCEPT ![p] = "left"] /\ val' = [val EXCEPT ![p] = None]
      /\ UNCHANGED <<key, res>>
  BY DEF FnEnd, SF!FnEnd, SF!Goto, Goto, LoadState, KeyInv, Keyed
<1>2. GoodCalls' /\ Keeps
  BY <1>1, FnEndGoodCalls
<1>3. PolicyTypes'
  BY <1>1 DEF PolicyTypes
<1>4. GoodResults'
  BY <1>1, <1>2 DEF GoodResults, Good, Keeps
<1>5. GoodWrites'
  BY <1>1 DEF GoodWrites, KeyInv
<1>6. QED
  BY <1>2, <1>3, <1>4, <1>5

\* The steps of Get, of Set and of the others that leave singleflight alone.
LEMMA OwnValues ==
  ASSUME PolicyInv, NEW p \in Procs, UNCHANGED hash, UNCHANGED sfvars,
         \/ GetRejected(p) \/ GetAdmitted(p) \/ GetOpen(p) \/ GetReady(p) \/ GetHit(p)
         \/ GetCrash(p) \/ FnDoubleMiss(p) \/ (\E v \in Values \cup {Null} : FnLoad(p, v))
         \/ SetRefused(p) \/ SetOpen(p) \/ SetInit(p) \/ SetStore(p) \/ SetSkipped(p)
         \/ SetCrash(p) \/ SetReturn(p) \/ DeleteInit(p) \/ DeleteStore(p)
         \/ ClearInit(p) \/ ClearStore(p) \/ CloseStore(p)
  PROVE  GoodCalls' /\ PolicyTypes' /\ GoodResults' /\ GoodWrites'
<1> USE DEF PolicyInv
<1>1. /\ loc \in [Procs -> Locations] /\ key \in [Procs -> Keys \cup {None}]
      /\ \A q \in Procs : loc[q] \in Keyed => key[q] \in Keys
  BY DEF KeyInv
<1>2. Keeps
  BY <1>1 DEF Keeps, sfvars, GetRejected, GetAdmitted, GetOpen, GetReady, GetHit, GetCrash,
     FnDoubleMiss, FnLoad, SetRefused, SetOpen, SetInit, SetStore, SetSkipped, SetCrash,
     SetReturn, DeleteInit, DeleteStore, ClearInit, ClearStore, CloseStore, cachevars,
     PolicyTypes
<1>3. GoodCalls'
  BY <1>2, QuietGoodCalls
<1>4. CASE GetRejected(p)
  BY <1>1, <1>3, <1>4, PolicyAssumption
     DEF GetRejected, Goto, cachevars, sfvars, PolicyTypes, GoodResults, GoodWrites, Good
<1>5. CASE GetAdmitted(p) \/ GetOpen(p) \/ GetReady(p) \/ GetCrash(p) \/ FnDoubleMiss(p)
  <2>1. PICK to \in {"check", "checkInit", "storeGet", "crashed", "loader"} :
          loc' = [loc EXCEPT ![p] = to]
    BY <1>5 DEF GetAdmitted, GetOpen, GetReady, GetCrash, FnDoubleMiss, Goto
  <2>2. UNCHANGED <<key, val, res, bits, store, initialized, closed, closing, written>>
    BY <1>5 DEF GetAdmitted, GetOpen, GetReady, GetCrash, FnDoubleMiss, cachevars
  <2>3. QED
    BY <1>2, <1>3, <2>1, <2>2, SameValues DEF Locations
<1>6. CASE GetHit(p)
  BY <1>1, <1>3, <1>6, PolicyAssumption
     DEF GetHit, Goto, cachevars, sfvars, PolicyTypes, GoodResults, GoodWrites, Good, Keyed
<1>7. ASSUME NEW v \in Values \cup {Null}, FnLoad(p, v)
      PROVE  PolicyTypes' /\ GoodResults' /\ GoodWrites'
  <2>1. /\ key[p] \in Keys /\ loc' = [loc EXCEPT ![p] = "setClosed"]
        /\ val' = [val EXCEPT ![p] = v]
        /\ written' = [written EXCEPT ![key[p]] = @ \cup ({v} \ {Null})]
        /\ UNCHANGED <<key, res, bits, store, initialized, closed, closing>>
    BY <1>1, <1>7 DEF FnLoad, Goto, Keyed
  <2>2. PolicyTypes'
    BY <2>1 DEF PolicyTypes
  <2>3. GoodResults'
    BY <1>2, <2>1 DEF GoodResults, Good, Keeps
  <2>4. v \in written'[key[p]] \cup {Null}
    BY <2>1 DEF PolicyTypes
  <2>5. GoodWrites'
    BY <1>1, <1>2, <2>1, <2>4 DEF GoodWrites, Keeps, Keyed, PolicyTypes
  <2>6. QED
    BY <2>2, <2>3, <2>5
<1>8. CASE SetRefused(p) \/ SetOpen(p) \/ SetSkipped(p)
  <2>1. PICK to \in {"setInit", "setDone"} : loc' = [loc EXCEPT ![p] = to]
    BY <1>8 DEF SetRefused, SetOpen, SetSkipped, Goto
  <2>2. /\ UNCHANGED <<key, val, res, bits, store, initialized, closed, closing, written>>
        /\ loc[p] \in {"setClosed", "setInit", "setStore", "setDone"}
    BY <1>8 DEF SetRefused, SetOpen, SetSkipped, cachevars, Goto
  <2>3. QED
    BY <1>2, <1>3, <2>1, <2>2, SameValues DEF Locations
<1>9. CASE SetInit(p)
  BY <1>1, <1>3, <1>9, PolicyAssumption
     DEF SetInit, Goto, sfvars, PolicyTypes, GoodResults, GoodWrites, Good
<1>10. CASE SetStore(p)
  <2>1. /\ loc[p] = "setStore" /\ key[p] \in Keys /\ loc' = [loc EXCEPT ![p] = "setDone"]
        /\ store # Nil /\ store' = [store EXCEPT ![key[p]] = val[p]]
        /\ UNCHANGED <<key, val, res, bits, initialized, closed, closing, written, produced>>
    BY <1>1, <1>10 DEF SetStore, Goto, Keyed, sfvars
  <2>2. PolicyTypes'
    BY <2>1 DEF PolicyTypes
  <2>3. GoodResults'
    BY <2>1 DEF GoodResults, Good
  <2>4. GoodWrites'
    BY <1>1, <2>1, PolicyAssumption DEF GoodWrites, PolicyTypes
  <2>5. QED
    BY <1>3, <2>2, <2>3, <2>4
<1>11. CASE SetCrash(p) \/ DeleteInit(p) \/ ClearInit(p)
  <2>1. PICK to \in {"crashed", "delStore", "idle", "clearStore"} :
          loc' = [loc EXCEPT ![p] = to]
    BY <1>11 DEF SetCrash, DeleteInit, ClearInit, Goto
  <2>2. UNCHANGED <<key, val, res, bits, store, initialized, closed, closing, written>>
    BY <1>11 DEF SetCrash, DeleteInit, ClearInit, cachevars
  <2>3. QED
    BY <1>2, <1>3, <2>1, <2>2, SameValues DEF Locations
<1>12. CASE SetReturn(p)
  BY <1>1, <1>3, <1>12
     DEF SetReturn, Goto, cachevars, sfvars, PolicyTypes, GoodResults, GoodWrites, Good
<1>13. CASE DeleteStore(p) \/ ClearStore(p) \/ CloseStore(p)
  <2>1. PICK to \in {"crashed", "idle"} : loc' = [loc EXCEPT ![p] = to]
    BY <1>13 DEF DeleteStore, ClearStore, CloseStore, Goto
  <2>2. UNCHANGED <<key, val, res, bits, written, produced>>
    BY <1>13 DEF DeleteStore, ClearStore, CloseStore, sfvars
  <2>3. /\ store' = Nil \/ store' \in [Keys -> Values \cup {Null, None}]
        /\ store' # Nil => \A k \in Keys : store'[k] = None \/ (store # Nil /\ store'[k] = store[k])
    <3>1. CASE DeleteStore(p)
      <4>1. CASE store = Nil
        BY <3>1, <4>1 DEF DeleteStore
      <4>2. CASE store # Nil
        <5>1. store \in [Keys -> Values \cup {Null, None}]
          BY <4>2 DEF PolicyTypes
        <5>2. store' = [store EXCEPT ![key[p]] = None]
          BY <3>1, <4>2 DEF DeleteStore
        <5>3. QED
          BY <4>2, <5>1, <5>2
      <4>3. QED
        BY <4>1, <4>2
    <3>2. CASE ClearStore(p)
      <4>1. store' = Nil \/ store' = [k \in Keys |-> None]
        BY <3>2 DEF ClearStore
      <4>2. QED
        BY <4>1
    <3>3. CASE CloseStore(p)
      BY <3>3 DEF CloseStore
    <3>4. QED
      BY <1>13, <3>1, <3>2, <3>3
  <2>4. PolicyTypes'
    BY <1>13, <2>2, <2>3 DEF PolicyTypes, DeleteStore, ClearStore, CloseStore
  <2>5. GoodResults' /\ GoodWrites'
    BY <1>1, <2>1, <2>2, <2>3, PolicyAssumption DEF GoodResults, GoodWrites, Good
  <2>6. QED
    BY <1>3, <2>4, <2>5
<1>14. QED
  BY <1>3, <1>4, <1>5, <1>6, <1>7, <1>8, <1>9, <1>10, <1>11, <1>12, <1>13

\* The start of a call.
LEMMA BeginValues ==
  ASSUME PolicyInv, NEW p \in Procs, UNCHANGED hash, Begin(p)
  PROVE  GoodCalls' /\ PolicyTypes' /\ GoodResults' /\ GoodWrites'
<1> USE PolicyAssumption DEF PolicyInv
<1>1. /\ loc \in [Procs -> Locations] /\ key \in [Procs -> Keys \cup {None}]
      /\ \A q \in Procs : loc[q] \in Keyed => key[q] \in Keys
  BY DEF KeyInv
<1>2. Keeps /\ UNCHANGED sfvars
  BY DEF Begin, Get, Set, Delete, Clear, Close, Keeps, PolicyTypes, cachevars, sfvars
<1>3. GoodCalls'
  BY <1>2, QuietGoodCalls
<1>4. ASSUME NEW k \in Keys, Get(p, k) \/ Delete(p, k)
      PROVE  PolicyTypes' /\ GoodResults' /\ GoodWrites'
  BY <1>1, <1>4 DEF Get, Delete, Goto, cachevars, sfvars, PolicyTypes, GoodResults,
     GoodWrites, Good
<1>5. ASSUME NEW k \in Keys, NEW v \in Values, Set(p, k, v)
      PROVE  PolicyTypes' /\ GoodResults' /\ GoodWrites'
  <2>1. /\ loc' = [loc EXCEPT ![p] = "setClosed"] /\ key' = [key EXCEPT ![p] = k]
        /\ val' = [val EXCEPT ![p] = v] /\ res' = [res EXCEPT ![p] = None]
        /\ written' = [written EXCEPT ![k] = @ \cup {v}]
        /\ UNCHANGED <<bits, store, initialized, closed, closing>>
    BY <1>5 DEF Set, Goto
  <2>2. PolicyTypes'
    BY <2>1 DEF PolicyTypes
  <2>3. GoodResults'
    BY <1>1, <1>2, <2>1 DEF GoodResults, Good, Keeps, PolicyTypes
  <2>4. v \in written'[k]
    BY <2>1 DEF PolicyTypes
  <2>5. GoodWrites'
    BY <1>1, <1>2, <2>1, <2>4 DEF GoodWrites, Keeps, Keyed, PolicyTypes
  <2>6. QED
    BY <2>2, <2>3, <2>5
<1>6. CASE Clear(p) \/ Close(p)
  <2>1. PICK to \in {"clearInit", "close"} : loc' = [loc EXCEPT ![p] = to]
    BY <1>6 DEF Clear, Close, Goto
  <2>2. /\ res' = [res EXCEPT ![p] = None]
        /\ UNCHANGED <<key, val, bits, store, initialized, written, produced>>
    BY <1>6 DEF Clear, Close, cachevars, sfvars
  <2>3. PolicyTypes'
    <3>1. /\ initialized' \in BOOLEAN /\ closed' \in BOOLEAN
          /\ closing' \in {"open", "closing", "late", "clean"}
      BY <1>6 DEF PolicyTypes, Clear, Close, cachevars
    <3>2. res' \in [Procs -> Values \cup {Null, LoaderFailed, Rejected, Panic, None}]
      BY <2>2 DEF PolicyTypes
    <3>3. QED
      BY <2>2, <3>1, <3>2 DEF PolicyTypes
  <2>4. GoodResults'
    BY <2>2 DEF GoodResults, Good, PolicyTypes
  <2>5. GoodWrites'
    BY <1>1, <2>1, <2>2 DEF GoodWrites
  <2>6. QED
    BY <1>3, <2>3, <2>4, <2>5
<1>7. QED
  BY <1>3, <1>4, <1>5, <1>6 DEF Begin

\* Every step keeps what Get can return among what was written.
LEMMA NextPolicyInv ==
  ASSUME PolicyInv, [Next]_vars
  PROVE  PolicyInv'
<1> USE DEF PolicyInv
<1>1. KeyInv' /\ [SF!Next]_SF!sfvars
  BY NextKeyInv
<1>2. DoInv' /\ LoadState'
  BY <1>1, NextDoInv, NextLoadState
<1>3. GoodCalls' /\ PolicyTypes' /\ GoodResults' /\ GoodWrites'
  <2>1. CASE UNCHANGED vars
    BY <2>1 DEF vars, cachevars, locals, sfvars, GoodCalls, Good, PolicyTypes, GoodResults,
       GoodWrites
  <2>2. ASSUME NEW p \in Procs, Begin(p), UNCHANGED hash
        PROVE  GoodCalls' /\ PolicyTypes' /\ GoodResults' /\ GoodWrites'
    BY <2>2, BeginValues
  <2>3. ASSUME NEW p \in Procs, Step(p), UNCHANGED hash
        PROVE  GoodCalls' /\ PolicyTypes' /\ GoodResults' /\ GoodWrites'
    <3>1. CASE GetClosed(p) \/ GetNotReady(p) \/ GetMiss(p) \/ Coalesce(p)
      BY <2>3, <3>1, DoValues
    <3>2. CASE FnDoubleHit(p)
      <4>1. /\ FnEnd(p, "double", store[key[p]]) /\ UNCHANGED cachevars
            /\ loc[p] = "double" /\ store # Nil /\ store[key[p]] \in Values
        BY <3>2 DEF FnDoubleHit, FnEnd, Goto
      <4>2. store[key[p]] \in written[key[p]] /\ store[key[p]] \in SF!Outcomes
        BY <4>1 DEF KeyInv, Keyed, GoodWrites, SF!Outcomes
      <4>3. QED
        BY <2>3, <4>1, <4>2, FnEndValues DEF Keyed, cachevars
    <3>3. CASE FnDoublePanic(p) \/ FnLoadPanic(p) \/ FnSetPanic(p)
      <4>1. PICK from \in Keyed : FnEnd(p, from, Panic) /\ UNCHANGED cachevars
        BY <3>3 DEF FnDoublePanic, FnLoadPanic, FnSetPanic, Keyed
      <4>2. Panic \in SF!Outcomes /\ Panic \notin Values
        BY PolicyAssumption DEF SF!Outcomes
      <4>3. QED
        BY <2>3, <4>1, <4>2, FnEndValues DEF cachevars
    <3>4. CASE FnLoaded(p)
      <4>1. /\ FnEnd(p, "setDone", val[p]) /\ loc[p] = "setDone" /\ val[p] \in Values
            /\ bits' = bits \cup hash[key[p]]
            /\ UNCHANGED <<store, initialized, closed, closing, written>>
        BY <3>4 DEF FnLoaded, FnEnd, Goto, Add
      <4>2. val[p] \in written[key[p]] /\ val[p] \in SF!Outcomes
        BY <4>1, PolicyAssumption DEF GoodWrites, SF!Outcomes
      <4>3. QED
        BY <2>3, <4>1, <4>2, FnEndValues DEF Keyed
    <3>5. CASE FnEmpty(p)
      <4>1. /\ FnEnd(p, "setDone", Null) /\ bits' = bits \cup hash[key[p]]
            /\ UNCHANGED <<store, initialized, closed, closing, written>>
        BY <3>5 DEF FnEmpty, Add
      <4>2. Null \in SF!Outcomes /\ Null \notin Values
        BY PolicyAssumption DEF SF!Outcomes
      <4>3. QED
        BY <2>3, <4>1, <4>2, FnEndValues DEF Keyed
    <3>6. CASE FnFailed(p)
      <4>1. FnEnd(p, "setDone", LoaderFailed) /\ UNCHANGED cachevars
        BY <3>6 DEF FnFailed
      <4>2. LoaderFailed \in SF!Outcomes /\ LoaderFailed \notin Values
        BY PolicyAssumption DEF SF!Outcomes
      <4>3. QED
        BY <2>3, <4>1, <4>2, FnEndValues DEF Keyed, cachevars
    <3>7. CASE GetLoaded(p)
      <4>1. /\ SF!Leave(p) /\ pc[p] = "returned" /\ loc[p] \in {"double", "left"}
            /\ loc' = [loc EXCEPT ![p] = "idle"] /\ res' = [res EXCEPT ![p] = ret[p]]
            /\ UNCHANGED <<key, val, bits, store, initialized, closed, closing, written,
                           produced>>
        BY <3>7 DEF GetLoaded, SF!Leave, SF!Goto, cachevars
      <4>2. GoodCalls'
        BY <4>1, QuietGoodCalls DEF Keeps
      <4>3. arg[p] = key[p] /\ key[p] \in Keys /\ Good(key[p], ret[p])
        BY <4>1 DEF LoadState, KeyInv, Keyed, GoodCalls
      <4>4. PolicyTypes'
        BY <2>3, <4>1 DEF PolicyTypes, DoInv, SF!TypeOK, SF!Outcomes
      <4>5. GoodResults'
        BY <4>1, <4>3 DEF GoodResults, Good, PolicyTypes
      <4>6. GoodWrites'
        BY <4>1 DEF GoodWrites, KeyInv
      <4>7. QED
        BY <4>2, <4>4, <4>5, <4>6
    <3>8. CASE \/ GetRejected(p) \/ GetAdmitted(p) \/ GetOpen(p) \/ GetReady(p) \/ GetHit(p)
               \/ GetCrash(p) \/ FnDoubleMiss(p)
               \/ (\E v \in Values \cup {Null} : FnLoad(p, v))
               \/ SetRefused(p) \/ SetOpen(p) \/ SetInit(p) \/ SetStore(p) \/ SetSkipped(p)
               \/ SetCrash(p) \/ SetReturn(p) \/ DeleteInit(p) \/ DeleteStore(p)
               \/ ClearInit(p) \/ ClearStore(p) \/ CloseStore(p)
      <4>1. UNCHANGED sfvars
        BY <3>8 DEF GetRejected, GetAdmitted, GetOpen, GetReady, GetHit, GetCrash,
           FnDoubleMiss, FnLoad, SetRefused, SetOpen, SetInit, SetStore, SetSkipped,
           SetCrash, SetReturn, DeleteInit, DeleteStore, ClearInit, ClearStore, CloseStore,
           sfvars
      <4>2. QED
        BY <2>3, <3>8, <4>1, OwnValues
    <3>9. QED
      BY <2>3, <3>1, <3>2, <3>3, <3>4, <3>5, <3>6, <3>7, <3>8 DEF Step
  <2>4. ASSUME NEW k \in Keys, Forget(k), UNCHANGED hash
        PROVE  GoodCalls' /\ PolicyTypes' /\ GoodResults' /\ GoodWrites'
    BY <2>4, PolicyAssumption DEF Forget, locals, sfvars, GoodCalls, Good, PolicyTypes,
       GoodResults, GoodWrites
  <2>5. QED
    BY <2>1, <2>2, <2>3, <2>4 DEF Next
<1>4. QED
  BY <1>1, <1>2, <1>3

\* PolicyInv is an inductive invariant.
THEOREM PolicyInvariant == Spec => []PolicyInv
<1>1. Init => PolicyInv
  <2> SUFFICES ASSUME Init PROVE PolicyInv
    OBVIOUS
  <2> USE PolicyAssumption DEF Init, SF!Init
  <2>1. KeyInv /\ LoadState
    BY DEF KeyInv, Keyed, Locations, LoadState
  <2>2. DoInv
    BY DEF DoInv, SF!TypeOK, SF!Blank, SF!Locations, SF!Outcomes, SF!Leading, DoLocals,
       DoLeads, OneKey
  <2>3. GoodCalls /\ PolicyTypes /\ GoodResults /\ GoodWrites
    BY DEF GoodCalls, PolicyTypes, GoodResults, GoodWrites
  <2>4. QED
    BY <2>1, <2>2, <2>3 DEF PolicyInv
<1>2. QED
  BY <1>1, NextPolicyInv, PTL DEF Spec

\* The types of the policy, the storage layer and singleflight under it.
THEOREM PolicyTypeCorrect == Spec => []TypeOK
<1>1. PolicyInv => TypeOK
  BY DEF PolicyInv, KeyInv, DoInv, PolicyTypes, TypeOK
<1>2. QED
  BY <1>1, PolicyInvariant, PTL

\* Get returns only what was set or loaded for its key, whether it comes from the
\* store, the double check or another goroutine's load (policy.go lines 36-50,
\* cache.go lines 118-122).
THEOREM GetIsTruthful == Spec => []GetReturnsWritten
<1>1. PolicyInv => GetReturnsWritten
  BY DEF PolicyInv, GoodResults, Good, GetReturnsWritten
<1>2. QED
  BY <1>1, PolicyInvariant, PTL
=============================================================================
