---------------------------- MODULE CachePolicy -----------------------------
(***************************************************************************)
(* The policy layer (policy.go) over the lazily initialised storage layer  *)
(* (cache.go), the Bloom filter (bloom/bloom.go) and request coalescing    *)
(* (module Singleflight).                                                  *)
(*                                                                         *)
(* Goroutines of Procs call Get, Set, Delete, Clear and Close of one       *)
(* CachePolicy.  The flags closed and initialized are atomic variables,    *)
(* c.store is a plain field: Get, Set, Delete and Clear test the flags     *)
(* first and dereference c.store in a later step, Close sets c.store to    *)
(* nil in between if it likes.  A nil dereference is a panic: inside the   *)
(* function given to singleflight it is recovered and becomes an error,    *)
(* elsewhere it ends the goroutine (location "crashed").                   *)
(*                                                                         *)
(* The store is the lossy map of module CacheStore: Forget drops an entry  *)
(* at any time (expiration, eviction, cleanup).  The loader is external:   *)
(* it returns a value or an error, or panics.                              *)
(***************************************************************************)
EXTENDS Integers

CONSTANTS
  Procs,        \* goroutines that use the cache
  Keys,         \* keys
  Calls,        \* heap addresses for singleflight's *call objects
  Values,       \* non-nil byte slices
  Null,         \* ByteView{b: nil}, the placeholder for a failed load, and what
                \* gRPC makes of an empty value
  LoaderFailed, \* ErrLoaderFailed
  Rejected,     \* ErrBloomRejected
  Panic,        \* the error singleflight makes of a panic
  None,         \* nil: no value
  Nil,          \* c.store == nil
  Filters       \* the filters to consider: functions from keys to sets of bits

ASSUME PolicyAssumption ==
  /\ None \notin Calls \cup Values \cup Keys \cup {LoaderFailed, Panic, Null, Rejected}
  /\ Panic \notin Values \cup {LoaderFailed, Null}
  /\ {LoaderFailed, Rejected} \cap (Values \cup {Null}) = {}
  /\ Null \notin Values
  /\ Nil \notin [Keys -> Values \cup {Null, None}]
  /\ \A f \in Filters : DOMAIN f = Keys

VARIABLES
  m, call, pc, arg, cur, ret, produced,  \* the singleflight group
  loc,         \* loc[p]: where goroutine p is in its call
  key,         \* key[p]: the key of its call
  val,         \* val[p]: the value Cache.Set is going to write
  res,         \* res[p]: what its last Get returned
  hash,        \* hash[k]: the bits that NewBloomFilter's k functions give key k
  bits,        \* the bits set in the Bloom filter
  store,       \* c.store: Nil, or what Get of every key would find
  initialized, \* c.initialized
  closed,      \* c.closed
  closing,     \* history: "open", "closing"; when Close has ended, "late" if a
               \* Set had passed the closed test and not yet initialised, else
               \* "clean"
  written      \* history: written[k] is the values Set or a load has had for k

sfvars == <<m, call, pc, arg, cur, ret, produced>>
cachevars == <<bits, store, initialized, closed, closing, written>>
locals == <<loc, key, val, res>>
vars == <<sfvars, cachevars, locals, hash>>

SF == INSTANCE Singleflight WITH Results <- Values \cup {Null, LoaderFailed}

Init ==
  /\ SF!Init
  /\ loc = [p \in Procs |-> "idle"]
  /\ key = [p \in Procs |-> None]
  /\ val = [p \in Procs |-> None]
  /\ res = [p \in Procs |-> None]
  /\ hash \in Filters
  /\ bits = {}
  /\ store = Nil
  /\ initialized = FALSE
  /\ closed = FALSE
  /\ closing = "open"
  /\ written = [k \in Keys |-> {}]

Goto(p, from, to) ==
  /\ loc[p] = from
  /\ loc' = [loc EXCEPT ![p] = to]

\* bf.Contains and bf.Add, both under the filter's lock.
Contains(k) == hash[k] \subseteq bits

Add(k) == bits' = bits \cup hash[k]

-----------------------------------------------------------------------------
(* CachePolicy.Get *)

Get(p, k) ==
  /\ Goto(p, "idle", "contains")
  /\ key' = [key EXCEPT ![p] = k]
  /\ res' = [res EXCEPT ![p] = None]
  /\ UNCHANGED <<val, sfvars, cachevars>>

GetRejected(p) ==
  /\ Goto(p, "contains", "idle")
  /\ ~Contains(key[p])
  /\ res' = [res EXCEPT ![p] = Rejected]
  /\ UNCHANGED <<key, val, sfvars, cachevars>>

GetAdmitted(p) ==
  /\ Goto(p, "contains", "check")
  /\ Contains(key[p])
  /\ UNCHANGED <<key, val, res, sfvars, cachevars>>

\* Cache.Get, the flag closed: an error of any kind leads to loadFromSource.
GetClosed(p) ==
  /\ Goto(p, "check", "double")
  /\ closed
  /\ SF!Do(p, key[p])
  /\ UNCHANGED <<key, val, res, cachevars>>

GetOpen(p) ==
  /\ Goto(p, "check", "checkInit")
  /\ ~closed
  /\ UNCHANGED <<key, val, res, sfvars, cachevars>>

\* Cache.Get, the flag initialized.
GetNotReady(p) ==
  /\ Goto(p, "checkInit", "double")
  /\ ~initialized
  /\ SF!Do(p, key[p])
  /\ UNCHANGED <<key, val, res, cachevars>>

\* A bug: initialized is not tested.
GetReadyUntested(p) ==
  /\ Goto(p, "checkInit", "storeGet")
  /\ UNCHANGED <<key, val, res, sfvars, cachevars>>

GetReady(p) ==
  /\ Goto(p, "checkInit", "storeGet")
  /\ initialized
  /\ UNCHANGED <<key, val, res, sfvars, cachevars>>

\* A bug: the placeholder is returned as if it were a value.
GetHitAny(p) ==
  /\ Goto(p, "storeGet", "idle")
  /\ store # Nil /\ store[key[p]] # None
  /\ res' = [res EXCEPT ![p] = store[key[p]]]
  /\ UNCHANGED <<key, val, sfvars, cachevars>>

\* Cache.Get, the store: the placeholder counts as a miss.
GetHit(p) ==
  /\ Goto(p, "storeGet", "idle")
  /\ store # Nil /\ store[key[p]] \in Values
  /\ res' = [res EXCEPT ![p] = store[key[p]]]
  /\ UNCHANGED <<key, val, sfvars, cachevars>>

GetMiss(p) ==
  /\ Goto(p, "storeGet", "double")
  /\ store # Nil /\ store[key[p]] \in {None, Null}
  /\ SF!Do(p, key[p])
  /\ UNCHANGED <<key, val, res, cachevars>>

GetCrash(p) ==
  /\ Goto(p, "storeGet", "crashed")
  /\ store = Nil
  /\ UNCHANGED <<key, val, res, sfvars, cachevars>>

-----------------------------------------------------------------------------
(* loadFromSource: singleflight, and the function it executes *)

\* Steps of Do in which the cache takes no part.
Coalesce(p) ==
  /\ SF!LoadHit(p) \/ SF!LoadMiss(p) \/ SF!Store(p)
       \/ SF!Done(p) \/ SF!Delete(p) \/ SF!Wait(p) \/ SF!Return(p)
  /\ UNCHANGED <<locals, cachevars>>

InFn(p) == pc[p] = "fn"

\* The function returns, or panics.
FnEnd(p, from, r) ==
  /\ Goto(p, from, "left")
  /\ SF!FnEnd(p, r)
  /\ val' = [val EXCEPT ![p] = None]
  /\ UNCHANGED <<key, res>>

\* The double check: p.cache.store.Get without any test of the flags.
FnDoubleHit(p) ==
  /\ InFn(p)
  /\ store # Nil /\ store[key[p]] \in Values
  /\ FnEnd(p, "double", store[key[p]])
  /\ UNCHANGED cachevars

FnDoubleMiss(p) ==
  /\ InFn(p)
  /\ Goto(p, "double", "loader")
  /\ store # Nil /\ store[key[p]] \in {None, Null}
  /\ UNCHANGED <<key, val, res, sfvars, cachevars>>

FnDoublePanic(p) ==
  /\ store = Nil
  /\ FnEnd(p, "double", Panic)
  /\ UNCHANGED cachevars

\* p.loader.Get; then cache.SetWithExpiration of what there is to write: the
\* loaded value, or nil for an error or an empty answer.
FnLoad(p, v) ==
  /\ InFn(p)
  /\ Goto(p, "loader", "setClosed")
  /\ val' = [val EXCEPT ![p] = v]
  /\ written' = [written EXCEPT ![key[p]] = @ \cup ({v} \ {Null})]
  /\ UNCHANGED <<key, res, sfvars, bits, store, initialized, closed, closing>>

\* A bug: after a panic the load is tried again.
FnLoadRetries(p) ==
  /\ InFn(p)
  /\ Goto(p, "loader", "double")
  /\ UNCHANGED <<key, val, res, sfvars, cachevars>>

FnLoadPanic(p) ==
  /\ FnEnd(p, "loader", Panic)
  /\ UNCHANGED cachevars

\* After the write: bf.Add for a loaded value; the error for a placeholder.
FnLoaded(p) ==
  /\ val[p] \in Values
  /\ FnEnd(p, "setDone", val[p])
  /\ Add(key[p])
  /\ UNCHANGED <<store, initialized, closed, closing, written>>

\* The loader asked a peer for an empty value: a nil slice and no error.
FnEmpty(p) ==
  /\ val[p] = Null
  /\ FnEnd(p, "setDone", Null)
  /\ Add(key[p])
  /\ UNCHANGED <<store, initialized, closed, closing, written>>

\* A bug: a failed load returns neither a value nor an error.
FnFailedNil(p) ==
  /\ val[p] = Null
  /\ FnEnd(p, "setDone", None)
  /\ UNCHANGED cachevars

FnFailed(p) ==
  /\ val[p] = Null
  /\ FnEnd(p, "setDone", LoaderFailed)
  /\ UNCHANGED cachevars

\* loadFromSource returns what Do returned.
GetLoaded(p) ==
  /\ loc[p] \in {"double", "left"}
  /\ loc' = [loc EXCEPT ![p] = "idle"]
  /\ SF!Leave(p)
  /\ res' = [res EXCEPT ![p] = ret[p]]
  /\ UNCHANGED <<key, val, cachevars>>

-----------------------------------------------------------------------------
(* Cache.Set and Cache.SetWithExpiration, for callers and for loads *)

Set(p, k, v) ==
  /\ Goto(p, "idle", "setClosed")
  /\ key' = [key EXCEPT ![p] = k]
  /\ val' = [val EXCEPT ![p] = v]
  /\ res' = [res EXCEPT ![p] = None]
  /\ written' = [written EXCEPT ![k] = @ \cup {v}]
  /\ UNCHANGED <<sfvars, bits, store, initialized, closed, closing>>

SetRefused(p) ==
  /\ Goto(p, "setClosed", "setDone")
  /\ closed
  /\ UNCHANGED <<key, val, res, sfvars, cachevars>>

\* A bug: closed is not tested.
SetUntested(p) ==
  /\ Goto(p, "setClosed", "setInit")
  /\ UNCHANGED <<key, val, res, sfvars, cachevars>>

SetOpen(p) ==
  /\ Goto(p, "setClosed", "setInit")
  /\ ~closed
  /\ UNCHANGED <<key, val, res, sfvars, cachevars>>

\* ensureInitialized
SetInit(p) ==
  /\ Goto(p, "setInit", "setStore")
  /\ store' = IF initialized THEN store ELSE [k \in Keys |-> None]
  /\ initialized' = TRUE
  /\ UNCHANGED <<key, val, res, sfvars, bits, closed, closing, written>>

SetStore(p) ==
  /\ Goto(p, "setStore", "setDone")
  /\ store # Nil
  /\ store' = [store EXCEPT ![key[p]] = val[p]]
  /\ UNCHANGED <<key, val, res, sfvars, bits, initialized, closed, closing, written>>

\* SetWithExpiration comes too late: the value has expired by now.
SetSkipped(p) ==
  /\ Goto(p, "setStore", "setDone")
  /\ UNCHANGED <<key, val, res, sfvars, cachevars>>

SetCrash(p) ==
  /\ ~InFn(p)
  /\ store = Nil
  /\ Goto(p, "setStore", "crashed")
  /\ UNCHANGED <<key, val, res, sfvars, cachevars>>

FnSetPanic(p) ==
  /\ store = Nil
  /\ FnEnd(p, "setStore", Panic)
  /\ UNCHANGED cachevars

SetReturn(p) ==
  /\ ~InFn(p)
  /\ Goto(p, "setDone", "idle")
  /\ val' = [val EXCEPT ![p] = None]
  /\ UNCHANGED <<key, res, sfvars, cachevars>>

-----------------------------------------------------------------------------
(* Cache.Delete, Cache.Clear and Cache.Close *)

\* The flag closed; a closed cache ends the call at once.
Delete(p, k) ==
  /\ Goto(p, "idle", "delInit")
  /\ ~closed
  /\ key' = [key EXCEPT ![p] = k]
  /\ res' = [res EXCEPT ![p] = None]
  /\ UNCHANGED <<val, sfvars, cachevars>>

\* The flag initialized.
DeleteInit(p) ==
  /\ Goto(p, "delInit", IF initialized THEN "delStore" ELSE "idle")
  /\ UNCHANGED <<key, val, res, sfvars, cachevars>>

DeleteStore(p) ==
  /\ Goto(p, "delStore", IF store = Nil THEN "crashed" ELSE "idle")
  /\ store' = IF store = Nil THEN Nil ELSE [store EXCEPT ![key[p]] = None]
  /\ UNCHANGED <<key, val, res, sfvars, bits, initialized, closed, closing, written>>

Clear(p) ==
  /\ Goto(p, "idle", "clearInit")
  /\ ~closed
  /\ res' = [res EXCEPT ![p] = None]
  /\ UNCHANGED <<key, val, sfvars, cachevars>>

ClearInit(p) ==
  /\ Goto(p, "clearInit", IF initialized THEN "clearStore" ELSE "idle")
  /\ UNCHANGED <<key, val, res, sfvars, cachevars>>

\* Under c.mu, which Close may have held since the test.
ClearStore(p) ==
  /\ Goto(p, "clearStore", IF store = Nil THEN "crashed" ELSE "idle")
  /\ store' = IF store = Nil THEN Nil ELSE [k \in Keys |-> None]
  /\ UNCHANGED <<key, val, res, sfvars, bits, initialized, closed, closing, written>>

\* The compare-and-swap, then the rest under c.mu.
Close(p) ==
  /\ Goto(p, "idle", "close")
  /\ ~closed
  /\ closed' = TRUE
  /\ closing' = "closing"
  /\ res' = [res EXCEPT ![p] = None]
  /\ UNCHANGED <<key, val, sfvars, bits, store, initialized, written>>

CloseStore(p) ==
  /\ Goto(p, "close", "idle")
  /\ store' = Nil
  /\ initialized' = FALSE
  /\ closing' = IF \E q \in Procs : loc[q] = "setInit" THEN "late" ELSE "clean"
  /\ UNCHANGED <<key, val, res, sfvars, bits, closed, written>>

\* The store drops an entry on its own.
Forget(k) ==
  /\ store # Nil /\ store[k] # None
  /\ store' = [store EXCEPT ![k] = None]
  /\ UNCHANGED <<locals, sfvars, bits, initialized, closed, closing, written>>

-----------------------------------------------------------------------------
Begin(p) ==
  \/ \E k \in Keys : Get(p, k) \/ Delete(p, k) \/ \E v \in Values : Set(p, k, v)
  \/ Clear(p) \/ Close(p)

Step(p) ==
  \/ GetRejected(p) \/ GetAdmitted(p) \/ GetClosed(p) \/ GetOpen(p)
  \/ GetNotReady(p) \/ GetReady(p)
  \/ GetHit(p) \/ GetMiss(p) \/ GetCrash(p)
  \/ Coalesce(p)
  \/ FnDoubleHit(p) \/ FnDoubleMiss(p) \/ FnDoublePanic(p)
  \/ \E v \in Values \cup {Null} : FnLoad(p, v)
  \/ FnLoadPanic(p) \/ FnLoaded(p) \/ FnEmpty(p) \/ FnFailed(p) \/ GetLoaded(p)
  \/ SetRefused(p) \/ SetOpen(p) \/ SetInit(p) \/ SetStore(p) \/ SetSkipped(p)
  \/ SetCrash(p) \/ FnSetPanic(p) \/ SetReturn(p)
  \/ DeleteInit(p) \/ DeleteStore(p) \/ ClearInit(p) \/ ClearStore(p) \/ CloseStore(p)

Next ==
  /\ \/ \E p \in Procs : Begin(p) \/ Step(p)
     \/ \E k \in Keys : Forget(k)
  /\ UNCHANGED hash

Spec == Init /\ [][Next]_vars

\* A goroutine that can go on does, and the loader returns.
FairSpec == Spec /\ \A p \in Procs : WF_vars(Step(p) /\ UNCHANGED hash)

-----------------------------------------------------------------------------
Locations ==
  {"idle", "contains", "check", "checkInit", "storeGet", "double", "loader", "left",
   "setClosed", "setInit", "setStore", "setDone", "delInit", "delStore",
   "clearInit", "clearStore", "close", "crashed"}

TypeOK ==
  /\ SF!TypeOK
  /\ loc \in [Procs -> Locations]
  /\ key \in [Procs -> Keys \cup {None}]
  /\ val \in [Procs -> Values \cup {Null, None}]
  /\ res \in [Procs -> Values \cup {Null, LoaderFailed, Rejected, Panic, None}]
  /\ bits \subseteq UNION {hash[k] : k \in Keys}
  /\ store = Nil \/ store \in [Keys -> Values \cup {Null, None}]
  /\ initialized \in BOOLEAN /\ closed \in BOOLEAN
  /\ closing \in {"open", "closing", "late", "clean"}
  /\ written \in [Keys -> SUBSET Values]

\* As long as nobody has called Close no call dies of a nil store: the flags
\* that Get, Set, Delete and Clear test are still right when they dereference
\* c.store in a later step (cache.go lines 99-107, 130-136, 162-175).
CrashOnlyAfterClose == \A p \in Procs : loc[p] = "crashed" => closed

\* Get returns only values that were set or loaded for the same key, on each
\* of its three ways to a value: the store, the double check of a load and
\* another goroutine's load; and a nil view only if a load has had one for an
\* answer: it never takes the placeholder of a failed load for a value
\* (policy.go lines 36-50, cache.go lines 118-122).
GetReturnsWritten ==
  \A p \in Procs :
    /\ res[p] \in Values => res[p] \in written[key[p]]
    /\ res[p] = Null => Null \in produced[key[p]]

\* Every call ends: it returns or, after Close, dies.
CallsEnd == \A p \in Procs : loc[p] # "idle" ~> loc[p] \in {"idle", "crashed"}

\* Close releases the store (cache.go lines 188-204): when it has ended no store
\* is left and none is created any more, unless a Set had passed the closed test
\* and not yet called ensureInitialized; that one creates a store which nobody
\* will close.
CloseReleases == closing = "clean" => store = Nil
=============================================================================
