----------------------------- MODULE CacheStore -----------------------------
(***************************************************************************)
(* What a Store (store/store.go) promises to the layer above it, as long   *)
(* as nothing that it holds expires: a map from keys to values that may    *)
(* lose entries.  A key has the value it was last set to, or none; an      *)
(* entry that is lost is handed to the eviction callback in the same step. *)
(***************************************************************************)
CONSTANTS
  Keys,    \* cache keys
  Values,  \* values
  None     \* nil: no value

VARIABLES
  map,      \* map[k]: the value a Get of k would return, or None
  latest,   \* latest[k]: what k was last set to, None after a Delete
  got,      \* what the last Get returned, None after any other call
  evicted   \* the <<key, value>> pairs the last call gave to onEvicted

storeVars == <<map, latest, got, evicted>>

Init ==
  /\ map = [k \in Keys |-> None]
  /\ latest = map
  /\ got = None
  /\ evicted = {}

\* Outside the keys in K the step only loses entries, and reports each of them.
LosesOnlyReported(K) ==
  LET old == map
      new == map'
  IN  \A k \in Keys \ K :
        new[k] # old[k] => new[k] = None /\ <<k, old[k]>> \in evicted'

\* Maintenance in the background.
Reclaim ==
  /\ UNCHANGED latest
  /\ got' = None
  /\ LosesOnlyReported({})

Get(k) ==
  /\ UNCHANGED latest
  /\ got' = map[k]
  /\ LosesOnlyReported({})

Set(k, v) ==
  /\ latest' = [latest EXCEPT ![k] = v]
  /\ got' = None
  /\ map'[k] = v
  /\ LosesOnlyReported({k})

Delete(k) ==
  /\ latest' = [latest EXCEPT ![k] = None]
  /\ got' = None
  /\ map'[k] = None
  /\ LosesOnlyReported({})

Next ==
  \/ Reclaim
  \/ \E k \in Keys : Get(k) \/ Delete(k) \/ \E v \in Values : Set(k, v)

Spec == Init /\ [][Next]_storeVars
=============================================================================
