------------------------------ MODULE LRUCache ------------------------------
(***************************************************************************)
(* The LRU engine of store/lru.go.                                         *)
(*                                                                         *)
(* A ring of list elements (container/list, external) in LRU order, a map  *)
(* from keys to elements and a map of expiration times, under one          *)
(* read-write lock.  Set, Delete, Clear and a pass of the cleanup loop are *)
(* atomic.  Get is not: it reads under the read lock, releases it, and     *)
(* moves the element under the write lock later; and when it finds an      *)
(* expired entry it leaves the deletion to a goroutine of its own.         *)
(*                                                                         *)
(* A Clear between the two parts of a Get lets the second part move an     *)
(* element of the dropped list, which damages the links.  The module       *)
(* reaches that state and says nothing of what the engine does after it.   *)
(***************************************************************************)
EXTENDS Integers, FiniteSetsExt

CONSTANTS
  Procs,      \* goroutines that call Get
  Keys,       \* cache keys
  Values,     \* values
  Elems,      \* heap addresses for *list.Element objects
  Root,       \* the sentinel element of the list
  None,       \* nil
  Size,       \* Size[v]: v.Len()
  KeyLen,     \* len(key)
  Limits,     \* limits that maxBytes may be given; 0: no limit
  TTLs,       \* expirations callers ask for; 0: never expires
  MaxTime,    \* bound on the clock
  MaxDeletes  \* bound on the asynchronous deletions of one key under way

ASSUME LRUCacheAssumption ==
  /\ Root \notin Elems /\ None \notin Elems \cup Values \cup Keys \cup {Root}
  /\ None \notin Nat /\ None \notin [k : Keys, v : Values]
  /\ None \notin [key : Keys, elem : Elems, cleared : BOOLEAN]
  /\ KeyLen \in Nat \ {0} /\ Limits \subseteq Nat /\ MaxTime \in Nat /\ MaxDeletes \in Nat
  /\ Size \in [Values -> Nat]
  /\ TTLs \subseteq Nat

VARIABLES
  c,       \* the fields of lruCache that the write lock protects:
           \*   .nxt, .prv, .own, .len: the list; own[e] is e.list == c.list
           \*   .entry[e]: the *lruEntry of element e
           \*   .items, .expires: the maps; None stands for a missing key
           \*   .usedBytes, .maxBytes
  clock,   \* time.Now()
  get,     \* get[p]: .key and .elem of a Get that has released the read lock,
           \* and whether Clear has been called since (.cleared), or None
  deletes, \* deletes[k]: the goroutines `go c.Delete(k)` that have not run yet
  loop,    \* the cleanup loop: "open", "draining" after Close, "exited"
  damaged  \* an element of a dropped list has been moved

vars == <<c, clock, get, deletes, loop, damaged>>

Nodes == Elems \cup {Root}

EmptyRing == [e \in Nodes |-> IF e = Root THEN Root ELSE None]

EmptyCache(limit) ==
  [nxt |-> EmptyRing, prv |-> EmptyRing, own |-> [e \in Elems |-> FALSE],
   len |-> 0, entry |-> [e \in Elems |-> None],
   items |-> [k \in Keys |-> None], expires |-> [k \in Keys |-> None],
   usedBytes |-> 0, maxBytes |-> limit]

Init ==
  /\ \E limit \in Limits : c = EmptyCache(limit)
  /\ clock = 0
  /\ get = [p \in Procs |-> None]
  /\ deletes = [k \in Keys |-> 0]
  /\ loop = "open"
  /\ damaged = FALSE

-----------------------------------------------------------------------------
(* container/list *)

Unlink(s, e) ==
  [s EXCEPT !.nxt[s.prv[e]] = s.nxt[e], !.prv[s.nxt[e]] = s.prv[e]]

LinkAfter(s, e, at) ==
  LET s1 == [s EXCEPT !.prv[e] = at, !.nxt[e] = s.nxt[at]]
      s2 == [s1 EXCEPT !.nxt[at] = e]
  IN  [s2 EXCEPT !.prv[s2.nxt[e]] = e]

PushBack(s, e) ==
  [LinkAfter(s, e, s.prv[Root]) EXCEPT !.own[e] = TRUE, !.len = @ + 1]

ListRemove(s, e) ==
  IF s.own[e]
  THEN [Unlink(s, e) EXCEPT !.own[e] = FALSE, !.len = @ - 1,
                            !.nxt[e] = None, !.prv[e] = None]
  ELSE s

\* An element of another list, or of none, is left alone.
MoveToBack(s, e) ==
  IF ~s.own[e] \/ s.prv[Root] = e THEN s
  ELSE LinkAfter(Unlink(s, e), e, s.prv[Root])

\* list.Init empties the ring; the elements that were in it keep their links
\* and still point to the list.
ListInit(s) ==
  [s EXCEPT !.nxt[Root] = Root, !.prv[Root] = Root, !.len = 0]

PresentIn(s) == {k \in Keys : s.items[k] # None}

Elements(s) == {s.items[k] : k \in PresentIn(s)}

Items == Elements(c)

\* Elements that Gets under way hold.
Held(g) == {g[p].elem : p \in {q \in Procs : g[q] # None}}

\* Garbage collection: list.Init drops a ring that lives on as long as a Get
\* holds an element of it.
Collect(s, held) ==
  LET Old(e) == e \in Elems \ Elements(s)
  IN  IF held \subseteq Elements(s)
      THEN [s EXCEPT !.nxt = [e \in Nodes |-> IF Old(e) THEN None ELSE s.nxt[e]],
                     !.prv = [e \in Nodes |-> IF Old(e) THEN None ELSE s.prv[e]],
                     !.own = [e \in Elems |-> s.own[e] /\ ~Old(e)],
                     !.entry = [e \in Elems |-> IF Old(e) THEN None ELSE s.entry[e]]]
      ELSE s

\* What PushBack may allocate: an element that nothing refers to.
Unused(e) ==
  /\ e \notin Items \cup Held(get)
  /\ \A x \in Nodes \ {e} : c.nxt[x] # e /\ c.prv[x] # e

-----------------------------------------------------------------------------
Expired(s, k) == s.expires[k] # None /\ clock > s.expires[k]

\* A bug: the key stays in the map.
removeElementKeepsKey(s, e) ==
  LET k == s.entry[e].k
  IN  [ListRemove(s, e) EXCEPT
         !.expires[k] = None, !.usedBytes = @ - (KeyLen + Size[s.entry[e].v])]

\* A bug: the key keeps its expiration.
removeElementKeepsTime(s, e) ==
  LET k == s.entry[e].k
  IN  [ListRemove(s, e) EXCEPT
         !.items[k] = None, !.entry[e] = None,
         !.usedBytes = @ - (KeyLen + Size[s.entry[e].v])]

\* removeElement: also forgets the key's expiration and its bytes.
removeElement(s, e) ==
  LET k == s.entry[e].k
  IN  [ListRemove(s, e) EXCEPT
         !.items[k] = None, !.expires[k] = None, !.entry[e] = None,
         !.usedBytes = @ - (KeyLen + Size[s.entry[e].v])]

ExpiredIn(s) == {k \in PresentIn(s) : Expired(s, k)}

Exceeds(s) == s.maxBytes > 0 /\ s.usedBytes > s.maxBytes

\* A bug: the limit is not enforced.
evictOneExpired(s) ==
  IF ExpiredIn(s) # {} THEN removeElement(s, s.items[CHOOSE k \in ExpiredIn(s) : TRUE])
  ELSE s

\* evict, one turn of its loops: an expired key as long as there is one, then the
\* front of the list while there is too much.
evictOne(s) ==
  IF ExpiredIn(s) # {} THEN removeElement(s, s.items[CHOOSE k \in ExpiredIn(s) : TRUE])
  ELSE IF Exceeds(s) /\ s.len > 0 THEN removeElement(s, s.nxt[Root])
  ELSE s

\* Every turn removes one of s.len elements; the remaining turns change nothing.
evict(s) ==
  LET after[i \in 0..s.len] == IF i = 0 THEN s ELSE evictOne(after[i - 1])
  IN  after[s.len]

\* Get, under the read lock: expired; `go c.Delete(key)`.
GetExpired(p, k) ==
  /\ get[p] = None
  /\ c.items[k] # None
  /\ Expired(c, k)
  /\ deletes[k] < MaxDeletes
  /\ deletes' = [deletes EXCEPT ![k] = @ + 1]
  /\ UNCHANGED <<c, clock, get, loop, damaged>>

\* Get, under the read lock: a hit.
GetRead(p, k) ==
  /\ get[p] = None
  /\ c.items[k] # None
  /\ ~Expired(c, k)
  /\ get' = [get EXCEPT ![p] = [key |-> k, elem |-> c.items[k], cleared |-> FALSE]]
  /\ UNCHANGED <<c, clock, deletes, loop, damaged>>

\* A bug: whether the key is still there is not tested, and the element is
\* pushed again if it has been removed.
GetMoveAlways(p) ==
  LET e == get[p].elem
  IN  /\ get[p] # None
      /\ get' = [get EXCEPT ![p] = None]
      /\ c' = IF c.own[e] THEN MoveToBack(c, e) ELSE PushBack(c, e)
      /\ damaged' = (e \notin Items)
      /\ UNCHANGED <<clock, deletes, loop>>

\* Get, under the write lock: if the key is still there, move the element.
GetMove(p) ==
  LET moves == c.items[get[p].key] # None
      new   == MoveToBack(c, get[p].elem)
  IN  /\ get[p] # None
      /\ get' = [get EXCEPT ![p] = None]
      /\ damaged' = (moves /\ new # c /\ get[p].elem \notin Items)
      /\ c' = IF damaged' THEN new ELSE Collect(IF moves THEN new ELSE c, Held(get'))
      /\ UNCHANGED <<clock, deletes, loop>>

WithExpiration(s, k, ttl) ==
  [s EXCEPT !.expires[k] = IF ttl > 0 THEN clock + ttl ELSE None]

\* SetWithExpiration, the key exists: nothing is evicted.
SetUpdate(k, v, ttl) ==
  LET e == c.items[k]
      s == WithExpiration(c, k, ttl)
  IN  /\ e # None
      /\ c' = MoveToBack([s EXCEPT !.usedBytes = @ + Size[v] - Size[c.entry[e].v],
                                   !.entry[e].v = v], e)
      /\ UNCHANGED <<clock, get, deletes, loop, damaged>>

\* SetWithExpiration, a new key; then evict, which may remove it at once.
\* Elements have no order: whichever unused one is allocated makes no difference.
SetInsert(k, v, ttl) ==
  LET e == CHOOSE x \in Elems : Unused(x)
  IN  /\ c.items[k] = None
      /\ \E x \in Elems : Unused(x)
      /\ c' = evict([PushBack(WithExpiration(c, k, ttl), e) EXCEPT
                       !.entry[e] = [k |-> k, v |-> v], !.items[k] = e,
                       !.usedBytes = @ + KeyLen + Size[v]])
      /\ UNCHANGED <<clock, get, deletes, loop, damaged>>

\* Delete, the whole call under the write lock.
Deleted(k) == IF c.items[k] = None THEN c ELSE removeElement(c, c.items[k])

Delete(k) ==
  /\ c' = Deleted(k)
  /\ UNCHANGED <<clock, get, deletes, loop, damaged>>

\* The goroutine that an expired Get has started.
AsyncDelete(k) ==
  /\ deletes[k] > 0
  /\ c' = Deleted(k)
  /\ deletes' = [deletes EXCEPT ![k] = @ - 1]
  /\ UNCHANGED <<clock, get, loop, damaged>>

\* Clear; the elements keep their links and still point to the list.
Clear ==
  /\ c' = Collect([ListInit(c) EXCEPT !.items = [k \in Keys |-> None],
                      !.expires = [k \in Keys |-> None], !.usedBytes = 0], Held(get))
  /\ get' = [p \in Procs |-> IF get[p] = None THEN None
                             ELSE [get[p] EXCEPT !.cleared = TRUE]]
  /\ UNCHANGED <<clock, deletes, loop, damaged>>

\* UpdateExpiration of a key that is there.
UpdateExpiration(k, ttl) ==
  /\ c.items[k] # None
  /\ c' = WithExpiration(c, k, ttl)
  /\ UNCHANGED <<clock, get, deletes, loop, damaged>>

SetMaxBytes(limit) ==
  LET s == [c EXCEPT !.maxBytes = limit]
  IN  /\ c' = IF limit > 0 THEN evict(s) ELSE s
      /\ UNCHANGED <<clock, get, deletes, loop, damaged>>

\* cleanupLoop, a tick.  A tick that was pending when Close stopped the ticker
\* may still be served before the closed channel.
CleanupTick ==
  /\ loop # "exited"
  /\ c' = evict(c)
  /\ loop' = IF loop = "open" THEN "open" ELSE "exited"
  /\ UNCHANGED <<clock, get, deletes, damaged>>

CleanupExit ==
  /\ loop = "draining"
  /\ loop' = "exited"
  /\ UNCHANGED <<c, clock, get, deletes, damaged>>

Close ==
  /\ loop = "open"
  /\ loop' = "draining"
  /\ UNCHANGED <<c, clock, get, deletes, damaged>>

ClockTick ==
  /\ clock < MaxTime
  /\ clock' = clock + 1
  /\ UNCHANGED <<c, get, deletes, loop, damaged>>

Step ==
  \/ \E p \in Procs :
       GetMove(p) \/ \E k \in Keys : GetExpired(p, k) \/ GetRead(p, k)
  \/ \E k \in Keys, ttl \in TTLs :
       \/ UpdateExpiration(k, ttl)
       \/ \E v \in Values : SetUpdate(k, v, ttl) \/ SetInsert(k, v, ttl)
  \/ \E k \in Keys : Delete(k) \/ AsyncDelete(k)
  \/ \E limit \in Limits : SetMaxBytes(limit)
  \/ Clear \/ CleanupTick \/ CleanupExit \/ Close
  \/ ClockTick

Damaged == damaged /\ UNCHANGED vars

Next == (~damaged /\ Step) \/ Damaged

Spec == Init /\ [][Next]_vars

\* The ticker of an open cache fires again and again.
FairSpec == Spec /\ WF_vars(~damaged /\ CleanupTick)

-----------------------------------------------------------------------------
CacheType ==
  [nxt : [Nodes -> Nodes \cup {None}], prv : [Nodes -> Nodes \cup {None}],
   own : [Elems -> BOOLEAN], len : Nat,
   entry : [Elems -> [k : Keys, v : Values] \cup {None}],
   items : [Keys -> Elems \cup {None}], expires : [Keys -> Nat \cup {None}],
   usedBytes : Nat, maxBytes : Limits]

TypeOK ==
  /\ c \in CacheType
  /\ clock \in 0..MaxTime
  /\ get \in [Procs -> [key : Keys, elem : Elems, cleared : BOOLEAN] \cup {None}]
  /\ deletes \in [Keys -> 0..MaxDeletes]
  /\ loop \in {"open", "draining", "exited"}

Present == PresentIn(c)

\* The list and the map hold the same elements, each under the key of its
\* entry, and the links are inverse to each other, unless a Get has moved an
\* element of a dropped list: no other late MoveToBack brings an element back
\* that was deleted, or replaced by a new one for the same key, in the meantime
\* (lines 78-84 and 173-178).
ListMatchesItems ==
  TypeOK /\ (~damaged =>
    /\ c.len = Cardinality(Present)
    /\ \A k \in Present : c.own[c.items[k]] /\ c.entry[c.items[k]].k = k
    /\ \A e \in {Root} \cup Items :
         c.nxt[e] \in {Root} \cup Items /\ c.prv[c.nxt[e]] = e)

\* Get looks its key up again, not its element (lines 80-83).  Only a Clear
\* between its two parts lets it move an element that is no longer in the map to
\* the back: a deletion or an eviction, with or without a new Set of the key, does
\* not.
MovesOnlyPresent ==
  [][\A p \in Procs :
       get[p] # None /\ get'[p] = None /\ c'.prv[Root] # c.prv[Root]
         => get[p].elem \in Items \/ get[p].cleared]_vars

\* What removeElement takes off for a key.
Bytes(s, k) == KeyLen + Size[s.entry[s.items[k]].v]

\* usedBytes is the sum over the entries, and only present keys have an
\* expiration, through updates, evictions and deletions by anyone (lines 104-126
\* and 173-178).
Accounting ==
  /\ c.usedBytes = MapThenSumSet(LAMBDA k : Bytes(c, k), Present)
  /\ \A k \in Keys : c.expires[k] # None => k \in Present

OverLimit == Exceeds(c)

\* An open cache that holds more than maxBytes is brought back below the limit
\* sooner or later, even if nobody inserts anything (lines 186-218).
LimitRestored == OverLimit ~> (~OverLimit \/ loop # "open" \/ damaged)

\* Only an update of a key that is there can take the cache over its limit: an
\* insertion, whatever it pushes out, or a smaller limit leaves it within (lines
\* 113-129, 198-203 and 299-307).
OverflowsByUpdate ==
  [][~OverLimit /\ OverLimit' => Present' = Present /\ c'.maxBytes = c.maxBytes]_vars
=============================================================================
