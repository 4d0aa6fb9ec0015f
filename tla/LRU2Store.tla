----------------------------- MODULE LRU2Store ------------------------------
(***************************************************************************)
(* The two-level store of store/lru2.go, the default engine.               *)
(*                                                                         *)
(* Every key hashes to a bucket with a lock and two levels: new values go  *)
(* to level 1, a Get moves them to level 2, and so does the eviction from  *)
(* level 1.  The same key can be live in both levels at once.              *)
(*                                                                         *)
(* Get, SetWithExpiration and Delete hold one bucket lock from start to    *)
(* end and are atomic; Clear and the cleanup loop take the bucket locks    *)
(* one after the other, so other calls run between their steps.  The       *)
(* package clock is read before the lock by SetWithExpiration, and once    *)
(* per pass by the cleanup loop.                                           *)
(***************************************************************************)
EXTENDS LevelOps, FiniteSets

CONSTANTS
  Keys,     \* cache keys
  Values,   \* values
  None,     \* nil: no value
  NBuckets, \* mask + 1
  Bucket,   \* Bucket[k]: hashBKRD(k) & mask, counted from 1
  Cap1,     \* CapPerBucket
  Cap2,     \* Level2Cap
  TTLs,     \* expirations callers ask for; 0: never expires
  MaxTime,  \* bound on the clock
  MaxClears \* bound on the number of Clear calls

ASSUME LRU2Assumption ==
  /\ NBuckets \in Nat \ {0} /\ Cap1 \in Nat \ {0} /\ Cap2 \in Nat \ {0}
  /\ TTLs \subseteq Nat /\ MaxTime \in Nat /\ MaxClears \in Nat
  /\ Bucket \in [Keys -> 1..NBuckets]
  /\ None \notin Values

VARIABLES
  lv,       \* lv[b][1], lv[b][2]: the levels of bucket b
  clock,    \* the package clock, moved forward by the goroutine of init
  stopped,  \* Close has stopped the ticker
  cleanup,  \* the cleanup loop: .next is the bucket it locks next, 0 while it
            \* waits for the ticker; .now is the time it read at the tick
  clear,    \* a Clear call: .next as above, NBuckets + 1 in the delete loop;
            \* .keys is keySet; history: .since, the keys set since it began,
            \* and .calls, the number of Clear calls so far
  latest,   \* history: latest[k] is the value k was last set to, None after
            \* a Delete
  until,    \* history: until[k] is when that value expires
  got,      \* what the last Get returned, None after any other step
  evicted   \* the <<key, value>> pairs the last step gave to onEvicted

vars == <<lv, clock, stopped, cleanup, clear, latest, until, got, evicted>>

Buckets == 1..NBuckets

\* noExpiration, the largest int64: later than any time that is computed.
noExpiration == MaxTime + 1000

Init ==
  /\ lv = [b \in Buckets |-> <<<<>>, <<>>>>]
  /\ clock = 0
  /\ stopped = FALSE
  /\ cleanup = [next |-> 0, now |-> 0]
  /\ clear = [next |-> 0, keys |-> {}, since |-> {}, calls |-> 0]
  /\ latest = [k \in Keys |-> None]
  /\ until = [k \in Keys |-> noExpiration]
  /\ got = None
  /\ evicted = {}

Expired(e, now) == e.v.exp # noExpiration /\ now >= e.v.exp

Entries(list) == {list[i] : i \in DOMAIN list}

\* The onEvicted arguments for the zero or one entries of out.
Report(out) == {<<e.k, e.v.val>> : e \in Entries(out)}

-----------------------------------------------------------------------------
\* Get, level 1 holds the key but the value has expired: it is dropped.
GetExpired(k) ==
  LET b == Bucket[k]
  IN  /\ Live(lv[b][1], k)
      /\ Expired(DelOut(lv[b][1], k)[1], clock)
      /\ lv' = [lv EXCEPT ![b][1] = DelList(@, k)]
      /\ got' = None
      /\ evicted' = {}
      /\ UNCHANGED <<clock, stopped, cleanup, clear, latest, until>>

\* A bug: what level 2 evicts is not reported.
GetLevel1Silent(k) ==
  LET b == Bucket[k]
      e == DelOut(lv[b][1], k)[1]
  IN  /\ Live(lv[b][1], k)
      /\ ~Expired(e, clock)
      /\ lv' = [lv EXCEPT ![b] = <<DelList(@[1], k), PutList(@[2], Cap2, k, e.v)>>]
      /\ got' = e.v.val
      /\ evicted' = {}
      /\ UNCHANGED <<clock, stopped, cleanup, clear, latest, until>>

\* A bug: an old copy in level 2 is kept.
GetLevel1Keeps(k) ==
  LET b == Bucket[k]
      e == DelOut(lv[b][1], k)[1]
  IN  /\ Live(lv[b][1], k)
      /\ ~Expired(e, clock)
      /\ lv' = [lv EXCEPT ![b] = <<DelList(@[1], k), IF Live(@[2], k) THEN @[2]
                                                   ELSE PutList(@[2], Cap2, k, e.v)>>]
      /\ got' = e.v.val
      /\ evicted' = IF Live(lv[b][2], k) THEN {} ELSE Report(PutOut(lv[b][2], Cap2, k))
      /\ UNCHANGED <<clock, stopped, cleanup, clear, latest, until>>

\* Get, level 1 holds the key: move it to level 2.
GetLevel1(k) ==
  LET b == Bucket[k]
      e == DelOut(lv[b][1], k)[1]
  IN  /\ Live(lv[b][1], k)
      /\ ~Expired(e, clock)
      /\ lv' = [lv EXCEPT ![b] = <<DelList(@[1], k), PutList(@[2], Cap2, k, e.v)>>]
      /\ got' = e.v.val
      /\ evicted' = Report(PutOut(lv[b][2], Cap2, k))
      /\ UNCHANGED <<clock, stopped, cleanup, clear, latest, until>>

\* Get, level 1 does not hold the key: _get on level 2, which moves what it
\* finds to the head.  (The clock does not run backwards, so the second check
\* for expiration in Get never finds what _get has let through.)
GetLevel2(k) ==
  LET b == Bucket[k]
      found == GetOut(lv[b][2], k)
  IN  /\ ~Live(lv[b][1], k)
      /\ lv' = [lv EXCEPT ![b][2] = GetList(@, k)]
      /\ got' = IF Live(lv[b][2], k) /\ ~Expired(found[1], clock)
                THEN found[1].v.val ELSE None
      /\ evicted' = {}
      /\ UNCHANGED <<clock, stopped, cleanup, clear, latest, until>>

Get(k) == GetExpired(k) \/ GetLevel1(k) \/ GetLevel2(k)

\* SetWithExpiration: t0 is the clock as the caller read it before it got the
\* lock.  What level 1 evicts goes to level 2, what level 2 evicts is reported.
SetWithExpiration(k, val, ttl, t0) ==
  LET b   == Bucket[k]
      v   == [val |-> val, exp |-> IF ttl > 0 THEN t0 + ttl ELSE noExpiration]
      ev  == PutOut(lv[b][1], Cap1, k)
  IN  /\ lv' = [lv EXCEPT ![b] =
                  <<PutList(@[1], Cap1, k, v),
                    IF ev = <<>> THEN @[2] ELSE PutList(@[2], Cap2, ev[1].k, ev[1].v)>>]
      /\ evicted' = IF ev = <<>> THEN {} ELSE Report(PutOut(lv[b][2], Cap2, ev[1].k))
      /\ latest' = [latest EXCEPT ![k] = val]
      /\ until' = [until EXCEPT ![k] = v.exp]
      /\ clear' = [clear EXCEPT !.since = IF clear.next = 0 THEN {} ELSE @ \cup {k}]
      /\ got' = None
      /\ UNCHANGED <<clock, stopped, cleanup>>

\* A bug: the second level is left alone when the first one holds the key.
DeleteFirstFound(levels, k) ==
  IF Live(levels[1], k) THEN <<DelList(levels[1], k), levels[2]>>
  ELSE <<levels[1], DelList(levels[2], k)>>

\* delete: both levels; the value of level 1 is reported if there is one.
DeleteLevels(levels, k) == <<DelList(levels[1], k), DelList(levels[2], k)>>

DeleteReport(levels, k) ==
  Report(IF Live(levels[1], k) THEN DelOut(levels[1], k) ELSE DelOut(levels[2], k))

Delete(k) ==
  LET b == Bucket[k]
  IN  /\ lv' = [lv EXCEPT ![b] = DeleteLevels(@, k)]
      /\ evicted' = DeleteReport(lv[b], k)
      /\ latest' = [latest EXCEPT ![k] = None]
      /\ until' = [until EXCEPT ![k] = noExpiration]
      /\ got' = None
      /\ UNCHANGED <<clock, stopped, cleanup>>

\* The keys that walk shows the callback of Clear: those that are not deleted.
LiveKeys(list) == {e.k : e \in {x \in Entries(list) : ~x.deleted}}

-----------------------------------------------------------------------------
\* Clear collects the keys bucket by bucket, then deletes them one by one.
ClearStart ==
  /\ clear.next = 0
  /\ clear.calls < MaxClears
  /\ clear' = [next |-> 1, keys |-> {}, since |-> {}, calls |-> clear.calls + 1]
  /\ got' = None /\ evicted' = {}
  /\ UNCHANGED <<lv, clock, stopped, cleanup, latest, until>>

\* A bug: only level 1 is walked.
ClearCollectLevel1 ==
  LET b == clear.next
  IN  /\ b \in Buckets
      /\ clear' = [clear EXCEPT !.next = b + 1, !.keys = @ \cup LiveKeys(lv[b][1])]
      /\ got' = None /\ evicted' = {}
      /\ UNCHANGED <<lv, clock, stopped, cleanup, latest, until>>

ClearCollect ==
  LET b == clear.next
  IN  /\ b \in Buckets
      /\ clear' = [clear EXCEPT !.next = b + 1,
                     !.keys = @ \cup LiveKeys(lv[b][1]) \cup LiveKeys(lv[b][2])]
      /\ got' = None /\ evicted' = {}
      /\ UNCHANGED <<lv, clock, stopped, cleanup, latest, until>>

ClearDelete(k) ==
  /\ clear.next = NBuckets + 1
  /\ k \in clear.keys
  /\ Delete(k)
  /\ clear' = [clear EXCEPT !.keys = @ \ {k}]

ClearEnd ==
  /\ clear.next = NBuckets + 1
  /\ clear.keys = {}
  /\ clear' = [clear EXCEPT !.next = 0, !.since = {}]
  /\ got' = None /\ evicted' = {}
  /\ UNCHANGED <<lv, clock, stopped, cleanup, latest, until>>

\* The cleanup loop: a tick, then one bucket after the other.
CleanupTick ==
  /\ cleanup.next = 0
  /\ ~stopped
  /\ cleanup' = [next |-> 1, now |-> clock]
  /\ got' = None /\ evicted' = {}
  /\ UNCHANGED <<lv, clock, stopped, clear, latest, until>>

\* walk with the callback of the cleanup loop: the keys of the expired entries
\* of a level in list order, without those in known.
ExpiredIn(list, now, known) ==
  LET keys[i \in 0..Len(list)] ==
        IF i = 0 THEN <<>>
        ELSE IF ~list[i].deleted /\ Expired(list[i], now) /\ list[i].k \notin known
             THEN Append(keys[i - 1], list[i].k) ELSE keys[i - 1]
  IN  keys[Len(list)]

\* A bug: level 2 is not looked at.
ExpiredKeysLevel1(levels, now) == ExpiredIn(levels[1], now, {})

\* A bug: an entry of level 1 goes one tick too early.
ExpiredKeysEarly(levels, now) ==
  LET first == ExpiredIn(levels[1], now + 1, {})
  IN  first \o ExpiredIn(levels[2], now, ToSet(first))

\* expiredKeys of a bucket: level 1's, then level 2's that are not among them.
ExpiredKeys(levels, now) ==
  LET first == ExpiredIn(levels[1], now, {})
  IN  first \o ExpiredIn(levels[2], now, ToSet(first))

\* delete, for one key after the other.
DeleteAll(levels, keys) ==
  LET after[i \in 0..Len(keys)] ==
        IF i = 0 THEN levels ELSE DeleteLevels(after[i - 1], keys[i])
  IN  after[Len(keys)]

CleanupBucket ==
  LET b    == cleanup.next
      keys == ExpiredKeys(lv[b], cleanup.now)
  IN  /\ b \in Buckets
      /\ lv' = [lv EXCEPT ![b] = DeleteAll(@, keys)]
      /\ evicted' = UNION {DeleteReport(lv[b], keys[i]) : i \in DOMAIN keys}
      /\ cleanup' = [cleanup EXCEPT !.next = IF b = NBuckets THEN 0 ELSE b + 1]
      /\ got' = None
      /\ UNCHANGED <<clock, stopped, clear, latest, until>>

\* Close stops the ticker; it does not end the cleanup goroutine.
Close ==
  /\ stopped' = TRUE
  /\ got' = None /\ evicted' = {}
  /\ UNCHANGED <<lv, clock, cleanup, clear, latest, until>>

ClockTick ==
  /\ clock < MaxTime
  /\ clock' = clock + 1
  /\ got' = None /\ evicted' = {}
  /\ UNCHANGED <<lv, stopped, cleanup, clear, latest, until>>

DeleteCall(k) == Delete(k) /\ UNCHANGED clear

SetCall(k) ==
  \E val \in Values, ttl \in TTLs, t0 \in 0..clock : SetWithExpiration(k, val, ttl, t0)

Next ==
  \/ \E k \in Keys : Get(k) \/ SetCall(k) \/ DeleteCall(k) \/ ClearDelete(k)
  \/ ClearStart \/ ClearCollect \/ ClearEnd
  \/ CleanupTick \/ CleanupBucket
  \/ Close
  \/ ClockTick

Spec == Init /\ [][Next]_vars

\* The ticker of an open store fires again and again, and the cleanup
\* goroutine gets every bucket lock it asks for.
FairSpec == Spec /\ WF_vars(CleanupTick) /\ WF_vars(CleanupBucket)

-----------------------------------------------------------------------------
EntryType ==
  [k : Keys, v : [val : Values, exp : Nat], deleted : BOOLEAN]

TypeOK ==
  /\ DOMAIN lv = Buckets
  /\ \A b \in Buckets, l \in 1..2 :
       /\ Entries(lv[b][l]) \subseteq EntryType
       /\ Len(lv[b][l]) <= IF l = 1 THEN Cap1 ELSE Cap2
  /\ clock \in 0..MaxTime
  /\ cleanup \in [next : 0..NBuckets, now : 0..MaxTime]
  /\ clear \in [next : 0..(NBuckets + 1), keys : SUBSET Keys, since : SUBSET Keys,
               calls : 0..MaxClears]

\* What a Get of k would return now.
Lookup(k) ==
  LET levels == lv[Bucket[k]]
      l      == IF Live(levels[1], k) THEN 1 ELSE 2
  IN  IF Live(levels[l], k) /\ ~Expired(levels[l][At(levels[l], k)], clock)
      THEN levels[l][At(levels[l], k)].v.val ELSE None

\* A value in level 1 is the one set last: whatever stale copy level 2 holds,
\* Get looks at the current one first (lines 63-81 and 110-119).
Level1IsLatest ==
  \A k \in Keys :
    LET l1 == lv[Bucket[k]][1]
    IN  Live(l1, k) => l1[At(l1, k)].v.val = latest[k]

\* In level 1 the tombstones are behind all live entries, so Set pushes a live
\* entry out of level 1 only when no slot is free (lines 110, 272-287 and 319-324).
Level1TombstonesLast ==
  TypeOK /\ \A b \in Buckets :
    \A i, j \in DOMAIN lv[b][1] : i < j /\ lv[b][1][i].deleted => lv[b][1][j].deleted

\* A value that a Get would have returned before a step and that nothing
\* would return after it has been handed to onEvicted in that step, unless its
\* time was up or a Set has put another one in its place: promotions, evictions
\* from either level, deletions and cleanup lose nothing silently (lines 72-76,
\* 113-119 and 372-383).
NoSilentLoss ==
  [][\A k \in Keys :
       Lookup(k) # None /\ Lookup(k)' = None /\ clock' = clock /\ ~Live(lv[Bucket[k]][1], k)'
         => <<k, Lookup(k)>> \in evicted']_vars

\* When Clear returns, no key that was there when it began is left in either
\* level, whatever Get and Set moved between the levels and across the bucket
\* locks meanwhile; only keys set since can be there (lines 134-155).
ClearForgets ==
  clear.next = NBuckets + 1 /\ clear.keys = {} =>
    \A k \in Keys, l \in 1..2 : Live(lv[Bucket[k]][l], k) => k \in clear.since

\* While the store is open, an entry that has expired leaves both levels
\* sooner or later, even if nobody ever asks for it again and even if Get
\* keeps moving it to the head of level 2 (lines 388-425).
ExpiredReclaimed ==
  \A k \in Keys, l \in 1..2 :
    LET HoldsExpired ==
          LET list == lv[Bucket[k]][l]
          IN  Live(list, k) /\ Expired(list[At(list, k)], clock)
    IN  HoldsExpired ~> (~HoldsExpired \/ stopped)

\* A cleanup pass takes a value away that has not expired only if level 2 holds
\* an expired copy of an older value of its key, because it deletes the key from
\* both levels; every other valid value survives (lines 390-421).
CleanupSparesValid ==
  [][cleanup.next # 0 /\ cleanup' # cleanup =>
       \A k \in Keys :
         LET l2 == lv[Bucket[k]][2]
         IN  Lookup(k)' # Lookup(k) =>
               /\ Lookup(k)' = None
               /\ Live(l2, k) /\ Expired(l2[At(l2, k)], cleanup.now)]_vars

\* With values that never expire the two levels behave like one map that may
\* lose reported entries: Get returns the latest value or nothing.
Store == INSTANCE CacheStore WITH map <- [k \in Keys |-> Lookup(k)]

ImplementsStore == Store!Spec

\* A Get returns a value from before the latest Set only once that Set's value
\* has expired: its entry in level 1 is gone by then and an old copy in level 2
\* comes back.  Before that, no promotion, eviction, cleanup or interleaved Set
\* makes the old copy visible (lines 63-91 and 110-119).
StaleOnlyAfterExpiry ==
  \A k \in Keys : Lookup(k) \in {None, latest[k]} \/ clock >= until[k]
=============================================================================
