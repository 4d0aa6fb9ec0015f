# SaokaCache: TLA+ models and proofs

SaokaCache is a distributed in-memory cache in Go: a policy layer (Bloom
filter, request coalescing, random expirations) over one of two in-memory
engines, replicated to peers over gRPC and found through etcd. This directory
holds TLA+ models of its components, TLC configurations that check them on
small instances, and TLAPS proofs for all instances. `PROJECT.json` maps every
definition to the lines of code it models.

## 1. Inventory

| Component (source) | State | Operations | Hard parts | What makes it correct |
|---|---|---|---|---|
| singleflight (`singleflight/singleflight.go`) | `sync.Map` of calls, one WaitGroup per call | `Do` | Load and Store are separate; Delete by key; panics in fn | nobody waits for ever, results of the right key, the map does not leak |
| LRU2 level (`type cache` in `store/lru2.go`) | node array, index links, `hmap`, `last` | `put`, `get`, `del`, `walk`, `adjust` | links of reused nodes, tombstones | the links are a list, the map agrees with it, recency order |
| LRU2 store (`store/lru2.go`) | two levels and a lock per bucket, ticker, package clock | `Get`, `Set`, `SetWithExpiration`, `Delete`, `Clear`, `Len`, `Close`, cleanup loop | a key live in both levels; `Clear` and cleanup go from lock to lock | a map that loses only expired or reported entries |
| LRU store (`store/lru.go`) | `container/list`, `items`, `expires`, `usedBytes`, `maxBytes` | the same, an asynchronous deletion, `UpdateExpiration`, `SetMaxBytes` | `Get` changes from the read to the write lock | list, maps and byte count agree; limit kept |
| Storage layer (`cache.go`) | `store`, `initialized`, `closed`, counters | `Get`, `Set`, `SetWithExpiration`, `Delete`, `Clear`, `Close` | lazy initialisation, flags tested before a racy field is read | no nil dereference, resources released |
| Policy layer (`policy.go`, `bloom/bloom.go`) | filter bits, singleflight group | the same and `loadFromSource` | loads overlap with everything; recovered panics | values of the right key, protection of the source, calls end |
| Hash ring (`consistenthash/`) | sorted points, point-to-node map, replica counts, counters | `Add`, `Remove`, `Get`, balancer | collisions, rebalancing from counters read without the lock | next point clockwise, few keys move |
| Group registry (`group.go`) | global map of groups, `closed`, `syncWG` | `NewGroup`, `Get`, `Set`, `Delete`, `Clear`, `Close`, `DestroyGroup` | `groupsMu` re-locked; close by name | no deadlock, a group is closed once |
| Peer synchronisation (`group.go`, `server.go`, `client.go`) | requests in flight, contexts | `syncToPeers`, server handlers | cancelled contexts, missing origin mark, no order | writes reach the peers, no endless traffic |
| Discovery (`peers.go`) | clients, ring, watch | fetch, watch, `PickPeer`, `Close` | lost events, failed dials, the node's own address | registered nodes are known |
| Registration (`registry/register.go`, `server.go`) | lease, stop channels | `Register`, `Start`, `Stop` | expired lease, restart within the old lease, wrong channel | registered while alive, not after |
| ByteView, utils, pb, example | none | pure or generated code | | |

Calls go downwards: Group -> CachePolicy -> (Bloom filter, Cache -> Store,
singleflight -> loader). The loader of a group is `peerAwareGetter`, which asks
the ring for the owner and calls its gRPC server, or the user's getter. Writes
are also sent to all peers by goroutines of their own. Each engine has a
background goroutine of its own; the ring has a balancer.

## 2. Modules

| Module | Models | Notes |
|---|---|---|
| `Singleflight` | `Group.Do` | one action per atomic step: `Do`, `LoadHit`/`LoadMiss`, `Store`, `FnEnd`, `Done`, `Delete`, `Wait`, `Return`, `Leave` |
| `SingleflightProofs` | | inductive invariant and theorems |
| `LevelOps` | `put`, `get`, `del` as functions on a list | shared by `LRULevel` and `LRU2Store` |
| `LRULevel` | abstract level: a bounded recency list | implemented by `LRUList` |
| `LRUList` | `type cache` with arrays, links and `hmap` | refinement mapping `Chain` follows the next links |
| `CacheStore` | abstract store: a lossy map that returns the latest value or nothing and reports losses | implemented by `LRU2Store` without expirations |
| `LRUListProofs` | | the links and the map of a level, and the refinement of `LRULevel` |
| `LRU2Store` | `lru2Store` | Get/Set/Delete atomic under the bucket lock; Clear, cleanup stepwise |
| `LRU2StoreProofs` | | inductive invariant, theorems, and the refinement of `CacheStore` |
| `LRUCache` | `lruCache` | `container/list` is external and modelled with its links, since a stale `MoveToBack` depends on them; `evict` is as many turns of `evictOne` as the list is long |
| `LRUCacheProofs` | | sums over finite sets, rings, inductive invariant and theorems |
| `CachePolicy` | `CachePolicy`, `Cache`, `BloomFilter` | composes `Singleflight` by `INSTANCE`; each test of a flag is a step of its own |
| `CachePolicyProofs` | | inductive invariants and theorems |
| `PeerNodes` | | the constants that `ConsistentHash` and `Membership` share |
| `ConsistentHash` | `consistenthash.Map` | Add, Remove, Get and the balancer; its formulas are `RingInit`, `RingNext`, `RingSpec`, so that a module can extend it together with `Membership` |
| `Groups` | the registry and the life of a `Group` | `groupsMu`, the compare-and-swap of Close, `syncWG` with its waiting goroutine; a WaitGroup that is used again too early panics, as in Go |
| `GroupsProofs` | | inductive invariant and theorems |
| `Cluster` | one key on several nodes: `peerAwareGetter`, `syncToPeers`, the server's handlers | `Peers` and `Pick` are what `PickAllPeers` and `PickPeer` return; a node's cache is one value or a miss; one load per node, which is an idealisation (below) |
| `ClusterProofs` | | inductive invariant and theorems |
| `Membership` | `registry.Register`, `Server.Start`/`Stop`, `ClientPicker` | etcd is external: keys with leases, watches in order, delete events without a value |
| `PeersProofs` | | theorems about the two halves of a `ClientPicker`: the ring (`ConsistentHash`) and discovery (`Membership`) |
| `MC...` | | values of constants, symmetry |

Abstractions. Keys, values, goroutines and heap objects are model values; an
expiration is a small integer, and `noExpiration` is larger than all times.
`Cache` sees the engines as a map that may forget anything at any time
(`Forget`), which covers expiration, eviction, jitter and cleanup. `c.store` is
read without a lock while `Close` writes it, a data race on a two-word interface
value: whichever mixture of old and new words is read, the call either works
on the old store or panics, and these are the outcomes of the model. Hash values
are small integers. The ratios of the balancer are compared and truncated as
integer fractions. The filter of an instance (`hash`) is chosen at the start from
`Filters` and never changes. Heap objects that nothing refers to any more are used again: list elements in
`LRUCache` (`Collect`), calls in `Singleflight` (`Return`). Counters that are only reported (hits, misses, stats) are
left out. `Lookup` in `LRU2Store` is what a Get would return.

History variables, which no action reads: `produced` (Singleflight), `latest`,
`until`, `got`, `evicted` (LRU2Store), `written`, `closing` (CachePolicy),
`.cleared` of `get` (LRUCache), `.late` (Groups), `written` (Cluster; `writes` is a
bound), `.missed` (Membership).

How the modules fit. `Cluster` takes from `CachePolicy` and `Singleflight` that a
Get that misses becomes the leader or a waiter of a load and that a load whose fn
ends lets its waiters go (`WaitersHaveLeader`, `DoReturns`). It has one load per node
at a time, which is an idealisation: run `Singleflight_once` shows that two may
overlap. A second load would be another call with waiters of its own that nobody
else waits for, so `WaitersHaveLoad` and `GetsEnd` do not depend on it; how often the
getter is called would, and nothing is claimed about that. It also takes what
`Membership` says about who knows whom (its instance has a node that others have
missed and one that is its own peer) and what `ConsistentHash` says about the
ring (each node picks the next point among the peers it has). `Groups` has the
part of Set and Delete that concerns Close.

In `LRUCache` a Get whose element was dropped by Clear can move it into the
neighbourhood of the new list (`list.Init` leaves the dropped elements marked as
members). What the list looks like then depends on stale links; `damaged` marks
it and the model ends there. `MovesOnlyPresent` says that Clear is the only way; it
looks at the back of the list, `prv[Root]`, because a Get that ends may also let
`Collect` clean the links of a dropped list, which is no move.

In `ConsistentHash` a node is added only when the ring does not have it: the
only caller, `peers.go`, looks into its client map first (the first fetch sees
every etcd key once). `sort.Ints`, the loop of `removeNode` over the points of a node
and the loop of `rebalanceNodes` over the nodes are recursive functions (`SortInts`,
`Without`, `Replaced`), which the proofs can follow turn by turn. `Distance` is
measured on a circle of `MaxHash + 1` hash values.

Definitions marked "A bug" are variants of the definition below
them with a plausible mistake. They are not part of any specification; replacing
the original by the variant must break the property named in `PROJECT.json`.

## 3. Runs

Passing runs:

| Run | Instance | Shows |
|---|---|---|
| `Singleflight` | 3 goroutines, 1 key, 3 calls | types, `ReturnsProduced`, `PublishedCallsAreLed`, `WaitersHaveLeader`, and `DoReturns` under fairness |
| `LRUList` | 4 keys, 2 values, capacity 3 | `StructureOK` (`LinksInverse` and `IndexMatches`), refinement of `LRULevel` |
| `LRU2Store_map` | 3 keys, a bucket of 2 + 1 slots, one Clear, no expirations | `Level1TombstonesLast`, `ClearForgets`, refinement of `CacheStore` |
| `LRU2Store_ttl` | 2 keys, a bucket of 1 + 1 slots, times 0..1 | `Level1IsLatest`, `StaleOnlyAfterExpiry`, `NoSilentLoss`, `CleanupSparesValid`, and `ExpiredReclaimed` under fairness |
| `CachePolicy` | 2 goroutines, 1 key, all operations, both filters | `CrashOnlyAfterClose`, `GetReturnsWritten`, `CloseReleases`, and `CallsEnd` under fairness |
| `LRUCache` | 1 Get, 2 keys, 3 list elements, limits 0 (none) and 2, times 0..2 | `ListMatchesItems`, `Accounting`, `MovesOnlyPresent`, `OverflowsByUpdate`, and `LimitRestored` under fairness |
| `ConsistentHash` | 3 nodes, 1..3 virtual nodes each, one hash shared by two nodes | `Clockwise`, `OnlyAffectedKeysMove` |
| `Groups` | 2 goroutines, 2 names, 2 groups (one with peers), 2 synchronisations | `OpenGroupIsFound`, `ClosedIsGone`, `OnlyLateSyncsSurvive`, and `CallsReturn` under fairness |
| `Cluster` | 3 nodes (two ask each other, one itself), 1 value, 2 writes, 2 calls under way | `WaitersHaveLoad`, `SetsDoNotEcho`, and `GetsEnd`, `SetsDrain` under fairness |
| `Membership` | 2 nodes, one given as ":port", 2 starts each | `KnownOrMissed`, `AliveIsRegistered` |

Every module has a type invariant `TypeOK` (`RingTypeOK` in `ConsistentHash`); where it is not listed by itself it is
a conjunct of the module's first invariant.

Runs that find a violation. Each states what a comment of the repository says and
shows that the code does otherwise ("findings" in `PROJECT.json`). They are about the
two disagreements that take several actors and an order of steps that the code does
not show at a glance:

| Run | Property | Instance | Counterexample |
|---|---|---|---|
| `Singleflight_once` | `OneExecution` | 2 goroutines, 1 key | both callers Load before either Stores; fn runs twice at once |
| `Cluster_deletes` | `DeletesDrain` | 2 nodes | clients Delete at both nodes; each serves the other's Delete and synchronises it back, for ever |

The other disagreements can be read off a definition of the model. The properties of
the passing runs do not call them correct: they say how far each of them goes.

| The repository says | The model shows | What does hold |
|---|---|---|
| The filter stops requests of keys that do not exist (`README.md:54`), it is kept in step with the cache (`policy.go:117`), and the example reads back a key it has Set (`example/test.go:67-92`) | `Set` leaves the filter alone, and `Add` is only reached by a Get that the filter has let through: a Get of a key that was just Set is rejected | Nothing. Theorem `EveryGetIsRejected`: with any hash function at all, every Get is rejected for ever |
| Nodes that go offline are removed (`README.md:61`, `README_EN.md:61`) | A delete event has no value and `HandleDelete` looks for a client under the value, so the peer stays | Nothing. Theorem `PeersAreNeverRemoved` |
| A placeholder protects the source (`policy.go:106`, `README.md:54`) | `GetMiss` and `FnDoubleMiss` take it for a miss and load again | `GetReturnsWritten`: it is not taken for a value |
| A miss is loaded from the source (`policy.go:48`) | In a fresh cache the double check dereferences a store that does not exist yet (`FnDoublePanic`); singleflight recovers it and Get returns an error | `CallsEnd` |
| Close releases the resources (`cache.go:188`) | A Set that has passed the test of `closed` makes a new store that nobody closes (`SetInit`) | `CloseReleases`: only a Set that is already there can do this |
| Get checks again that the element exists (`lru.go:80`) | It looks up the key; after a Clear and a Set it moves an element of the dropped list (`GetMove`) | `MovesOnlyPresent`: it takes a Clear |
| A goroutine deletes the expired entry (`lru.go:67`) | It deletes whatever the key holds by then, a newer value included (`AsyncDelete`) | `ListMatchesItems`, `Accounting` |
| DestroyGroup destroys a group (`group.go:377`) | It holds `groupsMu` and calls Close, which locks it (`SelfLocked`); from then on no call that needs the registry returns | `CallsReturn`: nothing else keeps a call from returning |
| Close waits for all synchronisations (`group.go:297`) | `SyncAdd` may come after Close has found the counter at zero; the synchronisation outlives Close, or makes the waiting goroutine panic | `OnlyLateSyncsSurvive`: what was added before is waited for; theorem `OnlyLateAddsPanic` |
| GetGroup finds a group by its name (`group.go:165`) | `Unregister` deletes by name and may remove the open group that has replaced the closed one | `OpenGroupIsFound`: only names given twice are lost |
| On Stop the lease is revoked (`registry/register.go:72`) | `Stop` closes a channel that Register does not listen to; the lease is kept alive | `AliveIsRegistered` |

What the models say beyond this, for a reader of the properties:

- Gets reach the store through a filter of zero hash functions only
  (`OpenFilter`), what `NewBloomFilter` makes of a false positive rate of one;
  `GetReturnsWritten` and the rest of what a Get may do are checked with that one.
- A call that races Close may read the store after Close has set it to nil, and
  panic (`GetCrash`, `SetCrash`). Nothing in the repository says what such a call
  may expect; `CrashOnlyAfterClose` says that no other call panics.
- An empty value loaded from a peer arrives as a nil slice (`FnEmpty`): the Get that
  loaded it succeeds, and every later one takes the stored view for the placeholder
  and loads again.
- Cleanup deletes an expired key from both levels, so it takes a valid value in
  level 1 along when level 2 has an expired older copy. `CleanupSparesValid` says
  that this is the only case.
- An update of an existing key does not evict; `OverflowsByUpdate` says that
  nothing else exceeds the limit, `LimitRestored` that the loop repairs it.
- When two nodes share a hash, removing or rebalancing one of them leaves a
  point without a node, and Get returns "" there; `Clockwise` says that this
  happens to shared hashes only.
- `StaleOnlyAfterExpiry` permits what the code does: a value that was promoted to
  level 2, then overwritten in level 1, comes back when the newer one expires.
- A Set that is synchronised may be lost at every peer, as its context is
  cancelled when the goroutine that starts the calls returns; and calls are not
  ordered. So nothing is said about agreement between nodes.
- The rings never contain their own node, so the owner of a key is another node for
  everyone, and two nodes ask each other; a timeout of three seconds ends that
  (`GetsEnd`).
- A node whose keep-alive has failed is not registered again (`GiveUp`).
- The balancer changes only nodes with a request counter (`Counted`); an idle
  node keeps its number of virtual nodes.

Bounds. Two or three goroutines are enough for every pair of steps to
interleave, with a third to wait; capacities of one to three slots against one
key more make evictions, tombstone reuse and promotion happen. In `LRU2Store` an
entry expires when the clock reaches its time, so times 0..1 with expirations
of 1 separate "valid", "expired" and "set with an older clock"; `LRUCache`
compares strictly and needs 0..2. The buckets of `LRU2Store` share nothing but the
clock (which the wall clock is assumed not to set back) and the two loops that visit them in turn; the runs let all keys contend
for one. `MaxTime`, `MaxClears`, `MaxDeletes` and `MaxRequests` bound counters
that are otherwise unlimited; `MinSample` replaces the 10000 requests of the
balancer. `MaxSyncs`, `MaxWrites`, `MaxCalls` and `MaxStarts` bound what two
goroutines or nodes can have under way: two synchronisations let one end while
another is added, two starts let a process restart within its old lease, two
calls let an echo cross another write. Symmetry is used only in runs without liveness properties, on sets
whose members the definitions do not tell apart.

Deadlock checking is on except in `Groups`, where the registry may lock up for
good (`SelfLocked`) or the process panic, and `Membership`, where all processes may
have gone down for the last time.

Fairness. `Singleflight` and `CachePolicy`: weak fairness of the steps of each
goroutine inside a call, which Go's scheduler gives to runnable goroutines, and
which for fn and the loader is the assumption that they return; beginning a
call is not fair. `LRU2Store` and `LRUCache`: weak fairness of the ticker and
of the cleanup loop that serves it, as long as the store is open; `sync.Mutex`
does not starve a waiter. `Groups`: weak fairness of the steps of a goroutine and
of timers, strong fairness of those that need `groupsMu`; none of the calls to
peers, which may hang. `Cluster`: a load's call ends by its timeout at the latest
and a getter returns; a synchronisation is served or lost. No fairness for
callers, clocks or faults; `Membership` assumes none.

## 4. Proofs

Every theorem holds for all values of the constants that satisfy the named
assumption of its module (special values are distinct, functions have their
domains, bounds are natural numbers, capacities are at least one). None of the
bounds of section 3 is used in an argument. A safety property is proved from an
inductive invariant; what it adds to the property is given here, since that is
what the code relies on without saying so.

**`SingleflightProofs`** (`SFAssumption`). That a waiter has a leader needs that a
call whose counter is one belongs to exactly one goroutine at `store`, `fn` or
`done`, that an unpublished call is known to its creator only, and that a
finished call has a result that some fn for the key of its creator produced.
`Invariance` proves the conjunction inductive, one step per action; `TypeCorrect`,
`DoReturnsProduced`, `NoOrphanedCall` and `NoAbandonedWaiter` follow.

**`CachePolicyProofs`** (`PolicyAssumption`).
`OpenCacheNeverCrashes`: while `closed` is false, `initialized` implies a store,
and whoever stands before a dereference has seen `initialized`; Close sets
`closed` before it touches the store. `EveryGetIsRejected`, the extent of
a defect: if every key has at least one bit, the filter is empty and nobody is past `Contains`; each
implies that the other stays so, and the hash functions never change.
`CloseReleasesStore`: once Close has ended with nobody at `ensureInitialized`,
nobody gets there any more, since `SetOpen` tests `closed`. `GetIsTruthful` needs
that a call on its way to `Do` has a key, and singleflight from the inside: that the value a
waiter receives belongs to its own key needs that a call serves one key as long
as anyone refers to it (`OneKey`), for which a leader must have its call to
itself (`DoLeads`); on top of that, the store, the calls and the values in the
hands of goroutines are all good for their key. The theorems of
`SingleflightProofs` cannot be cited here, because they are about another
instance of the module; `DoInv` is the part that is needed, proved again.

**`LRUListProofs`** (`LRUListAssumption`). `StructureOK` is not inductive: links
that are inverse to each other may still leave the sentinel alone, and then `put`
would reuse the sentinel as if it were the tail. `HeadInUse` excludes that. The
proof follows the assignments of `adjust` one by one: `Unlinked` joins the
neighbours, `Relinked` puts the node between the sentinel and the first one, and
both preserve that the links are inverse (`LevelStructure`).

`LevelRefinement` shows that the array, the links and the map of a level implement the
list of `LRULevel`. Inverse links may fall apart into several cycles, so the invariant
gets a path (`PathOK`): an enumeration of the nodes in use, without repetition, in
which each one's next link leads to the following one. What `adjust` and `put` do is a
reordering of the path, given explicitly (`HeadFrom`, `TailFrom`, and one more node in
front), so that each step is checked link by link instead of by induction along the
links. `Chain`, the refinement mapping, lists the entries along the path
(`ChainIsAlong`); `put` of a present key, `put` into a free slot, `put` that reuses the
tail, `get` and `del` then do to the list what `LevelOps` says (`PutUpdateRefines` and
its siblings), outputs included.

**`LRU2StoreProofs`** (`LRU2Assumption`), in three layers.

- Sequences: what moving to the front, replacing the last entry and marking an
  entry do to the set of entries, to the distinctness of keys and to the place of
  the tombstones. The loops over a bucket (`ExpiredIn`, `DeleteAll`) are recursive
  functions on `0..n`; that they exist and what they return is proved with a least
  index at which the claim fails (`Least`), as the library's induction rules
  cannot be applied.
- Levels: from there on a level is the relation `Holds(list, k, v)`; `PutFacts`, `Sets`,
  `Promotes`, `Drops`, `Without` and `Cleans` say what each operation does to it.
- The store. `StoreInv` has, besides types and capacities: level 1 holds the latest
  value of a key or none, and a copy in level 2 that is not the latest is hidden
  behind one in level 1 unless the latest one's time is over (`KeyOK`); a Clear
  under way has collected every key of the buckets it has passed, or the key was
  set since (`Collected`); cleanup's time is not ahead of the clock. All steps but
  Set only move values down a level (`Moves`), which preserves `KeyOK`.

`Level1HasLatest`, `OnlyExpiredIsStale`, `TombstonesStayLast` and `ClearLeavesOnlyNew`
follow. `NothingLostSilently` and `CleanupTakesExpired` are action properties, proved
step by step from `StoreInv`. `StoreRefinement` shows that the store implements
`CacheStore` if nothing expires (`TTLs \subseteq {0}`, the instance of run
`LRU2Store_map`). The hypothesis is needed: with expirations an older copy in level
2 comes back, and the store is no such map.

**`LRUCacheProofs`** (`LRUCacheAssumption`), also in layers.

- Sums. `Accounting` uses the library's sum over a set, a recursive function on its
  subsets; that the function exists, and that the sum of a finite set grows by the
  weight of what is added, whichever member is taken first, is proved with a
  smallest counterexample (`SumExists`, `SumAny`, `SumAdd`).
- Rings. Inverse links are not enough for `evict`: the sentinel could be a ring of its
  own while elements remain, and the loop over `Front` would not reach them.
  `IsRing` adds that every part of the list that contains the sentinel and is closed
  under `nxt` is the whole list (`OneRing`); unlinking and linking preserve it
  (`UnlinkRing`, `LinkRing`), and a list that is not empty has an element in front
  (`FrontIsElement`).
- Operations. `CacheOK` joins the ring, the maps, the length and the bytes. One lemma
  for each operation says that it leaves a cache in order (`RemoveOK`, `MoveOK`,
  `InsertOK`, `UpdateOK`, `ExpirationOK`, `LimitOK`, `ClearOK`, `CollectOK`). Each turn of
  `evict` removes one element or changes nothing and is within the limit, so that
  `len` turns suffice (`EvictOK`).
- Steps. `LRUInv` adds that the element in the hands of a Get is in the list or, if it was
  removed, no longer marked as a member (`Tame`), unless Clear was called in the
  meantime: `MoveToBack` then leaves the list alone. An element that PushBack
  allocates must not be one that a Get still holds.

`ListAndMapAgree` and `BytesAreCounted` follow; `GetsMovePresent` and
`OnlyUpdatesOverflow` are action properties, proved step by step.

**`GroupsProofs`** (`GroupsAssumption`). `ClosedIsGone` is not inductive, since any
goroutine that works on a closed group satisfies it; `CloserRemains` names the one
that closes it. A Destroy call holds `groupsMu`, so that the names it has still to do
stay registered (`Knows`); a new group is known to its NewGroup only.
`CloseWaitsForSyncs` needs that the waiting goroutine exists only after the
compare-and-swap and that, without a late Add, the counter is zero from the moment
the goroutine is woken (`WaiterIsRight`). `OnlyLateAddsPanic` is about the process: a
WaitGroup panics only in a group to which a synchronisation was added after
Close had begun.

**`ClusterProofs`** (`ClusterAssumption`). `WaitersHaveLoad` needs `AskedIsPick`: a call
waits only at the peer it went to, which is where a timeout looks for it. Calls under
way are a bag; `SetsStayLocal` uses only what can be in it.

**`PeersProofs`**, the ring (`RingAssumption`: finitely many nodes, replica limits of at
least one, any hash function into `0..MaxHash`, collisions included).

- Points. Two virtual nodes may have the same hash, so `keys` is a sequence with
  repetitions, and removing "the first occurrence" may take the point that another
  node appended. Instead of counting occurrences, the invariant says that the
  positions of `keys` can be labelled one to one with the virtual nodes of the members
  (`PointsOf`); since two positions with the same point may exchange their labels
  (`Relabel`), removing any occurrence will do. Insertion, sorting, appending and
  removing keep a labelling, and removing keeps the order (`InsertOne`, `SortPoints`,
  `AppendPoints`, `WithoutPoints`). The recursive functions are handled as in
  `LRU2StoreProofs`: they exist (`RunExists`), and a claim about every turn follows from
  a least one at which it fails (`Counting`).
- The ring. `RingOK`, which also holds between two turns of a rebalancing: `keys` has
  the points of the members' virtual nodes; a node in `hashMap` has a virtual node at
  that point (`Held`); a point that no two nodes share is mapped to its node (`Mapped`).
  `RemoveNode`, `AddNode`, `SortedRing` and `ReplacedRing` preserve it, the last one for
  every order of the nodes.
- `RingInv` adds that `keys` is ascending between the operations, that no counter is
  ahead of the total, and that the total is at least `MinSample` while the balancer is
  at work, since only the balancer resets it: this is why it never divides by zero
  (`NewReplicas`).
- `PointIsNearest`: on ascending keys the search, with its wrap to the first point,
  finds the virtual node at the least clockwise distance. `KeysGoClockwise`
  (`Clockwise`) follows from `Held` and `Mapped`. `KeysMoveMinimally`
  (`OnlyAffectedKeysMove`) is an action property: after `Add` the next point is a new
  one or was the next one before; after `Remove` the next point stays unless it was
  the removed node's (`AddMoves`, `RemoveMoves`); rebalancing keeps the members.

**`PeersProofs`**, discovery (`MembershipAssumption`). `RegisteredIsKnownOrMissed` has to hold
from the fetch on (`Tracked`), otherwise Watch could begin with an address that
was neither found nor missed. `LeaseOfTheLiving`: the lease of a process carries the
number of its start, and expiry removes the key of an older start only.
`PeersAreNeverRemoved` is an action property, the extent of a defect.

Only model-checked:

- liveness (`DoReturns`, `ExpiredReclaimed`, `CallsEnd`, `LimitRestored`, `CallsReturn`,
  `GetsEnd`, `SetsDrain`): fairness is outside the prover's reach.

Every safety property of the passing runs, and every refinement, is proved.

## 5. Not modelled

- Generated code (`pb/`), TLS and option set-up, connections, `ByteView`, address
  validation, the example program.
- Statistics (hits, misses, loads), which nothing but the Stats calls reads.
- The floating point sizing of the filter; the 16 bit edges of `Create` and of the
  bucket mask (capacity 65535, more than 32768 buckets).
- `GetWithExpiration` of the LRU engine, which nothing calls: it moves elements
  under the read lock, a data race between two such calls.
- Goroutine and option leaks: the cleanup goroutine that outlives the ticker of a
  closed LRU2 store, the watch loop that spins when etcd closes its channel, and
  `NewServer`, which applies its options to the shared defaults.
- Time: a dial of up to ten seconds runs under the picker's lock.
- `RegisterPeers`, which sets a field once, before requests are served.
- The order in which a load and a Set or Delete of the same key take effect: a
  load that began earlier may overwrite the newer value. The models have the
  interleavings; nothing in the repository says which one should win.

## 6. Plan

Done, in this order: Singleflight; LRUList and LRU2Store; CachePolicy with the
storage layer and the filter; LRUCache; ConsistentHash; Groups; Cluster;
Membership. Proved: the safety properties of all of them, and the refinements of
LRULevel by LRUList and of CacheStore by LRU2Store.

Left: liveness, which only TLC checks; and the parts of section 5.
