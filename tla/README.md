# A TLA+ model of MatrixCache

MatrixCache is an embedded cache in Rust. A `MultiLayerCache` keeps entries in
up to three tiers: a memory map, a persistent-memory (PMEM) map that is written
through to files, and an SSD block store. It places a value by a tiering
policy, evicts from each tier to its capacity, demotes what it evicts, and
brings values back up when they are read. This directory models that core,
checks it with TLC and proves with TLAPS the part the rest depends on: the
journal that decides whether bytes read outside the lock may be installed.

Source paths below are relative to `src/src/`.

## Inventory

| component | state | operations | what makes it hard |
|---|---|---|---|
| Probe journal (`runtime/builder_and_gc.rs`) | epoch, global fence, ring of 64 key hashes | note, bump, is-current, suppress | reads come back after any number of mutations; ring wrap, hash collisions, saturation |
| `CacheInner` (`runtime/multilayer_cache.rs`, `builder_and_gc.rs`) | three maps, three eviction orders, byte counters, metadata in three homes, expiries | put, evict, demote, refill, promote, invalidate, clear | loops that call each other under the lock; every error path must keep map, order, counter, index and metadata in step |
| `MultiLayerCache` | one `RwLock` around `CacheInner` | get, get_shared, acquire, put, batch calls | a read is several critical sections; a batch write weighs blocks against an index its own entries move |
| Time to live | expiry per entry, default life | put_with_ttl, sweep, purge | expiry is metadata, and must not go before the copies do |
| Pins | handles per key in 16 stripes, total | pin, unpin, acquire, release, reclaim | the total and the entries are two counters under two locks; entries are dropped under their holders |
| Tiering policy (`core/storage_config.rs`) | capacities, thresholds | decide | which tiers take which value |
| Asynchronous writeback | job queue, positions by key, one worker | submit, drain, flush, worker, shutdown | jobs leave the queue before they are written; several drains overlap; stop joins a thread that uses the cache |
| Manifests and recovery (`manifest_writer.rs`, `builder_and_gc.rs`) | append-only files, blocks | append, compact, recover | a crash between block and manifest; files an operation leaves behind |
| SSD engine (`storage_engines.rs`) | map, snapshot, journal, devices | put, delete, batch, compact, load, add and remove device | a crash inside any of them; failed appends; torn records |
| Sharded cache | a vector of caches | fan-out, split capacities | partial failure of a fan-out; no lock over the shards |
| One-tier instances (`CacheInstance`) | a cache with one tier | put, get, update in place, delete | compare and swap by identity in memory and by bytes on SSD |
| Eviction reports | two queues, two callbacks, a flag | evict, drain, set, clear | delivery outside the lock |
| Key orders, replacement (`cache_facades.rs`, `replacement.rs`) | arenas of nodes with links, lists, an insertion point | push, touch, remove, compact; SLRU, ARC | links both ways, hand-kept counts and bits, entries that cycle |
| Victim choice | window, hits, hotness, groups | select | scores move without the lock; pins fill the window |
| L2 policy, LRU facades | queues, an ARC; map, order, retired values | record, replay, write; insert, lookup, release | bounds, pauses; values removed under a handle |
| Write budget, frequency sketch | share, window; counters, window | admit, charge; record, age | arithmetic at the limits, windows that end late, threads that age at once |
| Allocators, executors | regions; queues | allocate, free, collect | collecting what is in use |
| Zoned store and GC | zones, metadata log, index | append, seal, collect, recover | an index entry into a reset zone |
| Cluster ring (`core/cluster.rs`) | members, points, prefix index | add, remove, fail, route, hand off | wrapping ranges, movement of keys on a change |
| RDMA cache (`core/rdma.rs`) | buckets of packed pointers, engines | insert, lookup, remove | the pointer is the only record of a block |
| Latency, health, configuration checks | histograms; folded statistics; findings | record, read; fold, judge; check, build | read while written; what is averaged away; what a shard refuses |

Interactions: callers call `MultiLayerCache` or the sharded cache over several
of them; it locks `CacheInner`, which asks the policy, the write budget and the
sketch, and calls the SSD engine and the manifest writer with the lock held.
Pins have locks of their own, taken inside the cache lock. The writeback worker
and flushes come back as ordinary batch writers. Statistics and callbacks are
called after the lock is released.

What each should guarantee: the journal never vouches for a key that changed;
the tiers never hold an overwritten value a read could find; a read returns a
value that was current at some moment of the read, in a batch too; counters,
orders, index and metadata describe what the maps hold; a tier over capacity is
pinned; a handle is a pin; every loop ends; a queued job is taken and the last
one about a key wins; the SSD engine gives back what it acknowledged; recovery
brings back everything persistent and nothing older; lists are whole; keys are
routed by the members as they are.

## Modules

| module | models | uses |
|---|---|---|
| `ProbeJournal` | the journal as operators on a record | |
| `SsdProbeJournal` | readers with a probe in flight, writers, and the journal between them | `ProbeJournal` |
| `SsdProbeJournalProofs` | the theorems about it | `SsdProbeJournal`, `TLAPS` |
| `CacheInner` | the guarded record and its straight-line methods | |
| `TieredCache` | the callers, the lock holder's loops, the sections of `get_shared` | `CacheInner` |
| `TieredCacheProofs` | what each operator of `CacheInner`, each step of the lock holder and each call does; `Shape`; the first theorems about the cache | `TieredCache`, `TLAPS` |
| `CapacityProofs` | counters are sums; a tier above its capacity is pinned | `TieredCacheProofs` |
| `LastWriteProofs` | the last write wins, reads are current | `TieredCacheProofs` |
| `Evictions` | the same loops run to their end within one call | `CacheInner` |
| `PutBatch` | `put_batch`: staging, positions, rewrites, credit | `Evictions` |
| `CacheInstance` | one tier as a cache, with update in place | `Evictions` |
| `BatchReads` | batch reads, pinning reads, reads without promotion, section by section | |
| `BatchReadsProofs` | what they answer was current | `BatchReads`, `TLAPS` |
| `PinTable` | stripe entries, total, removals and late releases | |
| `PinTableProofs` | the total covers the entries; held keys are pinned | `PinTable`, `TLAPS` |
| `Writeback`, `WritebackProofs` | queue, worker, flush, write-through, stop and start; proofs | |
| `Recovery` | block and manifest writes of every path, crash, recovery in both builds | |
| `FileStore` | one device's map, snapshot and journal | |
| `MultiSsd` | devices, calls, failures and crashes inside them | `FileStore`, `DurableStore` |
| `DurableStore` | what an SSD engine promises | implemented by `MultiSsd` |
| `MultiSsdProofs` | that it does; nothing acknowledged is lost | `MultiSsd`, `TLAPS` |
| `ShardedCache` | grouping, fan-out, errors, pins, shares | |
| `EvictionReports` | queues, callbacks, the flag, overlapping drains | |
| `KeyArena` | intrusive lists over an arena | |
| `CacheKeyOrder`, `Slru` | a tier's two orders; the segmented LRU | `KeyArena` |
| `ArcPolicy`, `L2Policy` | ARC; the queues that feed one | `L2Policy` uses `ArcPolicy` |
| `SimpleLru` | the LRU facades with and without handles | |
| `VictimChoice` | FIFO, windowed and segmented choice, cold shares, scores by frequency | |
| `FrequencySketch`, `WriteBudget` | the two admission filters | |
| `LogAllocator` | the log allocator and its collector | |
| `ZonedStore`, `RdmaCache` | the two stores with an index of their own | |
| `ClusterRing` | membership, routing, handoffs | |
| `LatencyStats`, `ShardHealth`, `ConfigCheck` | what an operator is shown | |
| `Slots`, `MCBackground`, `MCCalls`, `MCPolicies` | components side by side, for TLC | all of the above |
| `MCSsdProbeJournal`, `MCTieredCache` | instances for TLC | |

### How the model corresponds to the code

`cache` is the `CacheInner` record, with its field names. A method with a fixed
number of steps is an operator from record to record in `CacheInner`; a method
that loops or chooses (eviction, demotion, make-room, the sweep, the parts of a
put) is one or more steps of the lock holder. `todo` is the call stack of the
holder of the write lock. Every other action requires it empty, which is the
exclusion the `RwLock` gives.

`get_shared` is modelled section by section: `StartGet` (volatile tiers, read
lock), `RemoveExpired`, `ReadSsd` (block and probe epoch, read lock),
`FinishSsd` (record the hit, ask the journal, refill; write lock) and `Promote`.
Writers run between any two of them.

`put` is `PutStart` to `PutFinish`; `req` carries the placement decision and
the outcome the code returns as `Ok(true)`, `Ok(false)` or `Err`. The early
returns of `put_with_request_inner` are the outcome "no", which
`put_with_request_shared` answers by deleting an SSD block that no longer
matches.

Failures are the members of `Faults`: a run lists which I/O calls may fail, and
each such call then chooses. A stopped cache has stopped its store, which
refuses writes and deletes.

`allowed` and `seen` are history variables. `allowed[k]` is what a read of `k`
may return after the last completed call: the last put's value, nothing after
an invalidation, a clear or an expiry, and either the old or the new value
after a put that reported an error. `seen[r]` collects what was allowed during
`r`'s read.

The other modules keep the same convention: a variable is a field of the
struct, with its name where TLA+ allows it; an action is a method, or one lock
section of it where the method releases the lock; what follows a release reads
the state anew. A module that needs a property of another takes it as given
where that module checks it:

* `BatchReads` writes `stale[r]` where `TieredCache` has `changed`, and makes each
  writer one step; capacities are left out, so a tier may refuse or give up a
  value at any time.
* `ShardedCache` makes what one shard does one step. Below the fan-out threshold
  the caller goes through the items in order and stops at an error; above it
  every shard has a thread, all finish, and the first error is the answer.
* `Writeback` numbers the calls: `cached[k]` is the call whose effect is visible,
  `latest[k]` the last accepted one. A drain is `Pop` under the lock and `DrainWrite`
  after it, so a stopped worker's last drain, its successor's and a flush overlap.
* `Recovery` turns a call into the list of its writes, `todo`, and lets the process
  end before any of them. `rocks` chooses between the two builds.
* `MultiSsd` composes one `FileStore` per device. `put_batch` writes its entries one by
  one, device after device; any other call is one step. It succeeds, fails at one
  device (those before it are done), or the process ends inside it, with the files of
  that device unchanged, journalled, compacted half way, or torn. Every
  device can be removed, the last one too. `stop` is called on a running engine, and
  the removal of a journal after a rename is taken to succeed.
* `Evictions` gives the set of records a loop may leave, for calls that evict
  several times before they return. It and its users are recursive and for TLC only.

History variables (`allowed`, `seen`, `acked`, `unsure`, `leftover`, `held`, `fresh`,
`stale`, `raced`, `lost`, `leaked`, `asked`, `byInsertion`, `byAccess`, `since`,
`astray`, `crowded`, `reopened`, `overshot`) are named as such in their modules and
guard nothing.

### Components side by side

Most components share no state with one another, so three runs check several at
once. `Slots` declares eighteen variables and `focus`, which names the component a
behaviour is about. The MC module instantiates each component with its variables
in the first slots; the rest hold `Unused`. A behaviour is therefore a behaviour
of one component, the initial states are the union of theirs, and a property
`focus = "x" => P` is `P` of that component. No interleaving between components is
checked or claimed this way. `MCBackground` extends `Writeback`, which keeps its
variables because of its fairness; `MCPolicies` extends `MultiSsd` and `MCCalls`
`BatchReads`, so that the runs check the very formulas that are proved. These three
rest while another component has the focus.

### The journal inside the cache

`CacheInner` does not carry the ring. Its field `changed` holds, per reader, the
keys noted since that reader captured its epoch; a probe of one of these is
refused, and a probe of any other key may be accepted or refused. That is sound
because `SsdProbeJournalProofs` proves, for every ring and hash function, that
the journal accepts only probes of keys not noted since (`CurrentMeansUnchanged`)
and that the increment a refill takes back revives nothing (`StaleStaysStale`).

### Simplifications

* Hotness and the `max_*_block_bytes` limits are one number, `heat`.
* The replacement policy may pick any unpinned key of the order. The code falls
  back to the whole order when its window has nothing to offer, so it always
  finds one when there is one.
* The blocks of SSD victims are deleted round by round; the code deletes them
  after the loop, still under the lock.
* The sweep removes every due key. It handles eight a write, more than any
  instance has.
* Time passes between critical sections only (`Lapse`).
* Equal values stand for equal allocations where the code uses `Arc::ptr_eq`.
* Hits that only move counters or the access order change no state.
* `start` in `TieredCache` does not recover. The code recovers there only with
  `auto_recover_on_start`, off by default (`multilayer_cache.rs:2731`); `Recovery` has it.
* The SSD hit under SSD-only mode is one section; the code takes the lock twice.

## Runs

| run | configuration | result |
|---|---|---|
| `probe_journal` | 3 keys (2 with one hash), 2 readers, ring of 2, epoch saturates at 5 | holds, 572 k states |
| `tiered_reads` | 2 keys, 2 readers, all tiers, put/invalidate/clear | holds, 1.9 M |
| `side_by_side` | SideBySide placement, write-through, budget, empty values, stop/start, SSD-only switches; liveness | holds, 510 k |
| `time_to_live` | lapse, sweep, purge and default life against one reader | holds, 1.6 M |
| `pins_and_capacities` | capacities 0 to full, one handle a key, admission filter, PMEM put failures | holds, 1.9 M |
| `failed_writes` | PMEM delete and manifest failures, stop/start, memory-only calls | holds, 1.2 M |
| `background` | writeback (2 workers, a flush, 1 failure), victims, reports, L2 policy; liveness | holds, 326 k |
| `calls` | recovery, pins, batch reads and writes, instances, shards, reports, zoned and RDMA stores | holds, 967 k |
| `policies` | 2 devices with failures and crashes; lists, SLRU, ARC, LRU, sketch, budget, allocator, ring; refinement | holds, 307 k |
| `refused_rewrite` | memory-only cache, a rewrite too large for it | `LastWriteWins` fails |
| `manifest_compaction` | file build, an append that compacts | `PersistedEntriesReturn` fails |
| `torn_journal` | a crash may leave half a record | `NothingAcknowledgedIsLost` fails |

The last three state what a comment or a test of the repository says and show a
behaviour of the code that differs. `PROJECT.json` quotes the line under
"findings".

What the properties of `TieredCache` say:

* `LastWriteWins` (tiers): between calls, no tier holds for a live entry
  anything but the last put's value. It is stated of the copies and not of the
  answer to a read, so that an old block waiting under a newer copy counts.
* `ReadSawACurrentValue` (reads): what a read returns was current at some
  moment of it.
* `BytesExact`, `NothingOutOfOrder`, `IndexMatchesStore`, `MetadataAtHome`:
  counters, orders, index and metadata describe what is there.
* `NothingDescribedThatIsGone`: metadata goes with the last copy.
* `OverOnlyWhenPinned`, `PinnedStays`: the bound of a tier and what may break it.
* `LockReleased`: every call ends.

Of the background:

* `PositionsFindTheirJobs`: sequence numbers minus the head lead to a key's only
  job, whatever was popped, cleared or coalesced. `LastCallWins`: with nothing
  pending, reads see the last call about a key, unless drains of the key overtook
  each other or a batch failed. `QueuedJobsAreTaken` and `StopReturns` are liveness.
* `ImplementsDurableStore`: `MultiSsd` with the map a read finds, as content,
  implements `DurableStore`: an acknowledged change survives any crash, stop,
  start and compaction; an unacknowledged one leaves old or new; a change of
  devices shows nothing a key never was. The run is `policies`.
* `ReportsAddUp`: no eviction is reported twice, each is counted while somebody
  listens, and none waits in a queue the flag says is empty. What was queued when
  the callback was cleared, or when `remove_all` or `reset` emptied the cache, is
  never reported: `clear_all_locked` clears both queues with the callbacks registered
  (`builder_and_gc.rs:3475`).

Of the calls: `NothingStaleComesBack` and `PersistedEntriesReturn` (recovery),
`EveryHandleIsAPin` (pin table, batches, shards), `BatchReadsAreCurrent`,
`LastEntryWins` (after a batch of puts that
reported no error each copy is of the last entry, but for blocks that are astray, see
below), `BooksAreExact` (staging; updates in place),
`ShardsAddUp` (shares, and the answers of a batch that was fanned out), `ReportsAgree` (percentiles in order while samples arrive; no
shard's alarm lost in the total; a refusal of a shard foretold by the checks),
`RecordsAreThere` (index and storage of the zoned and RDMA stores; what it leaves open
after `finish_group` with no group free and after an engine was replaced is below).

Of the policies:

* `ListsAreRight`, `PoliciesKeepBounds`, `SketchNeverUnderstates` and `RingIsRight`,
  and `PolicyMissesNothing` of the L2 policy (run `background`), each stated with its
  component.
* `ChoiceIsSound` (run `background`): whatever hotness entries were admitted with,
  and however hits moved meanwhile, a victim is found when one is not pinned; an expired entry goes first; an
  entry read twice goes, under the segmented policy or a cold share, only when all
  candidates were; and bounded and wide scans choose alike. Checked for FIFO,
  SLRU, weighted hotness with a cold share, and SLRU on the SSD scored by frequency.
* `OverrunsAreCut`: the window after one that overran writes at most what it was allowed
  times the ratio of the longest block to the shortest. Keys are chosen by hash, so
  with blocks of different lengths "the next window stays within the target" does not
  hold: of blocks of 2, 2, 1, 1 and 1 bytes and a target of 3 (`Scale` 5) the window
  writes 7, the next share is 2 of 5, and its two keys may be the long ones. Windows
  that lasted several periods are included.

### Where a statement does not hold

Besides the three runs, these variations of the listed configurations fail a
property. Each takes TLC seconds to a minute.

* `Faults = {"pmemPut"}`, `Heats = {2}`: `LastWriteWins` fails. Persisting a PMEM
  rewrite fails, `put_with_request_inner` drops the answer
  (`multilayer_cache.rs:11205`), and the older PMEM copy is found before the new
  SSD one.
* `Faults = {"ssdWrite"}`: `LastWriteWins` fails. A failed write leaves a block
  that reads find and the index does not list, so a later refused put does not
  remove it (`multilayer_cache.rs:11093`).
* `Faults = {"ssdDelete"}` with `"invalidate"`: `LastWriteWins` fails. `invalidate`
  ignores a failed delete (`builder_and_gc.rs:3444`).
* `Faults = {"pmemClear"}` with `"clear"`: `BytesExact` fails. `clear_all_locked`
  returns between emptying the maps and resetting their counters
  (`builder_and_gc.rs:3452`).
* one reader with `"invalidate"`: `NothingDescribedThatIsGone` fails. `get_shared`
  records the hit of a key invalidated meanwhile (`multilayer_cache.rs:3930`).
* `Calls` with `"ttl"` and `"stop"`: `LastWriteWins` fails. `purge_expired` does not
  ask whether the cache is started (`multilayer_cache.rs:2898`); the store refuses
  the delete, the expiry goes, and the block is served after the next start.
* `Calls` with `"stop"` and `"clear"`, `"capacity"` or `"pin"`: `LastWriteWins` fails in the
  same way. The clearing or evicting call drops the index entry
  and not the block, and a later refused put does not look for it.
* `FilterOn`: `LastWriteWins` fails. Memory does not admit the rewrite and keeps the
  older copy, as in `refused_rewrite`.
* `Calls` with `"memoryOnly"` and `"ssdOnly"`: `LastWriteWins` fails. `put_memory_only` fills
  memory in the SSD-only mode too, where later puts leave memory alone.
* `Calls` with `"memoryOnly"` and `"ttl"`: `LastWriteWins` fails. `put_memory_only` of a
  lapsed key gives it a new life and leaves the lapsed SSD block under it
  (`multilayer_cache.rs:6575`).
* `empty` among three payloads with small capacities: `OverOnlyWhenPinned` fails.
  The eviction loop stops after a victim that freed no bytes
  (`builder_and_gc.rs:2755`), against "Only a pin can leave a tier here" (`:3693`).
* a default life on a memory-only cache: `DefaultLifeGiven` fails. `record_metadata`
  stamps it only on a key that already has metadata (`builder_and_gc.rs:1858`),
  against "Applies to entries written after it is set" (`multilayer_cache.rs:2870`).
* `LastEntryWins` without `k \notin astray` fails in two ways. `put_batch` asks whether
  a key has a block before its own entries demote (`multilayer_cache.rs:11338`): with
  capacities `<<2, 2, 3>>` the eviction that makes room for the new PMEM copy pushes the
  old one to SSD, the new block is refused, and the old one stays, against "Do not
  leave the previous SSD value available after the newer upper copy leaves"
  (`:11100`). And a batch whose writes fail leaves blocks that reads find and the
  index does not list, which a later batch does not remove either. `astray` holds these
  keys until a batch stages or rewrites them.
* with `<<2, 0, 3>>`, `PutBatch!StaysWithinCapacity` fails:
  demotion inside the batch does not count what is staged
  (`builder_and_gc.rs:2447`), against `tests/mod.rs:547`, "pending encoded blocks
  must count against the SSD budget".
* `Slru!DrainFits` fails: entries that were read cycle between cold and warm, so a
  drain without the maintainer evicts nothing (`replacement.rs:2126`), against
  "four passes over the shard is more than enough" (`:2084`).
* `CacheKeyOrder!AccessInvariants` with `Specs <- {0, 1, 2}` fails: setting the spec
  back to zero leaves the bits of the nodes (`cache_facades.rs:4140`), and a later
  spec counts one node twice.
* `ZonedStore!PinnedAlwaysKept` fails: a pinned record that begins
  inside a page is read short (`zoned_gc.rs:148`), taken for corrupt and dropped by
  a collection, against "Pinned -> always kept" (`zoned_gc.rs:20`).
* `RecordsAreThere` without `crowded` and `lost` fails: `finish_group` with no group free
  files the current group for reclaim and then fails in `open_next_group`
  (`zoned_store.rs:602`, `:746`). The group goes on taking appends, may be reset under
  its writer and be on the free list twice, and its records go with the reset.
* `RecordsAreThere` without `reopened` fails: `init_storage_engine` over live entries
  leaves the index pointing into the engine that went, and the new one gives out the
  same addresses (`rdma.rs:1667`). A read of such an entry misses or answers the last
  value stored, never another; no block is leaked.

Exceptions the properties of passing runs make, because the code does: blocks astray,
crowded groups, replaced engines and discarded reports, all above; keys of a
failed writeback batch and keys whose drains overtook each other
(`multilayer_cache.rs:6972`, `:6980`); pins of the other shards when an
`acquire_batch` fails on one (`:9456`); PMEM files that `set_ssd_instance_only`,
`invalidate_memory_only` and group invalidation leave (`:7521`); handles older than
the removal of their key's pin entry (`builder_and_gc.rs:3426`); a key whose delete
failed in the journal and whose retry is a no-op (`storage_engines.rs:2731`); the
ARC after its capacity was lowered (`replacement.rs:938`).

### Bounds, and why they are enough

Two keys, so that one is the other's victim, and two values of one and two
bytes, with blocks one byte longer: memory and PMEM hold one large or two small
values, SSD one block of the large value or one of the small, so every put can
evict in every tier. One reader shows each interleaving of a read with writers;
two are needed only for a refill that must not cancel the other's probe.
`MaxPins` bounds the handles of a key and the releases on their way. The
empty value appears only where zero length matters. The journal instance has a
ring shorter than the number of mutations a probe can live through, and the
epoch reaches saturation. Runs without `LastWriteWins` leave it out because
their configuration contains one of the cases above: the filter refusing a
rewrite, or a PMEM put failing.
Keys are interchangeable, so the invariant runs use symmetry; those with
liveness do not.

In the three runs of many components the bounds are the smallest at which every
action fires and the mutants are found: a queue and a round of one job, so that the
second submission meets a full queue and every drain has a successor; two
workers, so that a stopped one is still writing when the next starts; two
devices, two keys that part when the second device comes, one value, a journal that
is compacted when it has two entries, and two failures, crashes or changes of
devices, so that a failure meets a crash; two calls, each of several writes, and a crash; a batch that names a key twice; two shards and a total of
one, less than the shards; a ring of eight hashes with points at equal places; a
window of two in an order of three, for each of four setups of policy, cold share
and tier; blocks of one and two bytes against targets of one and three, with windows
that last up to two periods; a PMEM tier that one entry of a batch fills; two zone
groups, so that one is finished while none is free; five items in an ARC of three. Every
`Max...` constant bounds a counter in a guard and is declared with its meaning.

### Fairness

`FairSpec` of `TieredCache` assumes only that the thread inside the write lock keeps
running. `Writeback` assumes weak fairness of each worker's steps, of the join that
waits for one, and of a stop of the cache that has begun: threads the operating
system schedules. Nothing is assumed of other callers, readers, failures or the
clock.

## Proofs

### The probe journal

`SsdProbeJournalProofs` proves, for every set of keys and readers, every hash
function, every ring size of at least one slot and every epoch width:

* `SpecIsSound`: the inductive invariant `Sound` is `TypeOK`,
  `CapturedInThePast` and `CurrentMeansUnchanged`; `SpecTypeCorrect` is its first part;
* `SpecCurrentMeansUnchanged`, `SpecStaleStaysStale`,
  `SpecSpareRefillCancelsNothing`.

`CurrentMeansUnchanged` alone is not inductive: a probe holding an epoch the
journal has not reached would become current when it does.
`CapturedInThePast` excludes that. The argument turns on two facts. Within
`Slots` epochs of each other no two epochs share a ring slot
(`NearbyEpochsUseDistinctSlots`), so a new entry overwrites only one that the
length test has already excluded, and a probe that survives a note was current
before it and is of another key (`RecordReflects`). And the tail of
`refill_ssd_probe` restores exactly the journal it found
(`SuppressRestores`). The only assumption is `JournalAssumption`.

### The cache

Three modules prove what `TieredCache` keeps for every set of keys, values and
readers, every size, capacity, placement, set of faults and set of calls; where a
theorem needs more, the hypothesis is named and given below. From below:

* The first part of `TieredCacheProofs` states, per operator of `CacheInner`, which fields it leaves
  and what it writes, and that it keeps a record tidy (orders list what the maps
  hold, metadata is in the home of the highest tier).
* Its second part does the same per step of the lock holder, once and for all
  properties: an `...Effect` lemma says what the action may do to the cache and
  which steps it leaves on the stack. To say so it needs the discipline of the
  stack: which step may lie under which (`Below`), that an eviction of the SSD with
  something to write under it is on top, that only a put has steps of a put, and
  `Foreseen`, what a step about a key may rely on by the time it is reached: that
  PMEM does not hold what is demoted into it, that the index does not list what is
  written around the cache. `Shape` is all that together.
* Its third part has the effect of each call, proves `Shape` inductive, and
  the theorems that need little more.
* `CapacityProofs` and `LastWriteProofs` have the larger invariants on top of it.

| theorem | property | inductive invariant | hypothesis |
|---|---|---|---|
| `ShapeInvariant` | | `Shape` | none |
| `TypeCorrect` | `TypeOK` | `Shape` | none |
| `NothingIsOutOfOrder` | `NothingOutOfOrder` | `Shape` | none |
| `PinnedEntriesStay` | `PinnedStays` | `Shape` | none |
| `MetadataIsAtHome` | `MetadataAtHome` | `Held` | `NoHalfClear` |
| `IndexMatches` | `IndexMatchesStore` | `Matching` | `SsdReliable` |
| `NothingGoneIsDescribed` | `NothingDescribedThatIsGone` | `Accounted` | `NothingLeftBehind` |
| `CountersAreExact` | `BytesExact` | `Exact`, `Shape` | `NoHalfClear` |
| `OverOnlyWhilePinned` | `OverOnlyWhenPinned` | `Capped` | `NothingWeightless`, `PinsCounted` |
| `LastWriteIsFound` | `LastWriteWins` | `Current` | `Dependable` |
| `ReadsAreCurrent` | `ReadSawACurrentValue` | `Current` | `Dependable` |

Why the strengthenings are needed, and what the hypotheses exclude:

* `Held` adds to "what a tier holds is described" that the value a demotion carries
  between two tiers is: it is in none of them for a moment, and arrives described
  only because its metadata waits in the overflow map. `NoHalfClear`: a
  `clear_all_locked` whose PMEM wipe fails returns with the memory map emptied and
  its metadata dropped, also of entries the SSD goes on serving.
* `Matching` is the property without "between calls". `SsdReliable`: no SSD write,
  delete or manifest append fails and the cache is not stopped, since a refused or
  failed operation parts the index from the store (`failed_writes` and the section
  on what does not hold).
* `Accounted`: metadata of an entry in no tier is owed a clean-up, by a `Forget` on
  the stack or by the end of the put in progress. `NothingLeftBehind`: there are no
  reads, whose `record_hit` may describe what was invalidated meanwhile, and none of
  the calls that leave metadata on purpose.
* `Exact` is `BytesExact` of the record. It needs sums over the keys, which the
  library's induction theorems cannot give here (they take an operator as parameter).
  The sums of `SumFunctionOnSet` are therefore unfolded by least counterexample: of the
  sizes of sets at which the claim fails there is a least one (`LeastNatural`, from the
  well-foundedness of the naturals), and the size below it refutes it. `SumChange` is
  what comes out: when one term of a sum changes, the sum changes by the difference.
  With it the saturating subtractions of the counters never saturate
  (`CounterKept`). It needs `Keys` finite (`KeysAssumption`), and `NoHalfClear` because
  the half-done clear empties the maps and keeps their counters.
* `Capped`: a tier that has something to evict has its eviction on the stack; and
  an SSD write that was promised room still has it when it is reached, though
  evictions may run in between (`RoomMade`). `NothingWeightless`: an eviction round
  that frees nothing ends the loop, so an empty victim would leave the tier over;
  encoded blocks have a header, and an empty value is never the reason a tier is
  over. `PinsCounted`: `invalidate_memory_only` of a key only the SSD holds drops its
  pins without looking whether the SSD is over.
* `Current` speaks of what is around of a key: its copies in the tiers and what the
  lock holder carries between two of them. No step makes up a value (`Origin`), so of
  a key nobody puts only allowed values are around, unless it has expired
  (`Undisturbed`). For the key of the put in progress that is false until each of its
  parts has run: `Fresh` says what memory, PMEM and the SSD are rid of when. What
  is around of a key being read was allowed at some moment of the read (`Followed`),
  and a probe the journal vouches for is of the block that is there (`Probed`, which
  the theorems about the journal justify). `Steady` is what these lean on: the
  settings are as configured, the index lists every block, a tier that is not there
  is empty.

`Dependable` is met by the configurations of `tiered_reads`, `time_to_live`,
`side_by_side` and `failed_writes`. It excludes configurations in which TLC finds
`LastWriteWins` violated:

* PMEM puts, SSD writes and SSD deletes that fail (deletes of PMEM files, wipes of
  PMEM and manifest appends may fail);
* the admission filter, and a capacity that some value exceeds: a tier then refuses
  a value while an older copy is held (`refused_rewrite`);
* a cache that may be stopped together with clearing, changes of capacity, releases of
  pins or lifetimes, all of which delete blocks without asking whether the store is
  started and lose the refusal (with pins the shortest violation takes three keys);
* lifetimes together with `put_memory_only`, which gives a lapsed copy a new life;
* `put_memory_only` together with the SSD-only mode, in which a later put does not
  look at the memory copy.

One more conjunct is a limit of the argument: with lifetimes, PMEM deletes do not
fail. TLC finds no violation there with two keys and a reader, or with three keys and none.

### The writeback queue

`WritebackProofs` proves, for every number of keys, workers, queue places, jobs per
round and calls, `WritebackTypeCorrect`, `PositionsAreRight` and `LastCallIsSeen` from
one inductive invariant, `Ordered` (`WritebackIsOrdered`). `LastCallWins` speaks of a key
with nothing pending; `NothingForgotten` says where its latest value is until then: in
its only queued job, or, once that was taken, in the batch of its drain if no other
drain holds the key. With two holders nothing is claimed of the value, because
whichever writes first is a race that `raced` records. `OneJobPerKey` makes "the
job of the key in this batch" one job; it holds because a batch is a piece of the
queue, where `PositionsFindTheirJobs` says that a key has one. The proof also shows
that `through = None` is not needed: a rejected job says nothing about the key until
its caller writes it. The only assumption is `WritebackAssumption`.

### Reads in sections

`BatchReadsProofs` proves, for every set of keys, values and readers and every set of
batches, `AnswersAreCurrent`: whatever `get_batch_into`, `get_shared_batch_into`, `get`
and the pinning reads answer was current at some moment of the call
(`BatchReadsAreCurrent`). The invariant `Current` (`ReadsAreFollowed`) is:

* `Typed`, and every copy of a key that has not expired is an allowed value;
* `Followed(r)`: whatever was allowed since the call began, every copy of a key that is
  alive by its clock, and every answer it collected, is among the values it has seen;
* `Vouched(r)`: a block that was read and that no writer has overtaken is still one that
  a refill may install, which the theorems about the journal justify.

Each section is first given its `Effect`: it moves copies between the tiers and drops
those of expired keys (`Lowered`), so it brings nothing new; the refill after an SSD
read may bring a value, but only one that is vouched for. The delicate part is the
clock: a call compares deadlines with the time it began, so a key may expire for
others, be dropped and be put again between its sections. A key that the call once
found alive stays alive to its end; and a key that it took for expired and that is so no
longer has no copies, so a refill cannot hand the old value to anyone.
`ReadsAssumption`: `None` is not a value, and batches are sequences of keys.

`HandlesArePins` of `BatchReads` stays with TLC: it is true of one reader. With several,
a handle that outlives its dropped pin entry can take the pin of another, which is
what `PinTable` models with its `wronged` keys.

### The pin table

`PinTableProofs` proves for any finite sets of keys and threads (`Finite`) that the
total never falls below the entries (`TotalIsEnough`), so neither a release nor the
removal of a group subtracts more than is there and `is_pinned` may trust a zero; and
that a key is pinned for as long as a handle younger than the last removal of its
entry is out, unless an older handle of it was released meanwhile
(`HeldKeysArePinned`). The bounds `MaxHandles` and two handles a call play no part.

`TotalCoversEntries` alone is not inductive: a thread may be about to add to entries
what it has counted, or to take from the total what it took from entries. The
invariant `Covered` (`HandlesAreCovered`) therefore adds what every thread still owes
(`Owed`, summed over the threads), which is nothing when no thread has the read lock;
that is when entries are dropped. `invalidate` drops an entry and leaves its handles
in the total, so this is an inequality. Both properties are part of
`EveryHandleIsAPin` of the run `calls`. The theory of sums is that of `CapacityProofs`,
with sums over parts of a set added (`SumWithout`).

### The SSD engine

`MultiSsdProofs` proves, for every finite set of keys, every set of devices, hash,
compaction floor and number of failures, crashes and changes of devices, as long as a
write is not cut in the middle of an entry (`~TornWrites`):

* `DevicesAreDurable`: `MultiSsd` implements `DurableStore` (`ImplementsDurableStore`);
* `AcknowledgedIsKept`: a running engine finds for every key what the last
  successful call left or what an unsuccessful one since may have left
  (`NothingAcknowledgedIsLost`, which the run `torn_journal` shows to fail otherwise).

Replay is first given in closed form: a key's last entry in the journal decides, or
the snapshot (`Replayed`). A journal entry is appended after the map
was changed, so it says what the map says (`Journals`), and a snapshot is the map. So
whatever a call leaves on a device, done, failed or cut off, its files
say of each key what they said before or what the map says (`Near`, which is
transitive). This covers the rename with its journal still there, where the old
journal is replayed on top of the new snapshot. The invariant `Tracked` adds the
history: where files and map differ, or the map and the last successful call, the
difference is in `unsure`; and all values on all devices, the detached ones too, are
ones their key has had (`Sound`), which is what a change of devices may bring
back. `FilesAssumption` and `DevicesAssumption` are that the keys are finite, `None` is
not a value, there is a device and keys hash to naturals.

### What stays with TLC

Liveness (`LockReleased`, `QueuedJobsAreTaken`, `StopReturns`) is beyond the prover, and
so is what `Evictions`, `PutBatch`, `CacheInstance`, `Slru` and `CacheKeyOrder` compute
recursively: the prover has no SMT backend beside a recursive operator. The
invariants of `background`, `policies` and `calls` that no theorem names are checked on their
instances only.

## Not modelled, and the plan

Next, in this order:

1. Proofs that need no recursion and no fairness: `EvictionReports!ReportsAddUp`,
   `Recovery!NothingStaleComesBack`.
2. An abstract cache specification (a key maps to its last value or to nothing,
   and may be dropped at any time) that `TieredCache` implements.

Left out for good, with the reason:

* RocksDB, the system allocator behind the slab allocators, and the RDMA transport
  are libraries, or simulated in memory.
* `ConcurrentSimpleLruCache`, `BlockCache`, the concurrent replacement wrappers: a
  mutex or a hash in front of what is modelled.
* `PmemDispatcher`, `AsyncWriter`, `MemStorage`, `CacheExecutor`: threads that run one
  closure, and a map behind a lock. (Stopping a dispatcher and starting it again
  leaves its writers stopped, `storage_engines.rs:3915`.)
* Metrics text, legacy names, footprint estimates, presets and builders: formatting
  and constants. Hash functions and block encoding are uninterpreted.
