----------------------------- MODULE CacheInner -----------------------------
(***************************************************************************)
(* CacheInner: what a MultiLayerCache guards with its one RwLock, and the  *)
(* methods on it that take a fixed number of steps. A method is an         *)
(* operator from a cache record to a cache record; the methods that loop   *)
(* or choose a victim are actions of TieredCache.                          *)
(*                                                                         *)
(* The three maps `memory`, `pmem` and `block` give the value a tier holds *)
(* for a key, or None. `block` is what the SSD store returns for a key,    *)
(* `disk_index` the length the cache believes it stored there: reads ask   *)
(* the store and never the index. `meta` says in which of its three homes  *)
(* an entry's metadata is, `expiry` whether its time to live is running.   *)
(*                                                                         *)
(* `changed` stands for the probe journal. changed[r] holds the keys noted *)
(* since reader r captured its probe epoch, and every key when r has none: *)
(* a probe of one of them is refused. A probe of another key may still be  *)
(* refused (the ring is short, hashes collide), so the caller chooses.     *)
(* SsdProbeJournal is the journal in full and proves that this is all a    *)
(* reader can learn from it (CurrentMeansUnchanged).                       *)
(*                                                                         *)
(* An operator marked "Fault:" is a broken variant of the one after it that *)
(* a property is tested against; the specification does not use it.        *)
(***************************************************************************)
EXTENDS Integers, FiniteSets

CONSTANTS Keys,       \* CacheKey values
          Readers,    \* threads in get_shared
          Values,     \* payloads
          None,       \* no value, no index entry
          Size,       \* Size[v]: value.len()
          BlockLen,   \* BlockLen[v]: length of the encoded block
          Tiered,     \* TRUE: CacheDataPlacement::Tiered, FALSE: SideBySide
          Threshold   \* data_placement_threshold_bytes

ASSUME InnerAssumption ==
    /\ None \notin Values /\ None \notin Nat
    /\ Size \in [Values -> Nat]
    /\ BlockLen \in [Values -> Nat]
    /\ Tiered \in BOOLEAN
    /\ Threshold \in Nat

\* A run names finitely many keys.
ASSUME KeysAssumption == IsFiniteSet(Keys)

Homes == {"memory", "pmem", "overflow"}
Lives == {"none", "live", "lapsed"}

Inner == [started: BOOLEAN, ssd_only: BOOLEAN,
          memory_capacity: Nat, pmem_capacity: Nat, ssd_capacity: Nat,
          memory: [Keys -> Values \cup {None}],
          pmem: [Keys -> Values \cup {None}],
          block: [Keys -> Values \cup {None}],
          disk_index: [Keys -> Nat \cup {None}],
          memory_order: SUBSET Keys, pmem_order: SUBSET Keys, disk_order: SUBSET Keys,
          memory_bytes: Nat, pmem_bytes: Nat, ssd_bytes: Nat,
          meta: [Keys -> SUBSET Homes],
          expiry: [Keys -> Lives],
          default_ttl: BOOLEAN,
          changed: [Readers -> SUBSET Keys]]

\* A cache with nothing in it.
EmptyInner(memoryCapacity, pmemCapacity, ssdCapacity) ==
    LET nothing == [k \in Keys |-> None]
    IN [started |-> TRUE, ssd_only |-> FALSE,
        memory_capacity |-> memoryCapacity, pmem_capacity |-> pmemCapacity,
        ssd_capacity |-> ssdCapacity,
        memory |-> nothing, pmem |-> nothing, block |-> nothing, disk_index |-> nothing,
        memory_order |-> {}, pmem_order |-> {}, disk_order |-> {},
        memory_bytes |-> 0, pmem_bytes |-> 0, ssd_bytes |-> 0,
        meta |-> [k \in Keys |-> {}], expiry |-> [k \in Keys |-> "none"],
        default_ttl |-> FALSE, changed |-> [r \in Readers |-> Keys]]

\* a.saturating_sub(b)
Monus(a, b) == IF a < b THEN 0 ELSE a - b

LenOf(v) == IF v = None THEN 0 ELSE Size[v]
IndexedLen(c, k) == IF c.disk_index[k] = None THEN 0 ELSE c.disk_index[k]

InMemory(c, k) == c.memory[k] # None
InPmem(c, k) == c.pmem[k] # None
Indexed(c, k) == c.disk_index[k] # None
InSomeTier(c, k) == InMemory(c, k) \/ InPmem(c, k) \/ Indexed(c, k)
Expired(c, k) == c.expiry[k] = "lapsed"

\* bump_ssd_probe_epoch: no probe captured so far is current any more.
Fenced(c) == [c EXCEPT !.changed = [r \in Readers |-> Keys]]

\* note_ssd_probe_mutation
Noted(c, k) ==
    IF c.ssd_capacity = 0 THEN Fenced(c)
    ELSE [c EXCEPT !.changed = [r \in Readers |-> @[r] \cup {k}]]

\* ssd_batch_probe_epoch for reader r's key: while an upper tier holds it the
\* probe is one that is never current.
CaptureProbe(c, r, k) ==
    [c EXCEPT !.changed[r] = IF InMemory(c, k) \/ InPmem(c, k) THEN Keys ELSE {}]
DropProbe(c, r) == [c EXCEPT !.changed[r] = Keys]

\* The answers ssd_probe_is_current_for may give.
ProbeAnswers(c, r, k) == IF k \in c.changed[r] THEN {FALSE} ELSE BOOLEAN

-----------------------------------------------------------------------------
(* Metadata and expiry.                                                    *)

\* metadata_of(key).is_some(): only the home of the highest tier that holds
\* the key is looked at.
Described(c, k) ==
    (IF InMemory(c, k) THEN "memory" ELSE IF InPmem(c, k) THEN "pmem" ELSE "overflow")
        \in c.meta[k]

\* set_metadata for a key metadata_of finds nothing for.
Describe(c, k) ==
    [c EXCEPT !.meta[k] = @ \cup
        {IF InMemory(c, k) THEN "memory" ELSE IF InPmem(c, k) THEN "pmem" ELSE "overflow"}]

\* record_metadata: a rewrite restarts the entry's life with the default time
\* to live; the first sighting of a key stamps nothing.
RecordMetadata(c, k) ==
    IF Described(c, k)
    THEN [c EXCEPT !.expiry[k] = IF c.default_ttl THEN "live" ELSE "none"]
    ELSE Describe(c, k)

\* record_hit_metadata, the part that is not a counter.
RecordHit(c, k) == IF Described(c, k) THEN c ELSE Describe(c, k)

\* forget_metadata_of followed by forget_expiry.
ForgetMetadata(c, k) == [c EXCEPT !.meta[k] = {}, !.expiry[k] = "none"]

\* Fault: an entry that left its last tier stays described.
ForgetNothing(c, k) == c

\* forget_metadata_unless_resident
ForgetMetadataUnlessResident(c, k) ==
    IF InSomeTier(c, k) THEN c ELSE ForgetMetadata(c, k)

-----------------------------------------------------------------------------
(* The memory and PMEM maps, each with its order and its byte counter.     *)

\* make_resident with the bookkeeping put_memory_shared does around it.
MakeResident(c, k, v) ==
    LET n == Noted(c, k)
        moved == IF InMemory(c, k) THEN c.meta[k]
                 ELSE IF "pmem" \in c.meta[k] THEN (c.meta[k] \ {"pmem"}) \cup {"memory"}
                 ELSE IF "overflow" \in c.meta[k] THEN (c.meta[k] \ {"overflow"}) \cup {"memory"}
                 ELSE c.meta[k]
    IN [n EXCEPT !.memory[k] = v,
                 !.meta[k] = moved,
                 !.memory_order = @ \cup {k},
                 !.memory_bytes = Monus(@, LenOf(c.memory[k])) + Size[v]]

\* Fault: the metadata always goes to the overflow map, although PMEM may hold
\* a copy of the entry.
TakeResidentPastPmem(c, k) ==
    [Noted(c, k) EXCEPT
        !.memory[k] = None,
        !.meta[k] = IF "memory" \in @ THEN (@ \ {"memory"}) \cup {"overflow"} ELSE @,
        !.memory_bytes = Monus(@, LenOf(c.memory[k]))]

\* take_resident and the subtraction every caller makes. It notes the mutation
\* even when the tier holds nothing for k.
TakeResident(c, k) ==
    LET n == Noted(c, k)
        moved == IF "memory" \in c.meta[k]
                 THEN (c.meta[k] \ {"memory"}) \cup {IF InPmem(c, k) THEN "pmem" ELSE "overflow"}
                 ELSE c.meta[k]
    IN [n EXCEPT !.memory[k] = None,
                 !.meta[k] = moved,
                 !.memory_bytes = Monus(@, LenOf(c.memory[k]))]

\* Fault: an overwrite adds its length without giving the old one back.
MakePmemResidentCountingTwice(c, k, v) ==
    LET moved == IF InPmem(c, k) \/ InMemory(c, k) \/ "overflow" \notin c.meta[k]
                 THEN c.meta[k]
                 ELSE (c.meta[k] \ {"overflow"}) \cup {"pmem"}
    IN [c EXCEPT !.pmem[k] = v, !.meta[k] = moved, !.pmem_order = @ \cup {k},
                 !.pmem_bytes = @ + Size[v]]

\* make_pmem_resident with the bookkeeping of put_pmem_shared_with_persistence.
MakePmemResident(c, k, v) ==
    LET moved == IF InPmem(c, k) \/ InMemory(c, k) \/ "overflow" \notin c.meta[k]
                 THEN c.meta[k]
                 ELSE (c.meta[k] \ {"overflow"}) \cup {"pmem"}
    IN [c EXCEPT !.pmem[k] = v,
                 !.meta[k] = moved,
                 !.pmem_order = @ \cup {k},
                 !.pmem_bytes = Monus(@, LenOf(c.pmem[k])) + Size[v]]

\* take_pmem_resident and the subtraction its callers make.
TakePmemResident(c, k) ==
    LET moved == IF "pmem" \in c.meta[k]
                 THEN (c.meta[k] \ {"pmem"}) \cup {IF InMemory(c, k) THEN "memory" ELSE "overflow"}
                 ELSE c.meta[k]
    IN [c EXCEPT !.pmem[k] = None,
                 !.meta[k] = moved,
                 !.pmem_bytes = Monus(@, LenOf(c.pmem[k]))]

\* Fault: a rewrite that memory does not take leaves the old copy.
KeepStaleMemory(c, k) == c

\* drop_stale_tier_copy(key, Memory)
DropStaleMemory(c, k) ==
    IF InMemory(c, k)
    THEN [TakeResident(c, k) EXCEPT !.memory_order = @ \ {k}]
    ELSE [c EXCEPT !.memory_order = @ \ {k}]

\* drop_stale_tier_copy(key, Pmem), once persist_pmem_delete has succeeded.
DropStalePmem(c, k) ==
    IF InPmem(c, k)
    THEN [TakePmemResident(Noted(c, k), k) EXCEPT !.pmem_order = @ \ {k}]
    ELSE [c EXCEPT !.pmem_order = @ \ {k}]

-----------------------------------------------------------------------------
(* The SSD store and the index the cache keeps of it.                      *)

\* write_ssd_block: the mutation is noted before the write is attempted. The
\* block is a file and a store record; `left` is what a read finds afterwards.
WriteSsdBlock(c, k, left) == [Noted(c, k) EXCEPT !.block[k] = left]

\* Fault: the mutation is noted and the block stays.
DeleteSsdBlockOnlyNoting(c, k, ok) == Noted(c, k)

\* delete_ssd_block, delete_ssd_blocks for one key: noted, then attempted.
DeleteSsdBlock(c, k, ok) == [Noted(c, k) EXCEPT !.block[k] = IF ok THEN None ELSE @]

\* Fault: a block that replaces another is not listed again.
IndexInsertUnlisted(c, k, v) ==
    [c EXCEPT !.disk_index[k] = BlockLen[v],
              !.ssd_bytes = Monus(@, IndexedLen(c, k)) + BlockLen[v]]

\* The index, the order and the counter after a block of v was stored for k.
IndexInsert(c, k, v) ==
    [c EXCEPT !.disk_index[k] = BlockLen[v],
              !.disk_order = @ \cup {k},
              !.ssd_bytes = Monus(@, IndexedLen(c, k)) + BlockLen[v]]

\* The same after k's block was given up.
IndexRemove(c, k) ==
    [c EXCEPT !.disk_index[k] = None,
              !.disk_order = @ \ {k},
              !.ssd_bytes = Monus(@, IndexedLen(c, k))]

\* projected_ssd_install_bytes with no other write pending.
ProjectedSsdBytes(c, k, v) ==
    IF c.ssd_bytes + BlockLen[v] <= c.ssd_capacity
    THEN c.ssd_bytes + BlockLen[v]
    ELSE Monus(c.ssd_bytes, IndexedLen(c, k)) + BlockLen[v]

-----------------------------------------------------------------------------
(* Removal from every tier.                                                *)

\* Fault: the SSD copy outlives the metadata that said it had expired.
RemoveExpiredUpperCopies(c, k, ok) ==
    LET upper == TakePmemResident(TakeResident(c, k), k)
    IN ForgetMetadata([upper EXCEPT !.memory_order = @ \ {k}, !.pmem_order = @ \ {k}], k)

\* remove_expired_entry. A delete that fails is counted and otherwise ignored.
RemoveExpiredEntry(c, k, ok) ==
    LET upper == TakePmemResident(TakeResident(c, k), k)
        lower == DeleteSsdBlock(IndexRemove(upper, k), k, ok)
    IN ForgetMetadata([lower EXCEPT !.memory_order = @ \ {k}, !.pmem_order = @ \ {k}], k)

\* Fault: the index entry goes and the block stays.
InvalidateKeyKeepingBlock(c, k, ok) ==
    LET above == [TakeResident(c, k) EXCEPT !.memory_order = @ \ {k}]
        all == [TakePmemResident(IndexRemove(above, k), k) EXCEPT !.pmem_order = @ \ {k}]
    IN ForgetMetadataUnlessResident(all, k)

\* invalidate_keys_locked for one key with remove_disk; it ignores what the
\* deletes return.
InvalidateKey(c, k, ok) ==
    LET above == [TakeResident(c, k) EXCEPT !.memory_order = @ \ {k}]
        all == [TakePmemResident(IndexRemove(above, k), k) EXCEPT !.pmem_order = @ \ {k}]
    IN DeleteSsdBlock(ForgetMetadataUnlessResident(all, k), k, ok)

\* invalidate_memory_only: both volatile tiers give the key up; their orders,
\* the metadata and whatever PMEM persisted stay as they are.
InvalidateMemoryOnly(c, k) == TakePmemResident(TakeResident(c, k), k)

\* Fault: the metadata stays in the homes of the tiers that were emptied.
ClearVolatileKeepingHomes(c) ==
    [Fenced(c) EXCEPT
        !.memory = [k \in Keys |-> None], !.pmem = [k \in Keys |-> None],
        !.memory_order = {}, !.pmem_order = {},
        !.memory_bytes = 0, !.pmem_bytes = 0]

\* clear_resident, clear_pmem_resident and the resets of
\* set_ssd_instance_only(true). Metadata moves to the overflow map.
ClearVolatile(c) ==
    [Fenced(c) EXCEPT
        !.memory = [k \in Keys |-> None], !.pmem = [k \in Keys |-> None],
        !.memory_order = {}, !.pmem_order = {},
        !.memory_bytes = 0, !.pmem_bytes = 0,
        !.meta = [k \in Keys |-> IF c.meta[k] = {} THEN {} ELSE {"overflow"}]]

\* clear_all_locked when clear_pmem_persistence fails: it returns with the two
\* volatile maps emptied and everything that counts or lists them as it was.
HalfCleared(c) ==
    [Fenced(c) EXCEPT
        !.memory = [k \in Keys |-> None], !.pmem = [k \in Keys |-> None],
        !.meta = [k \in Keys |-> IF c.meta[k] \subseteq {"memory"} THEN {} ELSE {"overflow"}]]

\* clear_all_locked. The store is reset last, and a store that refuses keeps
\* its blocks.
ClearAll(c, ok) ==
    [EmptyInner(c.memory_capacity, c.pmem_capacity, c.ssd_capacity) EXCEPT
        !.started = c.started, !.ssd_only = c.ssd_only,
        !.default_ttl = c.default_ttl,
        !.block = IF ok THEN @ ELSE c.block]

-----------------------------------------------------------------------------
(* Where a value belongs.                                                  *)

\* pmem_should_refill_memory
PmemShouldRefillMemory(c, v) ==
    /\ c.memory_capacity > 0 /\ Size[v] <= c.memory_capacity
    /\ Tiered \/ c.pmem_capacity = 0 \/ Size[v] <= Threshold

\* `memory_target` of refill_ssd_probe; its negation sends the value to PMEM.
RefillTargetsMemory(c, v) == Tiered \/ c.pmem_capacity = 0 \/ Size[v] <= Threshold

\* CacheTieringPolicy::decide. `heat` stands for the request's hotness and the
\* block-size limits: 3 passes memory_hotness_threshold, 2 the PMEM one, 1 the
\* SSD one, 0 none.
Decide(c, v, heat, pinned) ==
    LET ssd == c.ssd_capacity > 0
        pmemFits == c.pmem_capacity > 0 /\ Size[v] <= c.pmem_capacity
        memoryFits == Size[v] <= c.memory_capacity
        decision(m, p, s) == [memory |-> m, pmem |-> p, ssd |-> s]
        toPmem == pmemFits /\ Size[v] > Threshold
    IN IF ssd /\ Size[v] > c.ssd_capacity THEN decision(FALSE, FALSE, FALSE)
       ELSE IF ~ Tiered /\ toPmem THEN decision(FALSE, TRUE, ssd)
       ELSE IF ~ Tiered /\ memoryFits THEN decision(TRUE, FALSE, ssd)
       ELSE IF pinned \/ (heat = 3 /\ memoryFits) THEN decision(TRUE, TRUE, ssd)
       ELSE IF heat >= 2 /\ pmemFits THEN decision(FALSE, TRUE, ssd)
       ELSE IF heat >= 1 /\ ssd THEN decision(FALSE, FALSE, TRUE)
       ELSE decision(TRUE, FALSE, FALSE)
=============================================================================
