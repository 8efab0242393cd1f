---------------------------- MODULE CacheInstance ----------------------------
(***************************************************************************)
(* CacheInstance: the facade that offers one tier of a MultiLayerCache as  *)
(* a cache of its own, with the calls on CacheInner that name their tier   *)
(* (test_insert_for_tier, put_bypass_storage_for_tier, test_acquire,       *)
(* test_remove_for_tier, update_cached_value_if_current_for_tier). The     *)
(* other two tiers have no capacity.                                       *)
(*                                                                         *)
(* A buffer is a pinned handle on what test_acquire found. `update` is a   *)
(* compare and swap against it: by the identity of the shared value in the *)
(* memory and PMEM tiers, which `stamp` stands for, and by the bytes of    *)
(* the block on the SSD. All of it happens under the write lock.           *)
(***************************************************************************)
EXTENDS Evictions

CONSTANTS Sizes,       \* capacities an instance is built with or set to
          MaxHandles,  \* buffers out at once
          MaxStamp     \* values stored over a behaviour

VARIABLES tier,        \* instance_type: "memory", "pmem" or "ssd"
          cache, stamp, handles
vars == <<tier, cache, stamp, handles>>

Held(c, k) == CASE tier = "memory" -> c.memory[k]
                [] tier = "pmem" -> c.pmem[k]
                [] tier = "ssd" -> c.block[k]
PinnedKeys == {h.key : h \in handles}
NewStamp == 1 + FoldFunction(LAMBDA a, b : IF a > b THEN a ELSE b, 0, stamp)

\* CacheInstance::new: only the instance's own tier has room.
Init ==
    /\ tier \in {"memory", "pmem", "ssd"}
    /\ \E n \in Sizes \ {0} :
          cache = [EmptyInner(IF tier = "memory" THEN n ELSE 0, IF tier = "pmem" THEN n ELSE 0,
                              IF tier = "ssd" THEN n ELSE 0) EXCEPT !.ssd_only = (tier = "ssd")]
    /\ stamp = [k \in Keys |-> 0]
    /\ handles = {}

\* The SSD branch of test_insert_for_tier: room for the whole block is made
\* whatever the key's block already takes, and a block longer than the tier is
\* written all the same.
InsertedOnSsd(c, k, v) ==
    {RecordMetadata(IndexInsert(WriteSsdBlock(d, k, v), k, v), k)
        : d \in EvictSsd(c, BlockLen[v], PinnedKeys)}

\* put, put_cache_buffer, async_put: test_insert_for_tier.
Inserted(c, k, v) ==
    CASE tier = "memory" -> PutMemory(RecordMetadata(c, k), k, v, PinnedKeys)
      [] tier = "pmem" -> PutPmem(RecordMetadata(c, k), k, v, PinnedKeys)
      [] tier = "ssd" -> InsertedOnSsd(c, k, v)

\* put_bypass_storage_for_tier: a block that already has these bytes is listed
\* again and not written.
BypassInserted(c, k, v) ==
    IF tier = "ssd" /\ c.block[k] = v THEN {RecordMetadata(IndexInsert(c, k, v), k)}
    ELSE Inserted(c, k, v)

\* A value the tier cannot hold leaves the one it has, and the call answers Ok.
Takes(v) == CASE tier = "memory" -> MemoryTakes(cache, v)
              [] tier = "pmem" -> PmemTakes(cache, v)
              [] tier = "ssd" -> TRUE

Restamped(k, v) == stamp' = IF Takes(v) THEN [stamp EXCEPT ![k] = NewStamp] ELSE stamp

Put(k, v) ==
    /\ NewStamp <= MaxStamp
    /\ cache' \in Inserted(cache, k, v)
    /\ Restamped(k, v)
    /\ UNCHANGED <<tier, handles>>

PutBypass(k, v) ==
    /\ NewStamp <= MaxStamp
    /\ cache' \in BypassInserted(cache, k, v)
    /\ Restamped(k, v)
    /\ UNCHANGED <<tier, handles>>

\* get_cache_buffer: test_acquire pins what the tier holds.
GetBuffer(k) ==
    /\ Held(cache, k) # None /\ Cardinality(handles) < MaxHandles
    /\ handles' = handles \cup {[key |-> k, value |-> Held(cache, k), stamp |-> stamp[k]]}
    /\ UNCHANGED <<tier, cache, stamp>>

\* Fault: a block of which no room could be made stays out of the index.
UpdatedOnSsdUnrestored(c, k, v) ==
    LET out == IndexRemove(c, k)
    IN {IF d.ssd_bytes + BlockLen[v] > c.ssd_capacity THEN d
        ELSE RecordMetadata(IndexInsert(WriteSsdBlock(d, k, v), k, v), k)
        : d \in EvictSsd(out, BlockLen[v], PinnedKeys)}

\* The SSD branch of update_cached_value_if_current_for_tier: the old block
\* leaves the index while room is made, and comes back when there is none.
UpdatedOnSsd(c, k, v) ==
    LET out == IndexRemove(c, k)
        restored(d) == [d EXCEPT !.disk_index[k] = c.disk_index[k],
                                 !.disk_order = @ \cup {k},
                                 !.ssd_bytes = @ + IndexedLen(c, k)]
    IN {IF d.ssd_bytes + BlockLen[v] > c.ssd_capacity THEN restored(d)
        ELSE RecordMetadata(IndexInsert(WriteSsdBlock(d, k, v), k, v), k)
        : d \in EvictSsd(out, BlockLen[v], PinnedKeys)}

\* Replacing in place: the bytes change, no room is made and no order moves.
UpdatedInPlace(c, k, v) ==
    IF tier = "memory"
    THEN [c EXCEPT !.memory[k] = v, !.memory_bytes = Monus(@, LenOf(c.memory[k])) + Size[v]]
    ELSE [c EXCEPT !.pmem[k] = v, !.pmem_bytes = Monus(@, LenOf(c.pmem[k])) + Size[v]]

\* Whether the handle still describes what the tier holds.
Current(h) ==
    /\ Held(cache, h.key) # None
    /\ IF tier = "ssd" THEN Held(cache, h.key) = h.value ELSE stamp[h.key] = h.stamp

\* update, update_by_old_data
Update(h, v) ==
    /\ Current(h) /\ NewStamp <= MaxStamp
    /\ IF tier = "ssd"
       THEN /\ BlockLen[v] <= cache.ssd_capacity
            /\ cache' \in UpdatedOnSsd(cache, h.key, v)
       ELSE cache' = UpdatedInPlace(cache, h.key, v)
    /\ stamp' = [stamp EXCEPT ![h.key] = NewStamp]
    /\ UNCHANGED <<tier, handles>>

\* delete: test_remove_for_tier.
Delete(k) ==
    /\ cache' = ForgetMetadataUnlessResident(
                    CASE tier = "memory" -> DropStaleMemory(cache, k)
                      [] tier = "pmem" -> [TakePmemResident(cache, k) EXCEPT !.pmem_order = @ \ {k}]
                      [] tier = "ssd" -> IndexRemove(DeleteSsdBlock(cache, k, TRUE), k), k)
    /\ UNCHANGED <<tier, stamp, handles>>

Evicted(c, pinned) ==
    CASE tier = "memory" -> EvictMemory(c, pinned)
      [] tier = "pmem" -> EvictPmem(c, pinned)
      [] tier = "ssd" -> EvictSsd(c, 0, pinned)

\* Dropping a buffer releases its pin; a tier the pin held above its capacity
\* is brought down again.
DropBuffer(h) ==
    /\ handles' = handles \ {h}
    /\ cache' \in Evicted(cache, {g.key : g \in handles \ {h}})
    /\ UNCHANGED <<tier, stamp>>

\* set_capacity_for_instance, set_capacity_for_tier
SetCapacity(n) ==
    /\ cache' \in Evicted(CASE tier = "memory" -> [cache EXCEPT !.memory_capacity = n]
                            [] tier = "pmem" -> [cache EXCEPT !.pmem_capacity = n]
                            [] tier = "ssd" -> [cache EXCEPT !.ssd_capacity = n], PinnedKeys)
    /\ UNCHANGED <<tier, stamp, handles>>

\* reset: clear_all_locked. Buffers already out stay valid.
Reset ==
    /\ cache' = ClearAll(cache, TRUE)
    /\ UNCHANGED <<tier, stamp, handles>>

Next ==
    \/ \E k \in Keys, v \in Values : Put(k, v) \/ PutBypass(k, v)
    \/ \E k \in Keys : GetBuffer(k) \/ Delete(k)
    \/ \E h \in handles, v \in Values : Update(h, v)
    \/ \E h \in handles : DropBuffer(h)
    \/ \E n \in Sizes : SetCapacity(n)
    \/ Reset

Spec == Init /\ [][Next]_vars

-----------------------------------------------------------------------------
\* After any sequence of puts, updates (refused ones too), deletes and capacity
\* changes, each counter is the length of what its tier holds, the index lists
\* exactly the blocks the store returns with their lengths, and every resident
\* entry is in its tier's order: nothing is held that no eviction can reach.
InstanceIsExact ==
    /\ cache.memory_bytes = MemoryBytesHeld(cache)
    /\ cache.pmem_bytes = PmemBytesHeld(cache)
    /\ cache.ssd_bytes = SsdBytesHeld(cache)
    /\ cache.memory_order = {k \in Keys : InMemory(cache, k)}
    /\ cache.pmem_order = {k \in Keys : InPmem(cache, k)}
    /\ cache.disk_order = {k \in Keys : Indexed(cache, k)}
    /\ \A k \in Keys : cache.disk_index[k] =
          IF cache.block[k] = None THEN None ELSE BlockLen[cache.block[k]]
=============================================================================
