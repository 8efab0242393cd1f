------------------------------ MODULE Evictions ------------------------------
(***************************************************************************)
(* The eviction loops of CacheInner, run to their end within one call. A   *)
(* loop is an operator from a cache record to the set of records it may    *)
(* leave: the victim is any entry the tier lists that is not pinned, which *)
(* is what every replacement policy chooses from (VictimChoice has the     *)
(* policies themselves), and the SSD write budget admits a demotion or     *)
(* does not. TieredCache takes the same loops one victim at a time; here   *)
(* they serve the calls that evict several times before they return.       *)
(*                                                                         *)
(* Writes succeed here and nothing expires: TieredCache has those cases.   *)
(***************************************************************************)
EXTENDS CacheInner, Functions

CONSTANT Demotes      \* eviction_handler_enabled

RECURSIVE EvictSsd(_, _, _), EvictPmem(_, _), EvictMemory(_, _)

\* evict_ssd_for_batch: victims leave the index until `incoming` bytes fit.
EvictSsd(c, incoming, pinned) ==
    IF c.ssd_bytes + incoming <= c.ssd_capacity \/ c.disk_order \subseteq pinned THEN {c}
    ELSE UNION {EvictSsd(DeleteSsdBlock(ForgetMetadataUnlessResident(IndexRemove(c, k), k), k, TRUE),
                         incoming, pinned) : k \in c.disk_order \ pinned}

\* put_ssd_bypass_if_absent: a victim from above is stored unless the index has
\* its key, the write budget refuses it or no room can be made.
PutSsdBypassIfAbsent(c, k, v, pinned) ==
    IF Indexed(c, k) \/ c.ssd_capacity = 0 \/ BlockLen[v] > c.ssd_capacity THEN {c}
    ELSE {c} \cup
         {IF d.ssd_bytes + BlockLen[v] > c.ssd_capacity THEN d
          ELSE IndexInsert(WriteSsdBlock(d, k, v), k, v) : d \in EvictSsd(c, BlockLen[v], pinned)}

\* evict_pmem_to_capacity_since, with demote_pmem_victim.
EvictPmem(c, pinned) ==
    IF c.pmem_bytes <= c.pmem_capacity \/ c.pmem_order \subseteq pinned THEN {c}
    ELSE UNION {LET gone == [TakePmemResident(c, k) EXCEPT !.pmem_order = @ \ {k}]
                    left == IF ~ InPmem(c, k) \/ ~ Demotes THEN {gone}
                            ELSE PutSsdBypassIfAbsent(gone, k, c.pmem[k], pinned)
                IN UNION {EvictPmem(IF InPmem(c, k) THEN ForgetMetadataUnlessResident(d, k) ELSE d,
                                    pinned) : d \in left}
                : k \in c.pmem_order \ pinned}

\* put_pmem_shared answers TRUE for a value PMEM can hold.
PmemTakes(c, v) == c.pmem_capacity > 0 /\ Size[v] <= c.pmem_capacity

\* put_pmem_shared, put_pmem
PutPmem(c, k, v, pinned) ==
    IF PmemTakes(c, v) THEN EvictPmem(MakePmemResident(Noted(c, k), k, v), pinned)
    ELSE {Noted(c, k)}

\* demote_memory_victim
DemoteMemoryVictim(c, k, v, pinned) ==
    IF ~ Demotes THEN {c}
    ELSE IF Tiered /\ c.pmem_capacity > 0
         THEN IF InPmem(c, k) THEN {c} ELSE PutPmem(c, k, v, pinned)
         ELSE PutSsdBypassIfAbsent(c, k, v, pinned)

\* evict_memory_to_capacity_since
EvictMemory(c, pinned) ==
    IF c.memory_bytes <= c.memory_capacity \/ c.memory_order \subseteq pinned THEN {c}
    ELSE UNION {LET gone == [TakeResident(c, k) EXCEPT !.memory_order = @ \ {k}]
                    left == IF InMemory(c, k) THEN DemoteMemoryVictim(gone, k, c.memory[k], pinned)
                            ELSE {gone}
                IN UNION {EvictMemory(IF InMemory(c, k) THEN ForgetMetadataUnlessResident(d, k) ELSE d,
                                      pinned) : d \in left}
                : k \in c.memory_order \ pinned}

\* put_memory_shared answers TRUE for a value memory can hold; the admission
\* filter is off, as it is by default.
MemoryTakes(c, v) == c.memory_capacity > 0 /\ Size[v] <= c.memory_capacity

\* put_memory_shared, put_memory
PutMemory(c, k, v, pinned) ==
    IF MemoryTakes(c, v) THEN EvictMemory(MakeResident(c, k, v), pinned) ELSE {c}

TotalOf(lengths) == FoldFunction(+, 0, lengths)

\* What the three byte counters have to say.
SsdBytesHeld(c) == TotalOf([k \in Keys |-> IndexedLen(c, k)])
MemoryBytesHeld(c) == TotalOf([k \in Keys |-> LenOf(c.memory[k])])
PmemBytesHeld(c) == TotalOf([k \in Keys |-> LenOf(c.pmem[k])])
=============================================================================
