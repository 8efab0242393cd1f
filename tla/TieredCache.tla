---------------------------- MODULE TieredCache ----------------------------
(***************************************************************************)
(* One MultiLayerCache: callers that put, read, invalidate, expire, pin and *)
(* resize, over the memory, PMEM and SSD tiers.                            *)
(*                                                                         *)
(* A method that takes the write lock runs to completion before any other  *)
(* critical section. Its straight-line parts are operators of CacheInner;  *)
(* where it loops or chooses, it is a sequence of steps. `todo` is the     *)
(* stack of what the lock holder still has to do, and the lock is free     *)
(* exactly when it is empty.                                               *)
(*                                                                         *)
(* A read is several critical sections. get_shared looks at the volatile   *)
(* tiers under the read lock, releases it, reads the SSD block and the     *)
(* probe epoch under the read lock, releases it again to decode, and       *)
(* installs the block under the write lock. `reader` keeps what a read     *)
(* carries from one section to the next.                                   *)
(*                                                                         *)
(* `allowed` and `seen` are history. allowed[k] is what the last completed *)
(* operation on k says a read may find: the value of the last put, or      *)
(* nothing after an invalidation or an expiry. seen[r] collects every      *)
(* value that was allowed at some moment of r's current read.              *)
(*                                                                         *)
(* "Fault:" marks a broken variant of the definition after it, as in       *)
(* CacheInner.                                                             *)
(***************************************************************************)
EXTENDS CacheInner, Sequences, Functions

CONSTANTS MemoryCapacities, PmemCapacities, SsdCapacities,
          WriteThrough,   \* ssd_write_through
          FilterOn,       \* admission_filter_enabled
          BudgetOn,       \* an SSD write budget is set and may refuse a key
          DemoteOn,       \* eviction_handler_enabled
          PmemPaths,      \* pmem_paths is not empty
          Faults,         \* the I/O operations that may fail
          Calls,          \* the groups of calls the callers make
          Heats,          \* the hotness classes of the puts, see Decide
          MaxPins         \* bound on the handles of one key

ASSUME CacheAssumption ==
    /\ MemoryCapacities \subseteq Nat /\ PmemCapacities \subseteq Nat /\ SsdCapacities \subseteq Nat
    /\ {WriteThrough, FilterOn, BudgetOn, DemoteOn, PmemPaths} \subseteq BOOLEAN
    /\ Faults \subseteq {"pmemPut", "pmemDelete", "pmemClear", "ssdWrite",
                         "ssdDelete", "manifest"}
    /\ Calls \subseteq {"put", "ttl", "invalidate", "clear", "capacity", "pin", "stop",
                        "ssdOnly", "memoryOnly"}
    /\ Heats \subseteq 0 .. 3
    /\ MaxPins \in Nat

VARIABLES cache,    \* the CacheInner record
          pins,     \* pins[k]: handles out on k, kept in the pin stripes
          reclaims, \* releases that saw a tier over its capacity and have not
                    \* come back with the write lock yet
          todo,     \* what the holder of the write lock still has to do
          req,      \* the put in progress
          reader,   \* where each read is
          allowed, seen

vars == <<cache, pins, reclaims, todo, req, reader, allowed, seen>>

NoReq == [active |-> FALSE]
IdleReader == [at |-> "idle"]

Init ==
    /\ \E m \in MemoryCapacities, p \in PmemCapacities, s \in SsdCapacities :
          cache = EmptyInner(m, p, s)
    /\ pins = [k \in Keys |-> 0]
    /\ reclaims = 0
    /\ todo = <<>>
    /\ req = NoReq
    /\ reader = [r \in Readers |-> IdleReader]
    /\ allowed = [k \in Keys |-> {}]
    /\ seen = [r \in Readers |-> {}]

Unlocked == todo = <<>>

\* Whether an I/O operation succeeds. The store a stopped cache has stopped
\* refuses every call.
Ok(fault) ==
    IF ~ cache.started /\ fault \in {"ssdWrite", "ssdDelete"} THEN {FALSE}
    ELSE IF fault \in Faults THEN BOOLEAN ELSE {TRUE}

\* What a read of k finds once writing v there failed. A file may have been
\* written before the store refused its record.
Leftovers(k, v) == IF cache.started THEN {cache.block[k], v} ELSE {cache.block[k]}

Pinned(k) == pins[k] > 0

\* Fault: the victim search does not look at the pins.
OnOfferThoughPinned(order) == order

\* The keys of an eviction order that may be victims.
OnOffer(order) == {k \in order : ~ Pinned(k)}

\* The holder of the lock takes its next step, leaving cache c and replacing
\* the step by `steps`.
Doing(step) == todo # <<>> /\ Head(todo).step = step
Then(c, steps) ==
    /\ cache' = c
    /\ todo' = steps \o Tail(todo)
    /\ UNCHANGED <<pins, reclaims, reader, allowed, seen>>

\* What a read of k may find becomes vs.
Allow(k, vs) ==
    /\ allowed' = [allowed EXCEPT ![k] = vs]
    /\ seen' = [r \in Readers |->
                  IF reader[r].at # "idle" /\ reader[r].key = k
                  THEN seen[r] \cup vs ELSE seen[r]]

-----------------------------------------------------------------------------
(* Eviction and demotion: the loops every write path ends in.              *)

\* evict_memory_to_capacity_since, one round. Any unpinned key of the order
\* may be the victim: the replacement policy only says which.
EvictMemory ==
    /\ Doing("EvictMemory")
    /\ UNCHANGED req
    /\ IF cache.memory_bytes <= cache.memory_capacity \/ OnOffer(cache.memory_order) = {}
       THEN Then(cache, <<>>)
       ELSE \E k \in OnOffer(cache.memory_order) :
              LET v == cache.memory[k]
                  c == [TakeResident(cache, k) EXCEPT !.memory_order = @ \ {k}]
                  again == IF c.memory_bytes = cache.memory_bytes THEN <<>> ELSE <<Head(todo)>>
              IN IF v = None
                 THEN Then(c, <<Head(todo)>>)
                 ELSE Then(c, <<[step |-> "DemoteMemory", key |-> k, val |-> v],
                                [step |-> "Forget", key |-> k]>> \o again)

\* demote_memory_victim
DemoteMemory ==
    /\ Doing("DemoteMemory")
    /\ UNCHANGED req
    /\ LET k == Head(todo).key
           v == Head(todo).val
       IN IF ~ DemoteOn \/ Expired(cache, k) THEN Then(cache, <<>>)
          ELSE IF Tiered /\ cache.pmem_capacity > 0 /\ PmemPaths
          THEN IF InPmem(cache, k) THEN Then(cache, <<>>)
               ELSE Then(cache, <<[step |-> "PutPmem", key |-> k, val |-> v, fallback |-> FALSE]>>)
          ELSE Then(cache, <<[step |-> "SsdBypass", key |-> k, val |-> v]>>)

\* put_pmem_shared_with_persistence. A value it turns away leaves whatever the
\* tier held for the key.
PutPmem ==
    /\ Doing("PutPmem")
    /\ LET k == Head(todo).key
           v == Head(todo).val
           fits == cache.pmem_capacity > 0 /\ Size[v] <= cache.pmem_capacity
       IN \E persisted \in Ok("pmemPut") :
            /\ IF fits /\ persisted
               THEN Then(MakePmemResident(Noted(cache, k), k, v), <<[step |-> "EvictPmem"]>>)
               ELSE Then(Noted(cache, k), <<>>)
            /\ req' = IF Head(todo).fallback THEN [req EXCEPT !.fallback = fits /\ persisted]
                                             ELSE req

\* evict_pmem_to_capacity_since, one round, with demote_pmem_victim.
EvictPmem ==
    /\ Doing("EvictPmem")
    /\ UNCHANGED req
    /\ IF cache.pmem_bytes <= cache.pmem_capacity \/ OnOffer(cache.pmem_order) = {}
       THEN Then(cache, <<>>)
       ELSE \E k \in OnOffer(cache.pmem_order) :
              LET v == cache.pmem[k]
                  c == [TakePmemResident(cache, k) EXCEPT !.pmem_order = @ \ {k}]
                  again == IF c.pmem_bytes = cache.pmem_bytes THEN <<>> ELSE <<Head(todo)>>
                  demote == IF DemoteOn /\ cache.ssd_capacity > 0 /\ ~ Expired(cache, k)
                            THEN <<[step |-> "SsdBypass", key |-> k, val |-> v]>> ELSE <<>>
              IN IF v = None
                 THEN Then(c, <<Head(todo)>>)
                 ELSE Then(c, demote \o <<[step |-> "Forget", key |-> k]>> \o again)

\* The metadata rule at the end of an eviction round.
Forget ==
    /\ Doing("Forget")
    /\ UNCHANGED req
    /\ Then(ForgetMetadataUnlessResident(cache, Head(todo).key), <<>>)

\* put_ssd_bypass_if_absent up to the write: an indexed key is left alone.
SsdBypass ==
    /\ Doing("SsdBypass")
    /\ UNCHANGED req
    /\ LET k == Head(todo).key
           v == Head(todo).val
           fits == Size[v] <= cache.ssd_capacity /\ BlockLen[v] <= cache.ssd_capacity
       IN \E admitted \in IF BudgetOn THEN BOOLEAN ELSE {TRUE} :
            IF Indexed(cache, k) \/ cache.ssd_capacity = 0 \/ ~ admitted \/ ~ fits
            THEN Then(cache, <<>>)
            ELSE Then(cache, <<[step |-> "EvictSsd", need |-> BlockLen[v]],
                               [step |-> "WriteBypass", key |-> k, val |-> v]>>)

\* Fault: the index entries of the victims, like their blocks, go after the loop.
EvictSsdKeepingIndex ==
    /\ Doing("EvictSsd")
    /\ UNCHANGED req
    /\ IF cache.ssd_bytes + Head(todo).need <= cache.ssd_capacity \/ OnOffer(cache.disk_order) = {}
       THEN Then(cache, <<>>)
       ELSE \E k \in OnOffer(cache.disk_order) : Then(DeleteSsdBlock(cache, k, TRUE), <<Head(todo)>>)

\* evict_ssd_for_batch, one round. The code deletes the victims' blocks after
\* the loop, still under the lock.
EvictSsd ==
    /\ Doing("EvictSsd")
    /\ UNCHANGED req
    /\ IF cache.ssd_bytes + Head(todo).need <= cache.ssd_capacity \/ OnOffer(cache.disk_order) = {}
       THEN Then(cache, <<>>)
       ELSE \E k \in OnOffer(cache.disk_order), ok \in Ok("ssdDelete") :
              LET c == ForgetMetadataUnlessResident(IndexRemove(cache, k), k)
                  again == IF c.ssd_bytes = cache.ssd_bytes THEN <<>> ELSE <<Head(todo)>>
              IN Then(DeleteSsdBlock(c, k, ok), again)

\* The rest of put_ssd_bypass_if_absent. A block the manifest cannot record is
\* deleted again.
WriteBypass ==
    /\ Doing("WriteBypass")
    /\ UNCHANGED req
    /\ LET k == Head(todo).key
           v == Head(todo).val
       IN \E written \in Ok("ssdWrite"), recorded \in Ok("manifest"), undone \in Ok("ssdDelete") :
            IF cache.ssd_bytes + BlockLen[v] > cache.ssd_capacity THEN Then(cache, <<>>)
            ELSE IF ~ written
            THEN \E left \in Leftovers(k, v) : Then(WriteSsdBlock(cache, k, left), <<>>)
            ELSE IF ~ recorded THEN Then(DeleteSsdBlock(WriteSsdBlock(cache, k, v), k, undone), <<>>)
            ELSE Then(IndexInsert(WriteSsdBlock(cache, k, v), k, v), <<>>)

-----------------------------------------------------------------------------
(* put, put_shared, put_sized, put_with_ttl: put_with_request_shared.      *)

\* put takes the lock and asks for a placement. `life` is "default" for put,
\* "finite" and "never" for put_with_ttl with a positive and a zero ttl.
PutStart(k, v, heat, life) ==
    /\ Unlocked /\ "put" \in Calls
    /\ life = "default" \/ "ttl" \in Calls
    /\ cache.started
    /\ LET d == Decide(cache, v, heat, Pinned(k))
           upper == ~ cache.ssd_only
           ssdEnabled == cache.ssd_capacity > 0 \/ cache.ssd_only
       IN req' = [active |-> TRUE, key |-> k, val |-> v, life |-> life,
                  memory |-> d.memory /\ upper, pmem |-> d.pmem /\ upper,
                  ssd |-> ssdEnabled /\ (d.ssd \/ WriteThrough \/ cache.ssd_only),
                  fallback |-> FALSE, outcome |-> "none"]
    /\ todo' = <<[step |-> "Sweep"], [step |-> "PutMemory"], [step |-> "PutPmemPart"],
                 [step |-> "PutSsd"], [step |-> "PutFinish"]>>
    /\ UNCHANGED <<cache, pins, reclaims, reader, allowed, seen>>

\* sweep_some_expired. With no more keys than EXPIRY_SWEEP_PER_WRITE every
\* expired entry that some order lists and nobody pins goes.
Sweep ==
    /\ Doing("Sweep")
    /\ UNCHANGED req
    /\ LET due == {k \in cache.memory_order \cup cache.pmem_order \cup cache.disk_order :
                     Expired(cache, k) /\ ~ Pinned(k)}
       IN IF due = {} THEN Then(cache, <<>>)
          ELSE \E k \in due, ok \in Ok("ssdDelete") :
                 Then(RemoveExpiredEntry(cache, k, ok), <<Head(todo)>>)

\* The refusals of put_memory_shared: no capacity, an oversize value, or a
\* full tier whose filter prefers the entry it would have to evict.
MemoryAdmits(c, k, v) ==
    IF c.memory_capacity = 0 \/ Size[v] > c.memory_capacity THEN {FALSE}
    ELSE IF /\ FilterOn /\ c.memory_bytes + Size[v] > c.memory_capacity
            /\ OnOffer(c.memory_order) # {}
    THEN BOOLEAN ELSE {TRUE}

\* The memory part of put_with_request_inner.
PutMemory ==
    /\ Doing("PutMemory")
    /\ UNCHANGED req
    /\ LET k == req.key
           v == req.val
           c == RecordMetadata(cache, k)
       IN IF req.memory
          THEN \E admitted \in MemoryAdmits(c, k, v) :
                 IF admitted
                 THEN Then(MakeResident(c, k, v), <<[step |-> "EvictMemory"]>>)
                 ELSE IF Tiered /\ c.pmem_capacity > 0
                 THEN Then(RecordMetadata(c, k),
                           <<[step |-> "PutPmem", key |-> k, val |-> v, fallback |-> TRUE]>>)
                 ELSE Then(c, <<>>)
          ELSE Then(IF cache.ssd_only THEN cache ELSE DropStaleMemory(cache, k), <<>>)

\* Fault: a PMEM copy that could not be deleted is not reported.
PutPmemPartIgnoringErrors ==
    /\ Doing("PutPmemPart")
    /\ UNCHANGED req
    /\ IF req.pmem /\ ~ req.fallback
       THEN Then(RecordMetadata(cache, req.key),
                 <<[step |-> "PutPmem", key |-> req.key, val |-> req.val, fallback |-> FALSE]>>)
       ELSE \E deleted \in Ok("pmemDelete") :
              IF cache.ssd_only \/ req.fallback \/ ~ deleted THEN Then(cache, <<>>)
              ELSE Then(DropStalePmem(cache, req.key), <<>>)

\* The PMEM part. What put_pmem_shared answers is not looked at.
PutPmemPart ==
    /\ Doing("PutPmemPart")
    /\ LET k == req.key
       IN IF req.pmem /\ ~ req.fallback
          THEN /\ Then(RecordMetadata(cache, k),
                       <<[step |-> "PutPmem", key |-> k, val |-> req.val, fallback |-> FALSE]>>)
               /\ UNCHANGED req
          ELSE \E deleted \in Ok("pmemDelete") :
                 IF cache.ssd_only \/ req.fallback
                 THEN Then(cache, <<>>) /\ UNCHANGED req
                 ELSE IF InPmem(cache, k) /\ ~ deleted
                 THEN Then(cache, <<>>) /\ req' = [req EXCEPT !.outcome = "err"]
                 ELSE Then(DropStalePmem(cache, k), <<>>) /\ UNCHANGED req

\* The SSD part up to make_room_for_ssd_install: the early returns of Ok(false).
PutSsd ==
    /\ Doing("PutSsd")
    /\ LET k == req.key
           v == req.val
           refuse == Then(cache, <<>>) /\ req' = [req EXCEPT !.outcome = "no"]
           fits == Size[v] <= cache.ssd_capacity /\ BlockLen[v] <= cache.ssd_capacity
       IN IF req.outcome = "err" THEN Then(cache, <<>>) /\ UNCHANGED req
          ELSE IF ~ req.ssd \/ ~ fits THEN refuse
          ELSE \/ BudgetOn /\ refuse
               \/ ProjectedSsdBytes(cache, k, v) > cache.ssd_capacity /\ refuse
               \/ /\ Then(cache, <<[step |-> "MakeRoom", before |-> None],
                                   [step |-> "WriteSsd"]>>)
                  /\ UNCHANGED req

\* make_room_for_ssd_install, one round: evict, and give up when a round of
\* eviction freed nothing.
MakeRoom ==
    /\ Doing("MakeRoom")
    /\ LET projected == ProjectedSsdBytes(cache, req.key, req.val)
           over == projected - cache.ssd_capacity
           before == Head(todo).before
       IN IF projected <= cache.ssd_capacity THEN Then(cache, <<>>) /\ UNCHANGED req
          ELSE IF before # None /\ cache.ssd_bytes >= before
          THEN Then(cache, <<>>) /\ req' = [req EXCEPT !.outcome = "no"]
          ELSE /\ Then(cache, <<[step |-> "EvictSsd",
                                 need |-> Monus(cache.ssd_capacity, cache.ssd_bytes) + over],
                                [step |-> "MakeRoom", before |-> cache.ssd_bytes]>>)
               /\ UNCHANGED req

\* write_ssd_block, the index, the metadata and the manifest.
WriteSsd ==
    /\ Doing("WriteSsd")
    /\ LET k == req.key
           v == req.val
           stored == RecordMetadata(IndexInsert(WriteSsdBlock(cache, k, v), k, v), k)
       IN IF req.outcome = "no" THEN Then(cache, <<>>) /\ UNCHANGED req
          ELSE \E written \in Ok("ssdWrite"), recorded \in Ok("manifest") :
                 IF ~ written
                 THEN /\ \E left \in Leftovers(k, v) : Then(WriteSsdBlock(cache, k, left), <<>>)
                      /\ req' = [req EXCEPT !.outcome = "err"]
                 ELSE /\ Then(stored, <<>>)
                      /\ req' = [req EXCEPT !.outcome = IF recorded THEN "yes" ELSE "err"]

\* The tail of put_with_request_shared, and the expiry stamp of put_with_ttl.
PutFinish ==
    /\ Doing("PutFinish")
    /\ \E deleted \in Ok("ssdDelete"), recorded \in Ok("manifest") :
         LET k == req.key
             stale == req.outcome = "no" /\ Indexed(cache, k) /\ cache.block[k] # req.val
             failed == req.outcome = "err" \/ (stale /\ ~ (deleted /\ recorded))
             dropped == DeleteSsdBlock(cache, k, deleted)
             clean == ForgetMetadataUnlessResident(
                          IF stale THEN IndexRemove(dropped, k) ELSE cache, k)
             c == IF stale /\ ~ (deleted /\ recorded) THEN dropped ELSE clean
             stamp == req.life # "default" /\ ~ failed /\ Described(c, k)
         IN /\ cache' = IF stamp
                        THEN [c EXCEPT !.expiry[k] = IF req.life = "finite" THEN "live" ELSE "none"]
                        ELSE c
            /\ Allow(k, IF failed THEN allowed[k] \cup {req.val} ELSE {req.val})
    /\ todo' = Tail(todo)
    /\ req' = NoReq
    /\ UNCHANGED <<pins, reclaims, reader>>

-----------------------------------------------------------------------------
(* get_shared by reader r: a section under the read lock, then, unless a   *)
(* volatile tier answered at once, one or two more.                        *)

\* The reader's call returns.
Done(r) ==
    /\ reader' = [reader EXCEPT ![r] = IdleReader]
    /\ seen' = [seen EXCEPT ![r] = {}]

\* The first section. A memory hit, or a PMEM hit that is not to be promoted,
\* is answered here and changes nothing.
StartGet(r, k) ==
    /\ Unlocked /\ cache.started /\ reader[r].at = "idle"
    /\ LET served == ~ cache.ssd_only /\ (InMemory(cache, k) \/ InPmem(cache, k))
           promote == /\ served /\ ~ InMemory(cache, k)
                      /\ PmemShouldRefillMemory(cache, cache.pmem[k])
           next == IF Expired(cache, k) THEN [at |-> "expired", key |-> k]
                   ELSE IF promote THEN [at |-> "promote", key |-> k, val |-> cache.pmem[k]]
                   ELSE [at |-> "ssd", key |-> k]
       IN /\ Expired(cache, k) \/ promote \/ ~ served
          /\ reader' = [reader EXCEPT ![r] = next]
    /\ seen' = [seen EXCEPT ![r] = allowed[k]]
    /\ UNCHANGED <<cache, pins, reclaims, todo, req, allowed>>

\* The section that noticed an expired entry comes back to remove it.
RemoveExpired(r) ==
    /\ Unlocked /\ reader[r].at = "expired"
    /\ LET k == reader[r].key
       IN IF Expired(cache, k)
          THEN \E ok \in Ok("ssdDelete") : cache' = RemoveExpiredEntry(cache, k, ok)
          ELSE UNCHANGED cache
    /\ Done(r)
    /\ UNCHANGED <<pins, reclaims, todo, req, allowed>>

\* The second section of a read that missed: the block and the probe epoch.
ReadSsd(r) ==
    /\ Unlocked /\ reader[r].at = "ssd"
    /\ LET k == reader[r].key
           v == cache.block[k]
       IN IF v = None \/ ~ cache.started
          THEN Done(r) /\ UNCHANGED cache
          ELSE /\ reader' = [reader EXCEPT ![r] = [at |-> "refill", key |-> k, val |-> v]]
               /\ cache' = CaptureProbe(cache, r, k)
               /\ UNCHANGED seen
    /\ UNCHANGED <<pins, reclaims, todo, req, allowed>>

\* Fault: the journal is not asked.
MayRefillUnchecked(c, k, current) ==
    /\ c.started /\ ~ c.ssd_only
    /\ ~ InMemory(c, k) /\ ~ InPmem(c, k) /\ ~ Expired(c, k)

\* refill_ssd_probe's conditions, on the cache c the hit was recorded in.
MayRefill(c, k, current) ==
    /\ current
    /\ c.started /\ ~ c.ssd_only
    /\ ~ InMemory(c, k) /\ ~ InPmem(c, k) /\ ~ Expired(c, k)

\* The placement of a refill: the cache and the lock holder's next steps. A
\* value that goes to spare memory cancels no other reader's probe.
Refill(c, k, v, admitted) ==
    LET placed == MakeResident(c, k, v)
        spare == c.memory_bytes + Size[v] <= c.memory_capacity /\ c.ssd_capacity > 0
    IN IF ~ RefillTargetsMemory(c, v)
       THEN [cache |-> c,
             steps |-> <<[step |-> "PutPmem", key |-> k, val |-> v, fallback |-> FALSE]>>]
       ELSE IF ~ admitted THEN [cache |-> c, steps |-> <<>>]
       ELSE [cache |-> IF spare THEN [placed EXCEPT !.changed = c.changed] ELSE placed,
             steps |-> <<[step |-> "EvictMemory"]>>]

\* The last section of an SSD hit. The hit is recorded whatever happened to
\* the key meanwhile.
FinishSsd(r) ==
    /\ Unlocked /\ reader[r].at = "refill"
    /\ LET k == reader[r].key
           v == reader[r].val
           hit == DropProbe(RecordHit(cache, k), r)
       IN \/ /\ cache.ssd_only
             /\ cache' = IF cache.started THEN hit ELSE DropProbe(cache, r)
             /\ UNCHANGED todo
          \/ /\ ~ cache.ssd_only
             /\ \E current \in ProbeAnswers(cache, r, k), admitted \in MemoryAdmits(cache, k, v) :
                  LET refill == IF MayRefill(hit, k, current) THEN Refill(hit, k, v, admitted)
                                ELSE [cache |-> hit, steps |-> <<>>]
                  IN cache' = refill.cache /\ todo' = refill.steps
    /\ Done(r)
    /\ UNCHANGED <<pins, reclaims, req, allowed>>

\* promote_pmem_probe_if_current: only while PMEM still holds what was read.
Promote(r) ==
    /\ Unlocked /\ reader[r].at = "promote"
    /\ LET k == reader[r].key
           v == reader[r].val
           current == /\ cache.started /\ ~ cache.ssd_only
                      /\ ~ InMemory(cache, k) /\ ~ Expired(cache, k)
                      /\ cache.pmem[k] = v
           hit == RecordHit(cache, k)
       IN IF ~ current THEN UNCHANGED <<cache, todo>>
          ELSE \E admitted \in MemoryAdmits(cache, k, v) :
                 IF admitted /\ PmemShouldRefillMemory(cache, v)
                 THEN cache' = MakeResident(hit, k, v) /\ todo' = <<[step |-> "EvictMemory"]>>
                 ELSE cache' = hit /\ UNCHANGED todo
    /\ Done(r)
    /\ UNCHANGED <<pins, reclaims, req, allowed>>

-----------------------------------------------------------------------------
(* The other calls.                                                        *)

\* put_memory_only. It promises nothing of the tiers below, so what they hold
\* may still be read.
PutMemoryOnly(k, v) ==
    /\ Unlocked /\ "memoryOnly" \in Calls /\ cache.started
    /\ LET c == RecordMetadata(cache, k)
       IN \E admitted \in MemoryAdmits(c, k, v) :
            IF admitted
            THEN cache' = MakeResident(c, k, v) /\ todo' = <<[step |-> "EvictMemory"]>>
            ELSE cache' = c /\ UNCHANGED todo
    /\ Allow(k, allowed[k] \cup {v})
    /\ UNCHANGED <<pins, reclaims, req, reader>>

\* Fault: one handle is taken off instead of the whole entry.
UnpinOneUnless(kept, k) == pins' = [pins EXCEPT ![k] = IF kept THEN @ ELSE @ - 1]

\* What invalidation does to a key's pin entry: a held key that some tier gave
\* up keeps it, any other loses it with all its handles.
UnpinUnless(kept, k) == pins' = [pins EXCEPT ![k] = IF kept THEN @ ELSE 0]

\* invalidate_memory_only
DropVolatile(k) ==
    /\ Unlocked /\ "memoryOnly" \in Calls /\ cache.started
    /\ cache' = InvalidateMemoryOnly(cache, k)
    /\ UnpinUnless(LenOf(cache.memory[k]) + LenOf(cache.pmem[k]) > 0, k)
    /\ UNCHANGED <<reclaims, todo, req, reader, allowed, seen>>

\* invalidate
Invalidate(k) ==
    /\ Unlocked /\ "invalidate" \in Calls /\ cache.started
    /\ \E ok \in Ok("ssdDelete") : cache' = InvalidateKey(cache, k, ok)
    /\ UnpinUnless(LenOf(cache.memory[k]) + LenOf(cache.pmem[k]) + IndexedLen(cache, k) > 0, k)
    /\ Allow(k, {})
    /\ UNCHANGED <<reclaims, todo, req, reader>>

\* remove_all and reset. Every pin entry goes, whoever holds a handle.
Clear ==
    /\ Unlocked /\ "clear" \in Calls
    /\ \E wiped \in IF PmemPaths THEN Ok("pmemClear") ELSE {TRUE}, ok \in Ok("ssdDelete") :
         /\ cache' = IF wiped THEN ClearAll(cache, ok) ELSE HalfCleared(cache)
         /\ pins' = IF wiped THEN [k \in Keys |-> 0] ELSE pins
         /\ allowed' = IF wiped /\ ok THEN [k \in Keys |-> {}] ELSE allowed
    /\ UNCHANGED <<reclaims, todo, req, reader, seen>>

\* set_capacity_for_tier
SetMemoryCapacity(m) ==
    /\ Unlocked /\ "capacity" \in Calls
    /\ cache' = [cache EXCEPT !.memory_capacity = m]
    /\ todo' = <<[step |-> "EvictMemory"]>>
    /\ UNCHANGED <<pins, reclaims, req, reader, allowed, seen>>
SetPmemCapacity(p) ==
    /\ Unlocked /\ "capacity" \in Calls
    /\ cache' = [cache EXCEPT !.pmem_capacity = p]
    /\ todo' = <<[step |-> "EvictPmem"]>>
    /\ UNCHANGED <<pins, reclaims, req, reader, allowed, seen>>
SetSsdCapacity(s) ==
    /\ Unlocked /\ "capacity" \in Calls
    /\ cache' = [cache EXCEPT !.ssd_capacity = s]
    /\ todo' = <<[step |-> "EvictSsd", need |-> 0]>>
    /\ UNCHANGED <<pins, reclaims, req, reader, allowed, seen>>

\* set_ssd_instance_only
SetSsdOnly(enabled) ==
    /\ Unlocked /\ "ssdOnly" \in Calls
    /\ cache' = [(IF enabled THEN ClearVolatile(cache) ELSE cache) EXCEPT !.ssd_only = enabled]
    /\ UNCHANGED <<pins, reclaims, todo, req, reader, allowed, seen>>

\* start and stop, without recovery.
SetStarted(started) ==
    /\ Unlocked /\ "stop" \in Calls /\ cache.started # started
    /\ cache' = [cache EXCEPT !.started = started]
    /\ UNCHANGED <<pins, reclaims, todo, req, reader, allowed, seen>>

\* pin, acquire
Pin(k) ==
    /\ Unlocked /\ "pin" \in Calls /\ cache.started
    /\ pins[k] < MaxPins
    /\ pins' = [pins EXCEPT ![k] = @ + 1]
    /\ UNCHANGED <<cache, reclaims, todo, req, reader, allowed, seen>>

OverMemory == cache.memory_bytes > cache.memory_capacity
OverPmem == cache.pmem_bytes > cache.pmem_capacity
OverSsd == cache.ssd_bytes > cache.ssd_capacity

\* Fault: a release never comes back to reclaim.
UnpinAndForget(k) ==
    /\ Unlocked /\ "pin" \in Calls
    /\ pins[k] > 0 /\ reclaims < MaxPins
    /\ pins' = [pins EXCEPT ![k] = @ - 1]
    /\ UNCHANGED <<cache, reclaims, todo, req, reader, allowed, seen>>

\* unpin, release: gives the handle back under the read lock, and asks there
\* whether to come back for the write lock.
Unpin(k) ==
    /\ Unlocked /\ "pin" \in Calls
    /\ pins[k] > 0 /\ reclaims < MaxPins
    /\ pins' = [pins EXCEPT ![k] = @ - 1]
    /\ reclaims' = IF OverMemory \/ OverPmem \/ OverSsd THEN reclaims + 1 ELSE reclaims
    /\ UNCHANGED <<cache, todo, req, reader, allowed, seen>>

\* reclaim_after_release
Reclaim ==
    /\ Unlocked /\ reclaims > 0
    /\ reclaims' = reclaims - 1
    /\ todo' = <<[step |-> "EvictMemory"], [step |-> "EvictPmem"],
                 [step |-> "EvictSsd", need |-> 0]>>
    /\ UNCHANGED <<cache, pins, req, reader, allowed, seen>>

\* The clock passes an entry's expiry. Time moves between critical sections.
Lapse(k) ==
    /\ Unlocked /\ cache.expiry[k] = "live"
    /\ cache' = [cache EXCEPT !.expiry[k] = "lapsed"]
    /\ Allow(k, {})
    /\ UNCHANGED <<pins, reclaims, todo, req, reader>>

\* set_default_ttl
SetDefaultTtl(on) ==
    /\ Unlocked /\ "ttl" \in Calls
    /\ cache' = [cache EXCEPT !.default_ttl = on]
    /\ UNCHANGED <<pins, reclaims, todo, req, reader, allowed, seen>>

\* purge_expired: every lapsed entry, pinned or not, on a stopped cache too.
PurgeStart ==
    /\ Unlocked /\ "ttl" \in Calls
    /\ todo' = <<[step |-> "Purge"]>>
    /\ UNCHANGED <<cache, pins, reclaims, req, reader, allowed, seen>>
Purge ==
    /\ Doing("Purge")
    /\ UNCHANGED req
    /\ LET due == {k \in Keys : Expired(cache, k)}
       IN IF due = {} THEN Then(cache, <<>>)
          ELSE \E k \in due, ok \in Ok("ssdDelete") :
                 Then(RemoveExpiredEntry(cache, k, ok), <<Head(todo)>>)

-----------------------------------------------------------------------------
Lifetimes == {"default", "finite", "never"}

\* What the holder of the write lock does next.
LockHolder ==
    \/ EvictMemory \/ DemoteMemory \/ PutPmem \/ EvictPmem \/ Forget
    \/ SsdBypass \/ EvictSsd \/ WriteBypass
    \/ Sweep \/ PutMemory \/ PutPmemPart \/ PutSsd \/ MakeRoom \/ WriteSsd \/ PutFinish
    \/ Purge

Read(r) ==
    \/ \E k \in Keys : StartGet(r, k)
    \/ RemoveExpired(r)
    \/ ReadSsd(r)
    \/ FinishSsd(r)
    \/ Promote(r)

Write ==
    \/ \E k \in Keys, v \in Values, heat \in Heats, life \in Lifetimes : PutStart(k, v, heat, life)
    \/ \E k \in Keys, v \in Values : PutMemoryOnly(k, v)
    \/ \E k \in Keys : DropVolatile(k) \/ Invalidate(k)
    \/ Clear
    \/ PurgeStart

Manage ==
    \/ \E m \in MemoryCapacities : SetMemoryCapacity(m)
    \/ \E p \in PmemCapacities : SetPmemCapacity(p)
    \/ \E s \in SsdCapacities : SetSsdCapacity(s)
    \/ \E b \in BOOLEAN : SetSsdOnly(b) \/ SetStarted(b) \/ SetDefaultTtl(b)
    \/ \E k \in Keys : Pin(k) \/ Unpin(k) \/ Lapse(k)
    \/ Reclaim

Next == LockHolder \/ (\E r \in Readers : Read(r)) \/ Write \/ Manage

Spec == Init /\ [][Next]_vars

\* A thread inside the write lock keeps running. Nothing is assumed of the
\* threads that wait for it.
FairSpec == Spec /\ WF_vars(LockHolder)

-----------------------------------------------------------------------------
(* What is claimed of it.                                                  *)

Steps == {"EvictMemory", "DemoteMemory", "PutPmem", "EvictPmem", "Forget", "SsdBypass",
          "EvictSsd", "WriteBypass", "Sweep", "PutMemory", "PutPmemPart", "PutSsd", "MakeRoom",
          "WriteSsd", "PutFinish", "Purge"}

\* Every variable holds what its comment says. The byte counters are naturals
\* although the code subtracts from them in eleven places.
TypeOK ==
    /\ cache \in Inner
    /\ pins \in [Keys -> 0 .. MaxPins]
    /\ reclaims \in 0 .. MaxPins
    /\ \A i \in DOMAIN todo : todo[i].step \in Steps
    /\ req.active => req.key \in Keys /\ req.val \in Values
    /\ \A r \in Readers : reader[r].at \in {"idle", "ssd", "refill", "promote", "expired"}
    /\ allowed \in [Keys -> SUBSET Values]
    /\ seen \in [Readers -> SUBSET Values]

\* The copies of k that a read could be answered with.
Copies(k) == {cache.memory[k], cache.pmem[k], cache.block[k]} \ {None}

\* Between calls no tier holds, for an entry that has not expired, anything but
\* the value of the last put: nothing overwritten, invalidated, cleared or
\* expired is waiting in a lower tier, or is brought back into a higher one by
\* a read that left the lock (put_with_request_shared, drop_stale_tier_copy,
\* remove_expired_entry, refill_ssd_probe).
LastWriteWins ==
    Unlocked => \A k \in Keys : Expired(cache, k) \/ Copies(k) \subseteq allowed[k]

\* What a read is about to return was the value of its key at some moment since
\* the read began, however many calls got between its sections (get_shared).
ReadSawACurrentValue ==
    \A r \in Readers : reader[r].at \in {"refill", "promote"} => reader[r].val \in seen[r]

\* Each tier's byte counter is the sum of the lengths it holds, so that the
\* capacity checks compare with what is really there. The saturating
\* subtractions of the code would hide a counter that drifted.
BytesExact ==
    /\ cache.memory_bytes = SumFunctionOnSet([k \in Keys |-> LenOf(cache.memory[k])], Keys)
    /\ cache.pmem_bytes = SumFunctionOnSet([k \in Keys |-> LenOf(cache.pmem[k])], Keys)
    /\ cache.ssd_bytes = SumFunctionOnSet([k \in Keys |-> IndexedLen(cache, k)], Keys)

\* An entry's metadata is in one home only, the one metadata_of looks in, and
\* an entry some tier serves has metadata: expiry, hotness and eviction scores
\* are kept there (make_resident, take_resident, make_pmem_resident,
\* take_pmem_resident, forget_metadata_unless_resident).
MetadataAtHome ==
    /\ \A k \in Keys : cache.meta[k] # {} => Cardinality(cache.meta[k]) = 1 /\ Described(cache, k)
    /\ Unlocked => \A k \in Keys : InSomeTier(cache, k) => Described(cache, k)

\* What a tier holds its eviction order lists: nothing resident is out of the
\* reach of eviction.
NothingOutOfOrder ==
    /\ {k \in Keys : InMemory(cache, k)} \subseteq cache.memory_order
    /\ {k \in Keys : InPmem(cache, k)} \subseteq cache.pmem_order
    /\ {k \in Keys : Indexed(cache, k)} = cache.disk_order

\* Between calls the SSD index lists exactly the blocks the store would return,
\* with their lengths: no block is served that no eviction can reach.
IndexMatchesStore ==
    Unlocked => \A k \in Keys :
        cache.disk_index[k] = IF cache.block[k] = None THEN None ELSE BlockLen[cache.block[k]]

\* A tier above its capacity holds nothing but pinned entries, unless a release
\* that saw it so is still on its way to reclaim it (over_a_capacity,
\* reclaim_after_release).
OverOnlyWhenPinned ==
    Unlocked /\ reclaims = 0 =>
        /\ OverMemory => \A k \in Keys : InMemory(cache, k) => Pinned(k)
        /\ OverPmem => \A k \in Keys : InPmem(cache, k) => Pinned(k)
        /\ OverSsd => \A k \in Keys : Indexed(cache, k) => Pinned(k)

\* While another key's call holds the lock, no tier gives up its copy of a
\* pinned entry that has not expired: eviction, demotion and the expiry sweep
\* pass over it.
PinnedStays ==
    [][\A k \in Keys :
          todo # <<>> /\ Pinned(k) /\ ~ Expired(cache, k) /\ ~ (req.active /\ req.key = k) =>
              /\ InMemory(cache, k) => cache'.memory[k] = cache.memory[k]
              /\ InPmem(cache, k) => cache'.pmem[k] = cache.pmem[k]
              /\ Indexed(cache, k) => cache'.disk_index[k] = cache.disk_index[k]]_vars

\* Every call gives the lock back: no eviction, demotion, make-room or sweep
\* loop runs for ever, whatever the victims weigh.
LockReleased == todo # <<>> ~> todo = <<>>

-----------------------------------------------------------------------------
(* Two more statements the repository makes. The code does not keep the    *)
(* first, and keeps the second as long as no SSD read comes back late.     *)

\* A put that asks for no life of its own leaves its entry with the default
\* one, when one is set (set_default_ttl).
DefaultLifeGiven ==
    Doing("PutFinish") /\ req.life = "default" /\ cache.default_ttl
        /\ InSomeTier(cache, req.key) => cache.expiry[req.key] = "live"

\* With no read under way, an entry that has metadata is stored in some tier:
\* nothing is described that is not there (record_hit after an invalidation).
NothingDescribedThatIsGone ==
    Unlocked /\ (\A r \in Readers : reader[r].at = "idle") =>
        \A k \in Keys : cache.meta[k] # {} => InSomeTier(cache, k)
=============================================================================
