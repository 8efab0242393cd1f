------------------------------ MODULE PutBatch ------------------------------
(***************************************************************************)
(* MultiLayerCache::put_batch: many entries stored under one acquisition   *)
(* of the write lock. The upper tiers take each entry as it comes; its SSD *)
(* block is staged, and all staged blocks go to the store together at the  *)
(* end. Between the two, the entries that follow evict and demote, so what *)
(* was staged was weighed against an index that has moved since.           *)
(*                                                                         *)
(* One step per entry and one for the end of the batch: nothing else can   *)
(* run in between, but every entry finds the cache as the previous one     *)
(* left it. `staged` is the vector of pending writes, `positions` where a  *)
(* key is in it (0: nowhere), `rewrites` the values of the keys that had a *)
(* block on the way, `credit` the bytes the staged writes will free by     *)
(* replacing blocks, remembered with the probe epoch it was computed at.   *)
(* The reader Batch stands for that epoch: it is current while no mutation *)
(* has been noted since, that is while changed[Batch] is empty.            *)
(*                                                                         *)
(* `astray` is history: the keys with a block on the way that no list      *)
(* names. One kind is left by a batch whose writes or manifest failed with *)
(* the block written and not indexed; reads do not ask the index, and find *)
(* it. The other is left when a key's own entry, in making room above,     *)
(* demotes the key's older PMEM copy to the SSD after it has asked whether *)
(* the index has the key.                                                  *)
(***************************************************************************)
EXTENDS Evictions, Sequences, FiniteSetsExt

CONSTANTS Batch,        \* the only member of Readers
          Heats,        \* what a request's hotness passes (see Decide)
          WriteThrough, \* tiering_policy.ssd_write_through
          Capacities,   \* triples <<memory, PMEM, SSD>>
          PinSets,      \* sets of keys that are pinned throughout
          Batches,      \* sequences of [key, value] a caller may put
          MaxBatches

VARIABLES cache, pinned, batch, last, known, astray, calls
vars == <<cache, pinned, batch, last, known, astray, calls>>

\* A key whose value nobody has settled: never put, or its batch failed.
Nothing == [k \in Keys |-> None]
NoBatch == [open |-> FALSE, rest |-> <<>>, staged |-> <<>>, positions |-> [k \in Keys |-> 0],
            rewrites |-> Nothing, bytes |-> 0, credit |-> None]

Init == /\ \E t \in Capacities : cache = EmptyInner(t[1], t[2], t[3])
        /\ pinned \in PinSets
        /\ batch = NoBatch
        /\ last = Nothing /\ known = Nothing /\ astray = {}
        /\ calls = 0

CreditCurrent(c) == c.changed[Batch] = {}

\* Fault: the entry moved into the hole is still looked for where it was.
UnstageForgettingMoved(b, c, k) ==
    LET p == b.positions[k]
        end == Len(b.staged)
        credit == IF b.credit # None /\ CreditCurrent(c) THEN Monus(b.credit, IndexedLen(c, k))
                  ELSE b.credit
    IN IF p = 0 THEN b
       ELSE [b EXCEPT !.staged = SubSeq([@ EXCEPT ![p] = b.staged[end]], 1, end - 1),
                      !.positions[k] = 0,
                      !.bytes = Monus(@, BlockLen[b.staged[p].value]),
                      !.credit = credit]

\* Fault: the credit keeps counting a write that is no longer staged.
UnstageKeepingCredit(b, c, k) ==
    LET p == b.positions[k]
        end == Len(b.staged)
        found == [b.positions EXCEPT ![b.staged[end].key] = p]
    IN IF p = 0 THEN b
       ELSE [b EXCEPT !.staged = SubSeq([@ EXCEPT ![p] = b.staged[end]], 1, end - 1),
                      !.positions = [found EXCEPT ![k] = 0],
                      !.bytes = Monus(@, BlockLen[b.staged[p].value])]

\* A later entry for a staged key takes the earlier one back: swap_remove moves
\* the last staged write into its place.
Unstage(b, c, k) ==
    LET p == b.positions[k]
        end == Len(b.staged)
        found == [b.positions EXCEPT ![b.staged[end].key] = p]
        credit == IF b.credit # None /\ CreditCurrent(c) THEN Monus(b.credit, IndexedLen(c, k))
                  ELSE b.credit
    IN IF p = 0 THEN b
       ELSE [b EXCEPT !.staged = SubSeq([@ EXCEPT ![p] = b.staged[end]], 1, end - 1),
                      !.positions = [found EXCEPT ![k] = 0],
                      !.bytes = Monus(@, BlockLen[b.staged[p].value]),
                      !.credit = credit]

\* Fault: only the index is asked whether the key has a block on the way.
RewriteOnlyIfStaged(b, c, k, v) ==
    IF b.positions[k] # 0 THEN [b EXCEPT !.rewrites[k] = v] ELSE b

\* A key the index has, or that this batch has already rewritten, must not keep
\* its old block.
Rewrite(b, c, k, v) ==
    IF Indexed(c, k) \/ b.rewrites[k] # None THEN [b EXCEPT !.rewrites[k] = v] ELSE b

\* The bytes of the blocks the staged writes replace.
ReplacedBytes(c, b) ==
    TotalOf([k \in Keys |-> IF b.positions[k] # 0 THEN IndexedLen(c, k) ELSE 0])

UpperBound(s, v) == s.c.ssd_bytes + s.b.bytes + BlockLen[v]

\* projected_ssd_install_bytes, its effect: the credit is computed afresh when
\* the epoch it was remembered with has passed.
WithCredit(s, v) ==
    IF UpperBound(s, v) <= s.c.ssd_capacity \/ (s.b.credit # None /\ CreditCurrent(s.c)) THEN s
    ELSE [s EXCEPT !.b.credit = ReplacedBytes(s.c, s.b), !.c.changed[Batch] = {}]

\* projected_ssd_install_bytes, its answer.
Projected(s, k, v) ==
    IF UpperBound(s, v) <= s.c.ssd_capacity THEN UpperBound(s, v)
    ELSE Monus(s.c.ssd_bytes, s.b.credit + IndexedLen(s.c, k)) + s.b.bytes + BlockLen[v]

\* make_room_for_ssd_install: evict, project again, give up without progress.
RECURSIVE MakeRoom(_, _, _)
MakeRoom(s, k, v) ==
    LET t == WithCredit(s, v)
        projected == Projected(t, k, v)
        incoming == Monus(t.c.ssd_capacity, t.c.ssd_bytes) + projected - t.c.ssd_capacity
    IN IF projected <= t.c.ssd_capacity THEN {[state |-> t, ok |-> TRUE]}
       ELSE UNION {IF d.ssd_bytes >= t.c.ssd_bytes
                   THEN {[state |-> [t EXCEPT !.c = d], ok |-> FALSE]}
                   ELSE MakeRoom([t EXCEPT !.c = d], k, v)
                   : d \in EvictSsd(t.c, incoming, pinned)}

\* A memory that refuses hands a tiered value to PMEM.
FallsBack(c, v, decision) ==
    decision.memory /\ ~ MemoryTakes(c, v) /\ Tiered /\ c.pmem_capacity > 0

\* The memory part of an entry, with that fallback.
MemoryPart(c, k, v, decision) ==
    LET memory == IF decision.memory THEN PutMemory(RecordMetadata(c, k), k, v, pinned)
                  ELSE {DropStaleMemory(c, k)}
    IN IF FallsBack(c, v, decision)
       THEN UNION {PutPmem(RecordMetadata(d, k), k, v, pinned) : d \in memory}
       ELSE memory

\* Whether PMEM gives up an older copy: the decision passes it over and no value
\* fell back to it.
PassesPmemOver(c, v, decision) ==
    ~ (FallsBack(c, v, decision) /\ PmemTakes(c, v)) /\ ~ decision.pmem

\* The upper tiers' part: a tier the decision passes over gives up its old copy.
UpperTiers(c, k, v, decision) ==
    LET after == MemoryPart(c, k, v, decision)
    IN IF PassesPmemOver(c, v, decision) THEN {DropStalePmem(d, k) : d \in after}
       ELSE IF FallsBack(c, v, decision) /\ PmemTakes(c, v) THEN after
       ELSE UNION {PutPmem(RecordMetadata(d, k), k, v, pinned) : d \in after}

\* The block of k's value joins the staged writes.
Staged(s, k, v) ==
    [s.b EXCEPT !.bytes = @ + BlockLen[v],
                !.credit = IF @ # None /\ CreditCurrent(s.c) THEN @ + IndexedLen(s.c, k) ELSE @,
                !.positions[k] = Len(s.b.staged) + 1,
                !.staged = Append(@, [key |-> k, value |-> v])]

\* What staging may come to: refused (not admitted, too long, over the write
\* budget, colder than what is there, no room) or staged.
StageOutcomes(s, k, v, admitted) ==
    IF ~ admitted \/ BlockLen[v] > s.c.ssd_capacity THEN {s}
    ELSE {s} \cup
         LET t == WithCredit(s, v)
         IN (IF Projected(t, k, v) > s.c.ssd_capacity THEN {t} ELSE {}) \cup
            {IF room.ok THEN [room.state EXCEPT !.b = Staged(room.state, k, v)] ELSE room.state
             : room \in MakeRoom(t, k, v)}

-----------------------------------------------------------------------------
\* put_batch takes the lock.
Open(entries) ==
    /\ ~ batch.open /\ calls < MaxBatches
    /\ batch' = [NoBatch EXCEPT !.open = TRUE, !.rest = entries]
    /\ calls' = calls + 1
    /\ UNCHANGED <<cache, pinned, last, known, astray>>

\* The batch once the head of its entries has been taken up.
Begun == LET k == Head(batch.rest).key
         IN [Rewrite(Unstage(batch, cache, k), cache, k, Head(batch.rest).value)
                EXCEPT !.rest = Tail(@)]

\* Whether the SSD tier is offered the value.
AdmitSsd(decision) == cache.ssd_capacity > 0 /\ (decision.ssd \/ WriteThrough)

\* One round of the loop over the entries.
PutEntry ==
    /\ batch.open /\ batch.rest # <<>>
    /\ LET k == Head(batch.rest).key
           v == Head(batch.rest).value
       IN /\ \E heat \in Heats :
                LET decision == Decide(cache, v, heat, k \in pinned)
                IN \E c \in UpperTiers(cache, k, v, decision) :
                      \E s \in StageOutcomes([c |-> c, b |-> Begun], k, v, AdmitSsd(decision)) :
                          cache' = s.c /\ batch' = s.b
          /\ last' = [last EXCEPT ![k] = v]
          /\ astray' = IF Indexed(cache', k) /\ ~ Indexed(cache, k) /\ batch'.rewrites[k] = None
                       THEN astray \cup {k} ELSE astray
    /\ UNCHANGED <<pinned, known, calls>>

\* An error is returned: what was staged is dropped, and what the caller then
\* knows of the keys the batch had come to is nothing.
Abandon(put) ==
    /\ batch' = NoBatch
    /\ known' = [k \in Keys |-> IF put[k] # None THEN None ELSE known[k]]
    /\ last' = Nothing
    /\ UNCHANGED <<pinned, calls>>

\* An entry fails: the PMEM copy it should give up cannot be deleted, or its
\* block cannot be encoded. The upper tiers stay as they are by then.
EntryFails ==
    /\ batch.open /\ batch.rest # <<>>
    /\ LET k == Head(batch.rest).key
           v == Head(batch.rest).value
       IN /\ \E heat \in Heats :
                LET decision == Decide(cache, v, heat, k \in pinned)
                IN \/ /\ PassesPmemOver(cache, v, decision)
                      /\ \E c \in MemoryPart(cache, k, v, decision) : InPmem(c, k) /\ cache' = c
                   \/ AdmitSsd(decision) /\ cache' \in UpperTiers(cache, k, v, decision)
          /\ Abandon([last EXCEPT ![k] = v])
    /\ UNCHANGED astray

\* The keys whose old block nothing staged will replace.
StaleKeys(b, c) ==
    {k \in Keys : b.rewrites[k] # None /\ b.positions[k] = 0 /\ c.block[k] # b.rewrites[k]}

\* delete_ssd_blocks of the stale keys, of which those in `gone` lose their block.
StaleBlocksDeleted(c, b, gone) ==
    LET one(k, d) == DeleteSsdBlock(d, k, k \in gone)
    IN FoldSet(one, c, StaleKeys(b, c))

\* The index, the order and the metadata give up the stale keys.
Unlisted(c, keys) ==
    LET one(k, d) == ForgetMetadataUnlessResident(IndexRemove(d, k), k)
    IN FoldSet(one, c, keys)

StaleDeleted(c, b) ==
    Unlisted(StaleBlocksDeleted(c, b, StaleKeys(b, c)), StaleKeys(b, c))

\* write_ssd_blocks: the writes in `landed` leave their block.
BlocksWritten(c, b, landed) ==
    LET one(i, d) == LET entry == b.staged[i]
                     IN WriteSsdBlock(d, entry.key,
                                      IF i \in landed THEN entry.value ELSE d.block[entry.key])
    IN FoldSet(one, c, DOMAIN b.staged)

\* The index, the order, the counter and the metadata of the first n staged.
Listed(c, b, n) ==
    LET one(i, d) == LET entry == b.staged[i]
                     IN RecordMetadata(IndexInsert(d, entry.key, entry.value), entry.key)
    IN FoldSet(one, c, 1 .. n)

AllWritten(c, b) == Listed(BlocksWritten(c, b, DOMAIN b.staged), b, Len(b.staged))

\* Nothing of the epoch a credit was remembered with outlives the call.
Closed(c) == [c EXCEPT !.changed[Batch] = Keys]

Finish ==
    /\ batch.open /\ batch.rest = <<>>
    /\ cache' = Closed(AllWritten(StaleDeleted(cache, batch), batch))
    /\ batch' = NoBatch
    /\ known' = [k \in Keys |-> IF last[k] # None THEN last[k] ELSE known[k]]
    /\ last' = Nothing
    /\ astray' = {k \in astray : batch.rewrites[k] = None /\ batch.positions[k] = 0}
    /\ UNCHANGED <<pinned, calls>>

\* A stale block cannot be read, or the store refuses the deletes: the index
\* still lists every stale key, whether or not its block went.
StaleDeletesFail ==
    /\ batch.open /\ batch.rest = <<>>
    /\ \E k \in Keys : batch.rewrites[k] # None /\ batch.positions[k] = 0
    /\ \/ cache' = Closed(cache)
       \/ \E gone \in SUBSET StaleKeys(batch, cache) :
             cache' = Closed(StaleBlocksDeleted(cache, batch, gone))
    /\ Abandon(last)
    /\ UNCHANGED astray

\* The manifest refuses a delete: the blocks are gone, the index has given up
\* the keys before it.
StaleManifestFails ==
    /\ batch.open /\ batch.rest = <<>>
    /\ LET stale == StaleKeys(batch, cache)
       IN \E done \in SUBSET stale : /\ done # stale
                                     /\ cache' = Closed(Unlisted(StaleBlocksDeleted(cache, batch, stale),
                                                                 done))
    /\ Abandon(last)
    /\ UNCHANGED astray

\* The store refuses the blocks, some of which may have been written: nothing
\* staged is listed.
WritesFail ==
    /\ batch.open /\ batch.rest = <<>> /\ batch.staged # <<>>
    /\ \E landed \in SUBSET DOMAIN batch.staged :
          cache' = Closed(BlocksWritten(StaleDeleted(cache, batch), batch, landed))
    /\ astray' = astray \cup {entry.key : entry \in Range(batch.staged)}
    /\ Abandon(last)

\* The manifest refuses a put: every block is written, and the entries up to the
\* one it refused are listed.
ManifestFails ==
    /\ batch.open /\ batch.rest = <<>>
    /\ \E n \in DOMAIN batch.staged :
          /\ cache' = Closed(Listed(BlocksWritten(StaleDeleted(cache, batch), batch,
                                                 DOMAIN batch.staged), batch, n))
          /\ astray' = astray \cup {batch.staged[i].key : i \in n + 1 .. Len(batch.staged)}
    /\ Abandon(last)

Next ==
    \/ \E entries \in Batches : Open(entries)
    \/ PutEntry \/ EntryFails
    \/ Finish
    \/ StaleDeletesFail \/ StaleManifestFails \/ WritesFail \/ ManifestFails

Spec == Init /\ [][Next]_vars

-----------------------------------------------------------------------------
\* Once a batch has returned without an error, every copy of a key it put, in
\* whichever tier, is the last value the batch gave it: no earlier entry for the
\* key, no demoted copy and no older block survives (put_batch_with_requests).
\* Excepted is the block that is astray: one an earlier batch left when its writes
\* failed, or the key's own older PMEM copy pushed down by its own entry, in both
\* cases until a batch stages or rewrites the key.
LastEntryWins ==
    ~ batch.open => \A k \in Keys : known[k] # None =>
        /\ {cache.memory[k], cache.pmem[k]} \subseteq {None, known[k]}
        /\ k \notin astray => cache.block[k] \in {None, known[k]}

\* Each position leads to its key's staged write and back, the staged bytes are
\* those of the staged blocks, and a remembered credit that still counts as
\* current is what the staged writes would free now: the projection of
\* projected_ssd_install_bytes is exact.
StagingIsExact ==
    /\ \A k \in Keys : batch.positions[k] # 0 =>
          batch.positions[k] <= Len(batch.staged) /\ batch.staged[batch.positions[k]].key = k
    /\ \A i \in 1 .. Len(batch.staged) : batch.positions[batch.staged[i].key] = i
    /\ batch.bytes = TotalOf([i \in 1 .. Len(batch.staged) |-> BlockLen[batch.staged[i].value]])
    /\ batch.credit # None /\ CreditCurrent(cache) =>
          batch.credit = ReplacedBytes(cache, batch)
    /\ cache.ssd_bytes = SsdBytesHeld(cache)

\* A batch leaves the SSD tier within its capacity unless pins hold it above
\* (the test staged_ssd_batches_stay_within_capacity: "pending encoded blocks
\* must count against the SSD budget").
StaysWithinCapacity ==
    ~ batch.open /\ cache.ssd_bytes > cache.ssd_capacity =>
        \A k \in Keys : Indexed(cache, k) => k \in pinned
=============================================================================
