----------------------------- MODULE BatchReads -----------------------------
(***************************************************************************)
(* The reads of MultiLayerCache that TieredCache leaves out: the batched   *)
(* reads, the reads that pin, and the reads that do not promote. Each is a *)
(* chain of lock sections. Between two of them other callers may put,      *)
(* invalidate, expire or move what the read already looked at, switch the  *)
(* cache to SSD-only mode, or stop it.                                     *)
(*                                                                         *)
(* A writer is one step here: TieredCache takes it apart. Hit accounting   *)
(* (hotness, access order, counters) is left out, and so are capacities:   *)
(* a tier may refuse a value, or give one up, at any time. stale[r] is what *)
(* SsdProbeJournal promises of the epoch a read captured: a key mutated    *)
(* since is never called current, another one may be.                      *)
(*                                                                         *)
(* allowed[k] is what a read of k may find now, seen[r][k] what it could   *)
(* have found at some moment of r's call. "Fault:" marks a broken variant  *)
(* of the definition after it.                                             *)
(***************************************************************************)
EXTENDS Naturals, Sequences, FiniteSets

CONSTANTS Keys, Values, None, Readers,
          Batches,      \* the key sequences callers ask for
          PmemRefills,  \* what pmem_should_refill_memory answers
          MaxOthers     \* bound on the steps of everyone else

ASSUME ReadsAssumption == None \notin Values /\ Batches \subseteq Seq(Keys)

VARIABLES memory, pmem, ssd,  \* what each tier holds of a key, or None
          expired,            \* the keys whose expiry has passed
          started, ssdOnly,
          others,             \* steps taken by everyone but the readers
          pins,               \* handles out on a key
          stale, call, allowed, seen

tiers == <<memory, pmem, ssd, expired>>
mode == <<started, ssdOnly>>
history == <<allowed, seen>>
vars == <<tiers, mode, others, pins, stale, call, history>>

Singles == {"get_with_tier", "get_no_promotion", "acquire", "acquire_no_promotion"}
Many == {"get_shared_batch", "get_batch", "get_batch_no_promotion", "acquire_batch",
         "acquire_batch_no_promotion"}
Idle == [op |-> "idle", at |-> "idle"]
Nothing == [k \in Keys |-> None]

Init ==
    /\ memory = Nothing /\ pmem = Nothing /\ ssd = Nothing /\ expired = {}
    /\ started = TRUE /\ ssdOnly = FALSE /\ others = 0
    /\ pins = [k \in Keys |-> 0]
    /\ stale = [r \in Readers |-> {}]
    /\ call = [r \in Readers |-> Idle]
    /\ allowed = [k \in Keys |-> {}]
    /\ seen = [r \in Readers |-> [k \in Keys |-> {}]]

-----------------------------------------------------------------------------
(* Writers.                                                                *)

Active(r) == call[r].at # "idle"

\* Notes a mutation of the keys ks in the probe journal.
Noted(ks) == stale' = [r \in Readers |-> stale[r] \cup ks]

Allow(k, vs) ==
    /\ allowed' = [allowed EXCEPT ![k] = vs]
    /\ seen' = [r \in Readers |-> IF Active(r) THEN [seen[r] EXCEPT ![k] = @ \cup vs] ELSE seen[r]]

\* A new deadline: no call that began earlier takes the entry for expired.
Renewed(k) ==
    /\ expired' = expired \ {k}
    /\ call' = [r \in Readers |-> IF Active(r) THEN [call[r] EXCEPT !.lapsed = @ \ {k}] ELSE call[r]]

\* A put stores v in the tiers `where` and drops the key's other copies.
Put(k, v, where) ==
    /\ started
    /\ ssdOnly => where \subseteq {"ssd"}
    /\ memory' = [memory EXCEPT ![k] = IF "memory" \in where THEN v ELSE None]
    /\ pmem' = [pmem EXCEPT ![k] = IF "pmem" \in where THEN v ELSE None]
    /\ ssd' = [ssd EXCEPT ![k] = IF "ssd" \in where THEN v ELSE None]
    /\ Renewed(k) /\ Noted({k}) /\ Allow(k, {v})
    /\ UNCHANGED <<mode, pins>>

\* A key that no tier held loses its pin entry with all its handles.
Invalidate(k) ==
    /\ started
    /\ memory' = [memory EXCEPT ![k] = None]
    /\ pmem' = [pmem EXCEPT ![k] = None]
    /\ ssd' = [ssd EXCEPT ![k] = None]
    /\ LET gone == {memory[k], pmem[k], ssd[k]} = {None}
       IN /\ pins' = IF gone THEN [pins EXCEPT ![k] = 0] ELSE pins
          /\ call' = [r \in Readers |->
                        IF ~ Active(r) THEN call[r]
                        ELSE [call[r] EXCEPT !.lapsed = @ \ {k},
                                             !.lost = IF gone THEN @ \cup {k} ELSE @]]
    /\ expired' = expired \ {k}
    /\ Noted({k}) /\ Allow(k, {})
    /\ UNCHANGED mode

\* Eviction of a key nobody pins from the tier above, with or without a copy
\* in the tier below.
Evict(k, below) ==
    /\ pins[k] = 0 /\ k \notin expired
    /\ \/ /\ memory[k] # None
          /\ memory' = [memory EXCEPT ![k] = None]
          /\ IF below /\ pmem[k] = None THEN pmem' = [pmem EXCEPT ![k] = memory[k]] /\ Noted({k})
                                        ELSE UNCHANGED <<pmem, stale>>
          /\ UNCHANGED ssd
       \/ /\ pmem[k] # None
          /\ pmem' = [pmem EXCEPT ![k] = None]
          /\ ssd' = IF below /\ ssd[k] = None THEN [ssd EXCEPT ![k] = pmem[k]] ELSE ssd
          /\ UNCHANGED <<memory, stale>>
       \/ /\ ssd[k] # None
          /\ ssd' = [ssd EXCEPT ![k] = None]
          /\ UNCHANGED <<memory, pmem>> /\ Noted({k})
    /\ UNCHANGED <<expired, mode, pins, call, history>>

Lapse(k) ==
    /\ k \notin expired /\ {memory[k], pmem[k], ssd[k]} # {None}
    /\ expired' = expired \cup {k}
    /\ Allow(k, {})
    /\ UNCHANGED <<memory, pmem, ssd, mode, pins, stale, call>>

SetSsdOnly ==
    /\ ssdOnly' = ~ ssdOnly
    /\ memory' = IF ssdOnly THEN memory ELSE Nothing
    /\ pmem' = IF ssdOnly THEN pmem ELSE Nothing
    /\ UNCHANGED <<ssd, expired, started, pins, stale, call, history>>

StopOrStart ==
    /\ started' = ~ started
    /\ UNCHANGED <<tiers, ssdOnly, pins, stale, call, history>>

-----------------------------------------------------------------------------
(* What the sections of a read share.                                      *)

\* The deadline is compared with the clock as it was when the call began.
TooOld(r, k) == k \in expired \cap call[r].lapsed

Wanted(r) == {call[r].batch[i] : i \in DOMAIN call[r].batch}

\* coalesce_batch_positions_borrowed: a key is read once, and answered and
\* pinned once for every place it has in the batch.
Occurrences(r, k) == Cardinality({i \in DOMAIN call[r].batch : call[r].batch[i] = k})
PinsFor(r, ks) == [k \in Keys |-> IF k \in ks THEN pins[k] + Occurrences(r, k) ELSE pins[k]]

InSection(r, op, at) == call[r].op = op /\ call[r].at = at

\* The caller's error return; what the call had pinned stays pinned.
Refused(r) ==
    /\ call' = [call EXCEPT ![r] = Idle]
    /\ seen' = [seen EXCEPT ![r] = [k \in Keys |-> {}]]
    /\ UNCHANGED <<tiers, pins, stale, allowed>>

\* The answer gains what f holds of the keys ks.
Answered(r, ks, f) == [k \in Keys |-> IF k \in ks THEN f[k] ELSE call[r].answer[k]]

To(r, at, left, answer) ==
    /\ call' = [call EXCEPT ![r].at = at, ![r].left = left, ![r].answer = answer]
    /\ UNCHANGED seen

\* What a section under the write lock does to the tiers: remove_expired_entry
\* for the keys `old`, put_memory_shared of their value in f for the keys `up`.
Settle(old, up, f) ==
    /\ memory' = [k \in Keys |-> IF k \in up THEN f[k] ELSE IF k \in old THEN None ELSE memory[k]]
    /\ pmem' = [k \in Keys |-> IF k \in old THEN None ELSE pmem[k]]
    /\ ssd' = [k \in Keys |-> IF k \in old THEN None ELSE ssd[k]]
    /\ expired' = expired \ old
    /\ Noted(old \cup up)

\* Fault: the copy that was read is installed without looking whether it is
\* still the one PMEM holds.
PromotableUnchecked(k, v) ==
    started /\ ~ ssdOnly /\ memory[k] = None /\ k \notin expired

\* promote_pmem_probe_with_outcome_if_current: what it asks of the key.
Promotable(k, v) ==
    started /\ ~ ssdOnly /\ memory[k] = None /\ k \notin expired /\ pmem[k] = v

\* refill_ssd_probe for the keys ks, some of which get a copy in memory, some
\* in PMEM. A copy in spare memory cancels no other read's probe.
RefillSsd(r, ks) ==
    LET fit == {k \in ks \ stale[r] : /\ call[r].answer[k] # None /\ ~ ssdOnly /\ started
                                      /\ memory[k] = None /\ pmem[k] = None /\ k \notin expired}
    IN \E up \in SUBSET fit : \E mid \in SUBSET (fit \ up), quiet \in BOOLEAN :
         /\ memory' = [k \in Keys |-> IF k \in up THEN call[r].answer[k] ELSE memory[k]]
         /\ pmem' = [k \in Keys |-> IF k \in mid THEN call[r].answer[k] ELSE pmem[k]]
         /\ Noted(IF quiet THEN mid ELSE up \cup mid)
         /\ UNCHANGED <<ssd, expired>>

\* The read section every chain goes through: the blocks of the keys no upper
\* tier had, and the journal's epoch with them. A stopped store refuses.
ReadSsdBlocks(r) ==
    IF ~ started THEN Refused(r)
    ELSE /\ To(r, "blocks", call[r].left, Answered(r, call[r].left, ssd))
         /\ stale' = [stale EXCEPT ![r] = {}]
         /\ UNCHANGED <<tiers, pins, allowed>>

ReadSsd(r) == call[r].at = "ssd" /\ ReadSsdBlocks(r) /\ UNCHANGED mode

Begin(r, op, batch) ==
    /\ call[r].at = "idle"
    /\ op \in Singles => Len(batch) = 1
    /\ op = "acquire_batch" => Len(batch) > 1
    /\ call' = [call EXCEPT ![r] = [op |-> op, at |-> "first", batch |-> batch, left |-> {},
                                    answer |-> Nothing, lapsed |-> expired, late |-> {},
                                    lost |-> {}]]
    /\ seen' = [seen EXCEPT ![r] = allowed]
    /\ UNCHANGED <<tiers, mode, pins, stale, allowed>>

\* The caller takes the answer, and gives back the handles it holds.
Return(r) ==
    /\ call[r].at = "returned"
    /\ call' = [call EXCEPT ![r] = Idle]
    /\ seen' = [seen EXCEPT ![r] = [k \in Keys |-> {}]]
    /\ pins' = IF call[r].op \in {"acquire", "acquire_no_promotion", "acquire_batch",
                                  "acquire_batch_no_promotion"}
               THEN [k \in Keys |-> IF call[r].answer[k] = None THEN pins[k]
                                    ELSE IF pins[k] < Occurrences(r, k) THEN 0
                                    ELSE pins[k] - Occurrences(r, k)]
               ELSE pins
    /\ UNCHANGED <<tiers, mode, stale, allowed>>

-----------------------------------------------------------------------------
(* get_shared_batch_into.                                                  *)

InMemory(ks) == {k \in ks : memory[k] # None /\ ~ ssdOnly}
InPmem(ks) == {k \in ks : memory[k] = None /\ pmem[k] # None /\ ~ ssdOnly}
Upper(k) == IF memory[k] # None THEN memory[k] ELSE pmem[k]
Lapsed(r, ks) == {k \in ks : TooOld(r, k)}

\* try_get_shared_resident_batch: everything from above in one section, or
\* nothing. A batch with duplicates does not try.
TryGetSharedResidentBatch(r) ==
    /\ InSection(r, "get_shared_batch", "first")
    /\ LET ks == Wanted(r)
           all == /\ Len(call[r].batch) = Cardinality(ks)
                  /\ Lapsed(r, ks) = {} /\ InMemory(ks) \cup InPmem(ks) = ks
                  /\ PmemRefills => InPmem(ks) = {}
       IN IF ~ started THEN Refused(r)
          ELSE /\ IF all THEN To(r, "returned", {}, [k \in Keys |-> IF k \in ks THEN Upper(k) ELSE None])
                         ELSE To(r, "scan", ks, Nothing)
               /\ UNCHANGED <<tiers, pins, stale, allowed>>
    /\ UNCHANGED mode

\* The scan under the read lock. Expired keys and PMEM copies to promote wait
\* for the write lock, the other keys no upper tier has for the SSD read.
GetSharedScan(r) ==
    /\ InSection(r, "get_shared_batch", "scan")
    /\ LET ks == Wanted(r)
           old == Lapsed(r, ks)
           above == (InMemory(ks) \cup InPmem(ks)) \ old
           late == old \cup IF PmemRefills THEN InPmem(ks) \ old ELSE {}
           left == ks \ (old \cup above)
           answer == [k \in Keys |-> IF k \in above THEN Upper(k) ELSE None]
       IN IF ~ started THEN Refused(r)
          ELSE /\ call' = [call EXCEPT ![r].late = late, ![r].left = left, ![r].answer = answer,
                              ![r].at = IF late # {} THEN "exclusive"
                                        ELSE IF left # {} THEN "ssd" ELSE "returned"]
               /\ UNCHANGED <<tiers, pins, stale, history>>
    /\ UNCHANGED mode

\* Under the write lock: what has expired since goes, a PMEM copy that is still
\* there goes to memory. A key that was written again meanwhile is not answered.
GetSharedExclusive(r) ==
    /\ InSection(r, "get_shared_batch", "exclusive")
    /\ LET old == Lapsed(r, call[r].late)
           copies == {k \in call[r].late : call[r].answer[k] # None /\ Promotable(k, call[r].answer[k])}
           next == IF call[r].left # {} THEN "ssd" ELSE "returned"
       IN IF ~ started THEN Refused(r)
          ELSE /\ To(r, next, call[r].left, call[r].answer)
               /\ \E up \in SUBSET copies : Settle(old, up, call[r].answer)
               /\ UNCHANGED <<pins, allowed>>
    /\ UNCHANGED mode

\* The last section: nothing to install in SSD-only mode or when every key
\* missed, a refill under the write lock otherwise.
GetSharedFinish(r) ==
    /\ InSection(r, "get_shared_batch", "blocks")
    /\ IF ~ started THEN Refused(r)
       ELSE /\ To(r, "returned", {}, call[r].answer)
            /\ RefillSsd(r, call[r].left)
            /\ UNCHANGED <<pins, allowed>>
    /\ UNCHANGED mode

-----------------------------------------------------------------------------
(* get_batch_into.                                                         *)

\* try_get_memory_batch: every key from memory in one section, or nothing.
TryGetMemoryBatch(r) ==
    /\ InSection(r, "get_batch", "first")
    /\ LET ks == Wanted(r)
       IN IF ~ started THEN Refused(r)
          ELSE /\ IF Lapsed(r, ks) = {} /\ InMemory(ks) = ks
                  THEN To(r, "returned", {}, Answered(r, ks, memory))
                  ELSE To(r, "scan", ks, Nothing)
               /\ UNCHANGED <<tiers, pins, stale, allowed>>
    /\ UNCHANGED mode

\* The memory hits under one read lock.
GetBatchScan(r) ==
    /\ InSection(r, "get_batch", "scan")
    /\ LET hits == InMemory(Wanted(r)) \ Lapsed(r, Wanted(r))
           left == Wanted(r) \ hits
       IN IF ~ started THEN Refused(r)
          ELSE /\ To(r, IF left = {} THEN "returned" ELSE "split", left, Answered(r, hits, memory))
               /\ UNCHANGED <<tiers, pins, stale, allowed>>
    /\ UNCHANGED mode

\* Under the next read lock the keys that only the SSD can have are told from
\* those the write lock is needed for.
GetBatchSplit(r) ==
    /\ InSection(r, "get_batch", "split")
    /\ LET ks == call[r].left
           late == Lapsed(r, ks) \cup InMemory(ks) \cup InPmem(ks)
       IN IF ~ started THEN Refused(r)
          ELSE /\ call' = [call EXCEPT ![r].late = late, ![r].left = ks \ late,
                              ![r].at = IF late # {} THEN "exclusive" ELSE "ssd"]
               /\ UNCHANGED <<tiers, pins, stale, history>>
    /\ UNCHANGED mode

\* The write lock: the late keys are looked up again, now for good. One that
\* is in neither upper tier any more joins the SSD read.
GetBatchExclusive(r) ==
    /\ InSection(r, "get_batch", "exclusive")
    /\ LET old == Lapsed(r, call[r].late)
           above == (InMemory(call[r].late) \cup InPmem(call[r].late)) \ old
           copies == InPmem(call[r].late) \ old
           left == call[r].left \cup (call[r].late \ (old \cup above))
       IN IF ~ started THEN Refused(r)
          ELSE /\ To(r, IF left = {} THEN "returned" ELSE "ssd", left,
                     Answered(r, above, [k \in Keys |-> Upper(k)]))
               /\ \E up \in SUBSET copies : Settle(old, up, pmem)
               /\ UNCHANGED <<pins, allowed>>
    /\ UNCHANGED mode

GetBatchFinish(r) ==
    /\ InSection(r, "get_batch", "blocks")
    /\ IF ~ started THEN Refused(r)
       ELSE /\ To(r, "returned", {}, call[r].answer)
            /\ RefillSsd(r, call[r].left)
            /\ UNCHANGED <<pins, allowed>>
    /\ UNCHANGED mode

-----------------------------------------------------------------------------
(* get_with_tier, get_no_promotion and get_batch_no_promotion.             *)

GetWithTier(r) ==
    /\ InSection(r, "get_with_tier", "first")
    /\ LET k == call[r].batch[1]
           above == InMemory({k}) \cup InPmem({k})
       IN IF ~ started THEN Refused(r)
          ELSE /\ IF TooOld(r, k) THEN To(r, "expired", {k}, Nothing)
                  ELSE IF above = {} THEN To(r, "ssd", {k}, Nothing)
                  ELSE To(r, IF InMemory({k}) = {} THEN "promote" ELSE "returned", {},
                          Answered(r, {k}, [x \in Keys |-> Upper(x)]))
               /\ UNCHANGED <<tiers, pins, stale, allowed>>
    /\ UNCHANGED mode

\* The section of a single read that met an expired entry (get_with_tier,
\* acquire, acquire_no_promotion). It answers nothing even when the key has
\* been written again, and does not ask whether the cache still runs.
DropExpired(r) ==
    /\ call[r].at = "expired"
    /\ LET old == Lapsed(r, call[r].left)
       IN /\ To(r, "returned", {}, Nothing)
          /\ Settle(old, {}, memory)
    /\ UNCHANGED <<mode, pins, allowed>>

\* The write lock after a PMEM hit of get_with_tier.
PromoteProbe(r) ==
    /\ InSection(r, "get_with_tier", "promote")
    /\ LET k == call[r].batch[1]
           copies == IF PmemRefills /\ Promotable(k, call[r].answer[k]) THEN {k} ELSE {}
       IN /\ To(r, "returned", {}, call[r].answer)
          /\ \E up \in SUBSET copies : Settle({}, up, call[r].answer)
    /\ UNCHANGED <<mode, pins, allowed>>

\* The write lock after its SSD read, taken without asking for `started`.
GetWithTierFinish(r) ==
    /\ InSection(r, "get_with_tier", "blocks")
    /\ To(r, "returned", {}, call[r].answer)
    /\ RefillSsd(r, call[r].left)
    /\ UNCHANGED <<mode, pins, allowed>>

\* The first section of the reads that leave every copy where it is. The
\* single one looks above in SSD-only mode too.
GetNoPromotion(r) ==
    /\ call[r].op \in {"get_no_promotion", "get_batch_no_promotion"} /\ call[r].at = "first"
    /\ LET ks == Wanted(r) \ Lapsed(r, Wanted(r))
           above == {k \in ks : Upper(k) # None
                                 /\ (ssdOnly => call[r].op = "get_no_promotion")}
       IN IF ~ started THEN Refused(r)
          ELSE /\ To(r, IF ks = above THEN "returned" ELSE "ssd", ks \ above,
                     Answered(r, above, [k \in Keys |-> Upper(k)]))
               /\ UNCHANGED <<tiers, pins, stale, allowed>>
    /\ UNCHANGED mode

\* What they read from the SSD they answer with.
GetNoPromotionFinish(r) ==
    /\ call[r].op \in {"get_no_promotion", "get_batch_no_promotion"} /\ call[r].at = "blocks"
    /\ To(r, "returned", {}, call[r].answer)
    /\ UNCHANGED <<tiers, mode, pins, stale, allowed>>

-----------------------------------------------------------------------------
(* acquire, acquire_no_promotion and acquire_batch_no_promotion.           *)

\* The read lock that looks at memory, and lets go before it pins.
Acquire(r) ==
    /\ InSection(r, "acquire", "first")
    /\ LET k == call[r].batch[1]
       IN IF ~ started THEN Refused(r)
          ELSE /\ IF TooOld(r, k) THEN To(r, "expired", {k}, Nothing)
                  ELSE IF memory[k] # None THEN To(r, "pin", {}, Answered(r, {k}, memory))
                  ELSE To(r, "ssdOnly", {k}, Nothing)
               /\ UNCHANGED <<tiers, pins, stale, allowed>>
    /\ UNCHANGED mode

\* increment_pin_for_handle, on whatever the key has become.
AcquirePin(r) ==
    /\ InSection(r, "acquire", "pin")
    /\ pins' = PinsFor(r, Wanted(r))
    /\ To(r, "returned", {}, call[r].answer)
    /\ UNCHANGED <<tiers, mode, stale, allowed>>

\* In SSD-only mode the block is read and pinned under one read lock.
AcquireSsdOnly(r) ==
    /\ InSection(r, "acquire", "ssdOnly")
    /\ LET k == call[r].batch[1]
       IN IF ~ started THEN Refused(r)
          ELSE /\ IF ssdOnly
                  THEN /\ To(r, "returned", {}, Answered(r, {k}, ssd))
                       /\ pins' = IF ssd[k] = None THEN pins ELSE PinsFor(r, {k})
                  ELSE To(r, "pmem", {k}, Nothing) /\ UNCHANGED pins
               /\ UNCHANGED <<tiers, stale, allowed>>
    /\ UNCHANGED mode

\* The write lock for a PMEM copy: pinned before it is put into memory.
AcquirePmem(r) ==
    /\ InSection(r, "acquire", "pmem")
    /\ LET k == call[r].batch[1]
       IN IF ~ started THEN Refused(r)
          ELSE IF pmem[k] = None
          THEN To(r, "ssd", {k}, Nothing) /\ UNCHANGED <<tiers, pins, stale, allowed>>
          ELSE /\ To(r, "returned", {}, Answered(r, {k}, pmem))
               /\ pins' = PinsFor(r, {k})
               /\ \E up \in SUBSET {k} : Settle({}, up, pmem)
               /\ UNCHANGED allowed
    /\ UNCHANGED mode

\* The write lock after the SSD read, taken without asking for `started`.
AcquireFinish(r) ==
    /\ InSection(r, "acquire", "blocks")
    /\ LET hits == {k \in call[r].left : call[r].answer[k] # None}
       IN pins' = PinsFor(r, hits)
    /\ To(r, "returned", {}, call[r].answer)
    /\ RefillSsd(r, call[r].left)
    /\ UNCHANGED <<mode, allowed>>

\* One read lock for what is above, pinned there. The batch sets its expired
\* keys aside; only the single call looks above in SSD-only mode.
AcquireNoPromotion(r) ==
    /\ call[r].op \in {"acquire_no_promotion", "acquire_batch_no_promotion"} /\ call[r].at = "first"
    /\ LET old == Lapsed(r, Wanted(r))
           above == {k \in Wanted(r) \ old : Upper(k) # None
                                 /\ (ssdOnly => call[r].op = "acquire_no_promotion")}
           left == Wanted(r) \ (old \cup above)
       IN IF ~ started THEN Refused(r)
          ELSE /\ call' = [call EXCEPT ![r].late = old,
                              ![r].left = IF call[r].op = "acquire_no_promotion" /\ old # {} THEN old ELSE left,
                              ![r].answer = Answered(r, above, [k \in Keys |-> Upper(k)]),
                              ![r].at = IF old # {}
                                        THEN IF call[r].op = "acquire_no_promotion" THEN "expired" ELSE "drop"
                                        ELSE IF left # {} THEN "ssd" ELSE "returned"]
               /\ pins' = PinsFor(r, above)
               /\ UNCHANGED <<tiers, stale, history>>
    /\ UNCHANGED mode

\* The write lock in which a batch drops its expired keys (acquire_batch_no_promotion,
\* acquire_batch_ssd_only).
DropExpiredOfBatch(r) ==
    /\ call[r].at = "drop"
    /\ To(r, IF call[r].left = {} THEN "returned" ELSE "ssd", call[r].left, call[r].answer)
    /\ Settle(Lapsed(r, call[r].late), {}, memory)
    /\ UNCHANGED <<mode, pins, allowed>>

\* The last read lock pins what came from the SSD; a batch without any does
\* not take it.
AcquireNoPromotionFinish(r) ==
    /\ call[r].op \in {"acquire_no_promotion", "acquire_batch_no_promotion"} /\ call[r].at = "blocks"
    /\ LET hits == {k \in call[r].left : call[r].answer[k] # None}
       IN IF hits # {} /\ ~ started THEN Refused(r)
          ELSE /\ To(r, "returned", {}, call[r].answer)
               /\ pins' = PinsFor(r, hits)
               /\ UNCHANGED <<tiers, stale, allowed>>
    /\ UNCHANGED mode

-----------------------------------------------------------------------------
(* acquire_batch.                                                          *)

\* acquire_batch_ssd_only: blocks read, answered and pinned under one read
\* lock; out of SSD-only mode the call goes on as a plain one.
AcquireBatchSsdOnly(r) ==
    /\ InSection(r, "acquire_batch", "first")
    /\ LET old == Lapsed(r, Wanted(r))
           hits == {k \in Wanted(r) \ old : ssd[k] # None}
       IN IF ssdOnly /\ ~ started THEN Refused(r)
          ELSE /\ call' = IF ssdOnly
                          THEN [call EXCEPT ![r].late = old, ![r].answer = Answered(r, hits, ssd),
                                            ![r].at = IF old = {} THEN "returned" ELSE "drop"]
                          ELSE [call EXCEPT ![r].at = "scan"]
               /\ pins' = IF ssdOnly THEN PinsFor(r, hits) ELSE pins
               /\ UNCHANGED <<tiers, stale, history>>
    /\ UNCHANGED mode

\* Fault: a repeated key is pinned once.
AcquireBatchScanPinningOnce(r) ==
    /\ InSection(r, "acquire_batch", "scan") /\ started
    /\ LET hits == InMemory(Wanted(r)) \ Lapsed(r, Wanted(r))
       IN /\ To(r, "split", Wanted(r) \ hits, Answered(r, hits, memory))
          /\ pins' = [k \in Keys |-> IF k \in hits THEN pins[k] + 1 ELSE pins[k]]
          /\ UNCHANGED <<tiers, stale, allowed>>
    /\ UNCHANGED mode

\* The memory hits, pinned under the read lock that found them.
AcquireBatchScan(r) ==
    /\ InSection(r, "acquire_batch", "scan")
    /\ LET hits == InMemory(Wanted(r)) \ Lapsed(r, Wanted(r))
       IN IF ~ started THEN Refused(r)
          ELSE /\ To(r, "split", Wanted(r) \ hits, Answered(r, hits, memory))
               /\ pins' = PinsFor(r, hits)
               /\ UNCHANGED <<tiers, stale, allowed>>
    /\ UNCHANGED mode

AcquireBatchSplit(r) ==
    /\ InSection(r, "acquire_batch", "split")
    /\ LET ks == call[r].left
           late == Lapsed(r, ks) \cup {k \in ks : Upper(k) # None}
       IN IF ~ started THEN Refused(r)
          ELSE /\ call' = [call EXCEPT ![r].late = late, ![r].left = ks \ late,
                              ![r].at = IF late # {} THEN "exclusive"
                                        ELSE IF ks # {} THEN "ssd" ELSE "returned"]
               /\ UNCHANGED <<tiers, pins, stale, history>>
    /\ UNCHANGED mode

AcquireBatchExclusive(r) ==
    /\ InSection(r, "acquire_batch", "exclusive")
    /\ LET old == Lapsed(r, call[r].late)
           above == (InMemory(call[r].late) \cup InPmem(call[r].late)) \ old
           copies == InPmem(call[r].late) \ old
           left == call[r].left \cup (call[r].late \ (old \cup above))
       IN IF ~ started THEN Refused(r)
          ELSE /\ To(r, IF left = {} THEN "returned" ELSE "ssd", left,
                     Answered(r, above, [k \in Keys |-> Upper(k)]))
               /\ \E up \in SUBSET copies : Settle(old, up, pmem)
               /\ pins' = PinsFor(r, above)
               /\ UNCHANGED allowed
    /\ UNCHANGED mode

AcquireBatchFinish(r) ==
    /\ InSection(r, "acquire_batch", "blocks")
    /\ LET hits == {k \in call[r].left : call[r].answer[k] # None}
       IN IF ~ started THEN Refused(r)
          ELSE /\ To(r, "returned", {}, call[r].answer)
               /\ RefillSsd(r, call[r].left)
               /\ pins' = PinsFor(r, hits)
               /\ UNCHANGED allowed
    /\ UNCHANGED mode

-----------------------------------------------------------------------------
Section(r) ==
    \/ ReadSsd(r) \/ DropExpired(r) \/ DropExpiredOfBatch(r) \/ Return(r)
    \/ TryGetSharedResidentBatch(r) \/ GetSharedScan(r) \/ GetSharedExclusive(r) \/ GetSharedFinish(r)
    \/ TryGetMemoryBatch(r) \/ GetBatchScan(r) \/ GetBatchSplit(r) \/ GetBatchExclusive(r)
    \/ GetBatchFinish(r)
    \/ GetWithTier(r) \/ PromoteProbe(r) \/ GetWithTierFinish(r)
    \/ GetNoPromotion(r) \/ GetNoPromotionFinish(r)
    \/ Acquire(r) \/ AcquirePin(r) \/ AcquireSsdOnly(r) \/ AcquirePmem(r) \/ AcquireFinish(r)
    \/ AcquireNoPromotion(r) \/ AcquireNoPromotionFinish(r)
    \/ AcquireBatchSsdOnly(r) \/ AcquireBatchScan(r) \/ AcquireBatchSplit(r)
    \/ AcquireBatchExclusive(r) \/ AcquireBatchFinish(r)

Other ==
    \/ \E k \in Keys, v \in Values, where \in SUBSET {"memory", "pmem", "ssd"} : Put(k, v, where)
    \/ \E k \in Keys : Invalidate(k) \/ Lapse(k) \/ Evict(k, TRUE) \/ Evict(k, FALSE)
    \/ SetSsdOnly \/ StopOrStart

Next ==
    \/ \E r \in Readers : Section(r) /\ UNCHANGED others
    \/ \E r \in Readers, op \in Singles \cup Many, b \in Batches : Begin(r, op, b) /\ UNCHANGED others
    \/ others < MaxOthers /\ Other /\ others' = others + 1

Spec == Init /\ [][Next]_vars

-----------------------------------------------------------------------------
(* What is claimed of it.                                                  *)

Copies(k) == {memory[k], pmem[k], ssd[k]} \ {None}

\* A read answers with a value its key had at some moment of the call, and no
\* section of it, however late, leaves a copy in a tier that a read of an
\* unexpired key should not find: an overwritten, invalidated or expired one
\* (get_batch_into, get_shared_batch_into, acquire_batch and their singles).
BatchReadsAreCurrent ==
    /\ \A k \in Keys \ expired : Copies(k) \subseteq allowed[k]
    /\ \A r \in Readers : call[r].at = "returned" =>
          \A k \in Keys : call[r].answer[k] = None \/ call[r].answer[k] \in seen[r][k]

\* A handle a returned call holds is a pin: as long as it is held the victim
\* searches pass over its key, and giving it back never takes another call's
\* pin (increment_pin_handle_counts, once for each place in the batch). A key
\* invalidated while no tier held it is the exception.
HandlesArePins ==
    \A k \in Keys :
        LET holding == {r \in Readers : /\ call[r].at = "returned" /\ call[r].answer[k] # None
                                        /\ call[r].op \in {"acquire", "acquire_no_promotion",
                                              "acquire_batch", "acquire_batch_no_promotion"}}
        IN \A r \in holding : k \in call[r].lost \/ pins[k] >= Occurrences(r, k)
=============================================================================
