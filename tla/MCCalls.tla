------------------------------ MODULE MCCalls -------------------------------
(***************************************************************************)
(* Small instances of what a caller meets: recovery after a crash, the pin  *)
(* table, batches of writes, a single tier's instance, shards and the       *)
(* figures they report, the configuration checks, the two stores with an    *)
(* index of their own, zoned and RDMA; and batches of reads, which keep     *)
(* their own variables.                                                     *)
(***************************************************************************)
EXTENDS BatchReads, Slots, TLC

CONSTANTS k1, k2, k3, v1, v2, none, a1, a2, small, large, dram, flash,
          Builds, Compactions    \* of the cache that recovers

Recovery == INSTANCE Recovery WITH
    Keys <- {k1, k2}, Values <- {v1, v2}, None <- none, Len_ <- [v \in {v1, v2} |-> 1],
    MemoryRoom <- 1, PmemRoom <- 1, Builds <- Builds, Compactions <- Compactions,
    MaxCalls <- 2, MaxCrashes <- 1,
    rocks <- s1, up <- s2, ssdOnly <- s3, todo <- s4, calls <- s5, crashes <- s6, memory <- s7,
    pmem <- s8, index <- s9, pblock <- s10, plisted <- s11, file <- s12, store <- s13,
    dlisted <- s14, acked <- s15, unsure <- s16, leftover <- s17, held <- s18

Pins == INSTANCE PinTable WITH
    Keys <- {k1, k2}, Threads <- {a1, a2}, MaxHandles <- 2,
    cached <- s1, entries <- s2, pin_handles <- s3, pc <- s4, work <- s5, removed <- s6,
    fresh <- s7, stale <- s8, wronged <- s9

\* A key alone, and twice in a batch.
ReadBatches == {<<k1>>, <<k1, k1>>}

\* No PMEM tier, one nothing is evicted from, and one a single entry fills.
WriteCapacities == {<<2, 0, 3>>, <<2, 6, 3>>, <<2, 2, 3>>}

Lengths == small :> 1 @@ large :> 2

Entry(k, v) == [key |-> k, value |-> v]

Writes == INSTANCE PutBatch WITH
    Keys <- {k1, k2, k3}, Readers <- {a1}, Batch <- a1, Values <- {small, large}, Size <- Lengths,
    BlockLen <- Lengths, None <- none, Tiered <- TRUE, Threshold <- 1, Demotes <- TRUE,
    Heats <- {1, 3}, WriteThrough <- FALSE, Capacities <- WriteCapacities, PinSets <- {{}, {k3}},
    Batches <- {<<Entry(k1, small)>>, <<Entry(k3, large)>>,
                <<Entry(k1, small), Entry(k2, small), Entry(k1, large)>>,
                <<Entry(k2, large), Entry(k3, small), Entry(k2, small)>>},
    MaxBatches <- 2,
    cache <- s1, pinned <- s2, batch <- s3, last <- s4, known <- s5, astray <- s7,
    calls <- s6

Instance == INSTANCE CacheInstance WITH
    Keys <- {k1, k2}, Readers <- {a1}, Values <- {small, large}, Size <- Lengths,
    BlockLen <- Lengths, None <- none, Tiered <- TRUE, Threshold <- 1, Demotes <- TRUE,
    Sizes <- {0, 1, 3}, MaxHandles <- 2, MaxStamp <- 3,
    tier <- s1, cache <- s2, stamp <- s3, handles <- s4

Shards == INSTANCE ShardedCache WITH
    Keys <- {k1, k2}, Values <- {v1}, None <- none, Callers <- {a1, a2}, ShardCount <- 2,
    HashOf <- (k1 :> 0 @@ k2 :> 1), Batches <- {<<k1, k2, k1>>, <<k1, k2, k1, k2>>},
    FanoutThreshold <- 4, ReadFanoutThreshold <- 4, QueueLimit <- 1, Groups <- {{k1}},
    Totals <- {1, 3}, MaxCalls <- 2,
    store <- s1, up <- s2, pins <- s3, queue <- s4, capacity <- s5, budget <- s6, call <- s7,
    calls <- s8, possible <- s9, owned <- s10, leaked <- s11, dropped <- s12, asked <- s13

Latency == INSTANCE LatencyStats WITH
    Observers <- {a1, a2}, Latencies <- {3, 200}, Bounds <- <<10, 100>>, MaxSamples <- 3,
    hist <- s1, locked <- s2, observer <- s3, reader <- s4, taken <- s5, recorded <- s6

Health == INSTANCE ShardHealth WITH
    ShardCount <- 2, Shares <- {1, 4}, Scale <- 4, FloorShare <- 1, Latencies <- {3, 8},
    MinRequests <- 1, Window <- 1, MaxEvents <- 2,
    stats <- s1, taken <- s2, total <- s3, events <- s4

Config == INSTANCE ConfigCheck WITH
    Capacities <- {0, 1, 3, 5}, ShardCounts <- {1, 2},
    LargestValue <- [t \in {"dram", "pmem", "ssd"} |-> IF t = "dram" THEN 2 ELSE 3],
    options <- s1, findings <- s2, built <- s3

Record(k, size) == [key |-> k, size |-> size]

Zones == INSTANCE ZonedStore WITH
    Keys <- {k1, k2}, None <- none, Groups <- {0, 1}, PageSize <- 4, ZonePages <- 5,
    Batches <- {<<Record(k1, 2), Record(k2, 3)>>, <<Record(k1, 2)>>},
    MaxWrites <- 3, MaxRestarts <- 1, MaxGarbage <- 2,
    zone <- s1, group <- s2, device <- s3, free <- s4, gc <- s5, recovery <- s6, current <- s7,
    ensured <- s8, appendable <- s9, index <- s10, survivors <- s11, writes <- s12,
    restarts <- s13, crowded <- s14, lost <- s15

Rdma == INSTANCE RdmaCache WITH
    Keys <- {k1, k2, k3}, None <- none, Values <- {[id |-> 1, size |-> 1], [id |-> 2, size |-> 2]},
    BucketCap <- 2, BucketCount <- 1, BucketOf <- [k \in {k1, k2, k3} |-> 0],
    Kinds <- {dram, flash}, Capacities <- {0, 3}, MaxLength <- 1, MaxBlocks <- 3,
    bucket <- s1, engine <- s2, last <- s3, reopened <- s4

CallsInit ==
    /\ focus \in Parts
    /\ Init
    /\ \/ focus = "recovery" /\ Recovery!Init
       \/ focus = "pins" /\ Pins!Init /\ Spare(9)
       \/ focus = "writes" /\ Writes!Init /\ Spare(7)
       \/ focus = "instance" /\ Instance!Init /\ Spare(4)
       \/ focus = "shards" /\ Shards!Init /\ Spare(13)
       \/ focus = "latency" /\ Latency!Init /\ Spare(6)
       \/ focus = "health" /\ Health!Init /\ Spare(4)
       \/ focus = "config" /\ Config!Init /\ Spare(3)
       \/ focus = "zones" /\ Zones!Init /\ Spare(15)
       \/ focus = "rdma" /\ Rdma!Init /\ Spare(4)
       \/ focus = "reads" /\ Spare(0)

Slotted ==
    \/ focus = "recovery" /\ Recovery!Next /\ Kept(18)
    \/ focus = "pins" /\ Pins!Next /\ Kept(9)
    \/ focus = "writes" /\ Writes!Next /\ Kept(7)
    \/ focus = "instance" /\ Instance!Next /\ Kept(4)
    \/ focus = "shards" /\ Shards!Next /\ Kept(13)
    \/ focus = "latency" /\ Latency!Next /\ Kept(6)
    \/ focus = "health" /\ Health!Next /\ Kept(4)
    \/ focus = "config" /\ Config!Next /\ Kept(3)
    \/ focus = "zones" /\ Zones!Next /\ Kept(15)
    \/ focus = "rdma" /\ Rdma!Next /\ Kept(4)

CallsNext ==
    \/ Slotted /\ UNCHANGED vars
    \/ focus = "reads" /\ Next /\ Kept(0)

CallsSpec == CallsInit /\ [][CallsNext]_<<vars, slots>>

-----------------------------------------------------------------------------
(* What is claimed of them.                                                *)

\* Recovery brings back no value older than one whose write was acknowledged.
NothingStaleComesBack == focus = "recovery" => Recovery!NothingStaleComesBack

\* Recovery brings back everything persistent that was acknowledged.
PersistedEntriesReturn == focus = "recovery" => Recovery!PersistedEntriesReturn

\* A handle out is a pin held, by the counters of its stripe and of the table,
\* across batches, shards, invalidations and overlapping releases
\* (increment_pin, release_pins, acquire_batch).
EveryHandleIsAPin ==
    /\ HandlesArePins
    /\ focus = "pins" => Pins!TotalCoversEntries /\ Pins!PinnedWhileHeld
    /\ focus = "shards" => Shards!PinsHaveOwners

\* After a batch of puts, a key that comes several times has its last value and
\* no older one below it, but for a block no list names: left by a batch that
\* failed, or demoted by the key's own entry after the index was asked.
LastEntryWins == focus = "writes" => Writes!LastEntryWins

\* What the staging vector, its positions, the index and the counters say agree,
\* entry by entry (put_batch); so do the tier and its counters when values are
\* updated in place (update_cached, test_insert_for_tier).
BooksAreExact ==
    /\ focus = "writes" => Writes!StagingIsExact
    /\ focus = "instance" => Instance!InstanceIsExact

\* The shards' capacities and budgets add up to what was asked of the whole, and
\* what a batch that was fanned out over them answers its keys had during the call.
ShardsAddUp == focus = "shards" => Shards!SharesAddUp /\ Shards!BatchAnswersAreCurrent

\* What an operator is shown agrees with what is: percentiles are ordered while
\* samples arrive, no shard's alarm is lost in the total, and a configuration the
\* checks pass is one the shards accept.
ReportsAgree ==
    /\ focus = "latency" => Latency!PercentilesOrdered
    /\ focus = "health" => Health!AlarmsReachTheTop
    /\ focus = "config" => Config!RefusalsForetold

\* An index never points at storage that was given to something else: entries of
\* the zoned store lead to their records and every group is filed in one place
\* (process_metadata, reset_group), until finish_group finds no group free; the
\* RDMA index and its engines' blocks agree byte for byte (RdmaHashTable::put),
\* and where an engine was replaced under its entries a read misses, or answers
\* what was stored last.
RecordsAreThere ==
    /\ focus = "zones" => Zones!IndexedRecordsAreThere /\ Zones!GroupsFiledOnce
    /\ focus = "rdma" => Rdma!IndexAndBlocksAgree
=============================================================================
