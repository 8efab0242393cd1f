----------------------------- MODULE MCBackground -----------------------------
(***************************************************************************)
(* Small instances of the components that work behind the calls: the        *)
(* writeback queue and its workers, the choice of what to evict, the reports *)
(* of evictions to their listeners, and the passes of the L2 policy. The    *)
(* writeback queue keeps its own variables, for its fairness.               *)
(***************************************************************************)
EXTENDS Writeback, Slots, TLC

CONSTANTS k1, k2, w1, w2, dram, ssd, none

Reports == INSTANCE EvictionReports WITH
    Drainers <- {w1, w2}, TierNames <- {dram, ssd}, MaxEvictions <- 3,
    listener <- s1, registered <- s2, pending <- s3, pendingTiers <- s4, hand <- s5, told <- s6,
    counts <- s7, due <- s8, evictions <- s9

\* A cache's policy, cold share and tier, and whether the SSD scores by frequency.
Setup(policy, share, tier, frequency) ==
    [policy |-> policy, share |-> share, tier |-> tier, frequency |-> frequency]

Victims == INSTANCE VictimChoice WITH
    Keys <- {1, 2, 3}, None <- none, GroupOf <- [k \in {1, 2, 3} |-> IF k <= 2 THEN 1 ELSE k],
    Window <- 2, ProtectedHits <- 1, HotnessLimit <- 2, MaxPinned <- 2, MaxExpired <- 1,
    MaxEpoch <- 2,
    Setups <- {Setup("Fifo", 100, "memory", FALSE), Setup("Slru", 100, "memory", FALSE),
               Setup("Slru", 70, "ssd", TRUE), Setup("WeightedHotnessLru", 70, "memory", FALSE)},
    setup <- s1, order <- s2, hits <- s3, hotness <- s4, seen <- s5, pinned <- s6,
    expired <- s7, clock <- s8

L2 == INSTANCE L2Policy WITH
    Items <- {k1, k2}, ItemCapacities <- {1}, AccessCapacity <- 2, WriteCapacity <- 1,
    TailBatch <- 1, MaxAccesses <- 2,
    p <- s1, l2 <- s2, seen <- s3, overtaken <- s4, promised <- s5, accesses <- s6

BackgroundInit ==
    /\ focus \in Parts
    /\ Init
    /\ \/ focus = "writeback" /\ Spare(0)
       \/ focus = "reports" /\ Reports!Init /\ Spare(9)
       \/ focus = "victims" /\ Victims!Init /\ Spare(8)
       \/ focus = "l2" /\ L2!Init /\ Spare(6)

Slotted ==
    \/ focus = "reports" /\ Reports!Next /\ Kept(9)
    \/ focus = "victims" /\ Victims!Next /\ Kept(8)
    \/ focus = "l2" /\ L2!Next /\ Kept(6)

BackgroundNext ==
    \/ focus = "writeback" /\ Next /\ Kept(0)
    \/ Slotted /\ UNCHANGED vars

BackgroundSpec == BackgroundInit /\ [][BackgroundNext]_<<slots, vars>> /\ Fairness

-----------------------------------------------------------------------------
(* What is claimed of them.                                                *)

\* Evictions are reported at most once, counted while somebody listens, but for those a
\* clear discards, and never left in a queue no drain looks at (drain_eviction_events).
ReportsAddUp == focus = "reports" => Reports!ReportsAddUp

\* Under every policy: the victim is one the policy may take, and one is found when
\* there is one (select_windowed_eviction_victim, select_eviction_victim).
ChoiceIsSound == focus = "victims" => Victims!ChoiceIsSound

\* The L2 policy's queues lose and reorder nothing (record_access, do_one_write).
PolicyMissesNothing == focus = "l2" => L2!PolicyMissesNothing
=============================================================================
