---------------------------- MODULE MCPolicies ------------------------------
(***************************************************************************)
(* Small instances of what decides where things go and what has to leave:   *)
(* the replacement structures and policies, the frequency sketch, the write  *)
(* budget, the log allocator, the cluster ring, and the devices of an SSD    *)
(* store, which keep their own variables.                                   *)
(***************************************************************************)
EXTENDS MultiSsd, Slots, TLC

CONSTANTS k1, k2, k3, k4, k5, none, nokey, a1, a2, rack

Segments == INSTANCE Slru WITH
    Keys <- {k1, k2, k3}, NoKey <- nokey, Sizes <- {1, 2}, Capacities <- {4}, Segments <- 2,
    Pcts <- {40},
    seg <- s1, capacity <- s2, hotPct <- s3, warmPct <- s4, initialized <- s5, maintainer <- s6,
    last <- s7

Orders == INSTANCE CacheKeyOrder WITH
    Keys <- {k1, k2, k3, k4}, NoKey <- nokey, Specs <- {1},
    o <- s1, tier <- s2, byInsertion <- s3, byAccess <- s4

Arc == INSTANCE ArcPolicy WITH
    Items <- {k1, k2, k3, k4, k5}, ItemCapacities <- {2, 3}, arc <- s1, shrunk <- s2

Lru == INSTANCE SimpleLru WITH
    LruKeys <- {k1, k2}, None <- none, EntrySizes <- {1, 2}, LruCapacities <- {2, 3},
    MaxHandles <- 2,
    lru <- s1, handles <- s2, zeroCopy <- s3, settled <- s4

Sketch == INSTANCE FrequencySketch WITH
    Names <- {k1, k2}, PositionsOf <- (k1 :> {1, 2} @@ k2 :> {2, 3}), Slots <- {1, 2, 3},
    Recorders <- {a1, a2}, Top <- 2, WindowLimit <- 4, MaxRecords <- 6,
    counters <- s1, window <- s2, aging <- s3, at <- s4, since <- s5, begun <- s6

Budget == INSTANCE WriteBudget WITH
    Scale <- 5, StepUp <- 2, Targets <- {0, 1, 3}, Lengths <- {1, 2}, MaxBytes <- 8, MaxAge <- 2,
    budget <- s1, pending <- s2, asked <- s3, foreign <- s4, overshot <- s5

Allocator == INSTANCE LogAllocator WITH
    Addresses <- {1, 2}, RegionLens <- {1, 2}, Contents <- {k1, k2}, None <- none,
    HeapCapacity <- 3, FreeMin <- 1, FragmentationMax <- 50,
    regions <- s1, next <- s2, allocated <- s3, freed <- s4, gc <- s5, written <- s6

Ring == INSTANCE ClusterRing WITH
    Names <- {1, 2, 3}, Zones <- {rack}, None <- none, Weights <- {1, 2}, Bits <- 3,
    PointHash <- <<<<0, 4>>, <<0, 7>>, <<4, 1>>>>, PerSlot <- 2, MinBits <- 1, MaxBits <- 2,
    topo <- s1

\* One key to a device while two are attached.
DeviceHash == (k1 :> 0 @@ k2 :> 1)

PoliciesInit ==
    /\ focus \in Parts
    /\ Init
    /\ \/ focus = "segments" /\ Segments!Init /\ Spare(7)
       \/ focus = "orders" /\ Orders!Init /\ Spare(4)
       \/ focus = "arc" /\ Arc!ArcInit /\ Spare(2)
       \/ focus = "lru" /\ Lru!Init /\ Spare(4)
       \/ focus = "sketch" /\ Sketch!Init /\ Spare(6)
       \/ focus = "budget" /\ Budget!Init /\ Spare(5)
       \/ focus = "allocator" /\ Allocator!Init /\ Spare(6)
       \/ focus = "ring" /\ Ring!Init /\ Spare(1)
       \/ focus = "devices" /\ Spare(0)

Slotted ==
    \/ focus = "segments" /\ Segments!Next /\ Kept(7)
    \/ focus = "orders" /\ Orders!Next /\ Kept(4)
    \/ focus = "arc" /\ Arc!ArcNext /\ Kept(2)
    \/ focus = "lru" /\ Lru!Next /\ Kept(4)
    \/ focus = "sketch" /\ Sketch!Next /\ Kept(6)
    \/ focus = "budget" /\ Budget!Next /\ Kept(5)
    \/ focus = "allocator" /\ Allocator!Next /\ Kept(6)
    \/ focus = "ring" /\ Ring!Next /\ Kept(1)

PoliciesNext ==
    \/ focus = "devices" /\ Next /\ Kept(0)
    \/ Slotted /\ UNCHANGED vars

PoliciesSpec == PoliciesInit /\ [][PoliciesNext]_<<slots, vars>>

-----------------------------------------------------------------------------
(* What is claimed of them.                                                *)

\* The intrusive lists say what their maps say: every key in one list, the links
\* both ways, the insertion point where its counter puts it (KeyArena,
\* ReplacementSlru, CacheKeyOrder).
ListsAreRight ==
    /\ focus = "segments" => Segments!ListsMatchIndex
    /\ focus = "orders" => Orders!OrdersAreRight /\ Orders!InsertionPointKnown

\* What is counted is what is held: a put into the SLRU leaves it fitting, the ARC
\* lists keep their bounds, the simple LRU counts the bytes that handles hold, and
\* the log allocator collects no region in use (insert, ArcList::access, retire,
\* garbage_collection).
PoliciesKeepBounds ==
    /\ focus = "segments" => Segments!PutFits
    /\ focus = "arc" => Arc!ArcBounds
    /\ focus = "lru" => Lru!HeldBytesAreCounted
    /\ focus = "allocator" => Allocator!CollectionSparesTheLive

\* The sketch never counts less than was recorded since the last aging.
SketchNeverUnderstates == focus = "sketch" => Sketch!SketchNeverUnderstates

\* The write budget's share, cut once after an overrun, brings the next window back
\* as far as the spread of block lengths lets it, and never shuts the tier for good
\* (SsdWriteBudget::roll_window).
OverrunsAreCut == focus = "budget" => Budget!OverrunsAreCut

\* Keys are routed by the members as they are, and the handoffs of a change name
\* each hash that moved, once, with the right two nodes.
RingIsRight ==
    /\ [](focus = "ring" => Ring!OwnersAreRight)
    /\ [][focus = "ring" => Ring!HandoffsMatch]_slots
=============================================================================
