---------------------------- MODULE LogAllocator ----------------------------
(***************************************************************************)
(* SimpleLogBasedMemoryAllocator and the StorageGcController that owns one. *)
(* An address is handed out once; a freed region keeps its place until a    *)
(* garbage collection is given its address. The controller collects what is *)
(* freed when it is forced to, when little memory is free, or when the      *)
(* byte counts show fragmentation.                                          *)
(***************************************************************************)
EXTENDS Integers, FiniteSets, FiniteSetsExt

CONSTANTS Addresses,      \* 1..n, in the order they are handed out; the bound
          RegionLens, Contents, None,
          HeapCapacity,   \* 0: unlimited
          FreeMin, FragmentationMax   \* a percentage

VARIABLES regions,        \* regions[p]: None, a live region or a freed one
          next,           \* next_ptr
          allocated, freed,   \* the two byte counters, which only grow
          gc,             \* the controller's switches
          written         \* written[p]: what its owner last stored in a live region

vars == <<regions, next, allocated, freed, gc, written>>

Init == /\ regions = [p \in Addresses |-> None] /\ next = 1
        /\ allocated = 0 /\ freed = 0
        /\ gc \in [force : BOOLEAN, enabled : {FALSE}, paused : {FALSE}]
        /\ written = [p \in Addresses |-> None]

Live == {p \in Addresses : regions[p] # None /\ regions[p].live}
Freed == {p \in Addresses : regions[p] # None /\ ~regions[p].live}
LiveBytes == FoldSet(LAMBDA p, sum : sum + regions[p].len, 0, Live)

Allocate(len) ==
    /\ next \in Addresses
    /\ HeapCapacity = 0 \/ LiveBytes + len <= HeapCapacity
    /\ regions' = [regions EXCEPT ![next] = [live |-> TRUE, len |-> len, sealed |-> FALSE, data |-> None]]
    /\ next' = next + 1 /\ allocated' = allocated + len
    /\ UNCHANGED <<freed, gc, written>>

\* Longer data than the region is refused.
Write(p, content, len) ==
    /\ p \in Live /\ len <= regions[p].len
    /\ regions' = [regions EXCEPT ![p].data = content]
    /\ written' = [written EXCEPT ![p] = content]
    /\ UNCHANGED <<next, allocated, freed, gc>>

\* seal and seal_with_crc, which refuses a length the region does not have. A sealed
\* region can still be written.
Seal(p, len) ==
    /\ p \in Live /\ len <= regions[p].len
    /\ regions' = [regions EXCEPT ![p].sealed = TRUE]
    /\ UNCHANGED <<next, allocated, freed, gc, written>>

\* Fault: the caller's length is believed.
CountedAsAsked(asked, len) == asked
Counted(asked, len) == IF asked < len THEN asked ELSE len

\* free: the whole region, whatever length the caller names; it counts the lesser.
Free(p, asked) ==
    /\ p \in Live
    /\ regions' = [regions EXCEPT ![p].live = FALSE]
    /\ freed' = freed + Counted(asked, regions[p].len)
    /\ written' = [written EXCEPT ![p] = None]
    /\ UNCHANGED <<next, allocated, gc>>

\* Fault: what is asked for is dropped, in use or not.
CollectedAll(chunks) == [p \in Addresses |-> IF p \in chunks THEN None ELSE regions[p]]
Collected(chunks) == [p \in Addresses |-> IF p \in chunks \cap Freed THEN None ELSE regions[p]]

\* gc_job, public, with any list of chunks: one taken before a region was allocated too.
GcJob(chunks) ==
    /\ chunks # {}
    /\ regions' = Collected(chunks)
    /\ UNCHANGED <<next, allocated, freed, gc, written>>

\* need_gc.
NeedGc ==
    /\ ~gc.paused
    /\ \/ gc.force
       \/ HeapCapacity > 0 /\ HeapCapacity - LiveBytes < FreeMin
       \/ LET inUse == allocated - freed
          IN /\ LiveBytes # 0 /\ inUse < LiveBytes
             /\ (LiveBytes - inUse) * 100 > LiveBytes * FragmentationMax

\* pick_submit_chunks, also through poll: every freed chunk.
PickSubmitChunks == gc.enabled /\ NeedGc /\ GcJob(Freed)

\* start, stop and set_enable_gc; set_pause_gc.
Switch(field) == /\ gc' = [gc EXCEPT ![field] = ~@]
                 /\ UNCHANGED <<regions, next, allocated, freed, written>>

Next == \/ \E len \in RegionLens : Allocate(len)
        \/ \E p \in Addresses, len \in RegionLens \cup {0} :
              \/ Seal(p, len) \/ Free(p, len)
              \/ \E content \in Contents : Write(p, content, len)
        \/ \E chunks \in SUBSET Addresses : GcJob(chunks)
        \/ PickSubmitChunks
        \/ \E field \in {"enabled", "paused"} : Switch(field)

Spec == Init /\ [][Next]_vars

\* Collection never takes a region in use: a live region holds what its owner last wrote,
\* whichever chunks were collected. And the counters never show more bytes freed than
\* were: what they leave is at least what is live, so the arithmetic of need_gc does not
\* take memory in use for garbage.
CollectionSparesTheLive ==
    /\ \A p \in Addresses : written[p] # None => p \in Live /\ regions[p].data = written[p]
    /\ allocated - freed >= LiveBytes
    /\ HeapCapacity > 0 => LiveBytes <= HeapCapacity
=============================================================================
