------------------------------ MODULE Recovery ------------------------------
(***************************************************************************)
(* The persistent tiers of CacheInner and their recovery. A call runs under *)
(* the write lock; here it is a list of steps, `todo`, taken one by one, so *)
(* that the process can end between any two of its writes. memory, pmem and *)
(* disk_index die with the process. A PMEM block and the manifest line that *)
(* lists it, an SSD block in the store, and in builds without rocksdb-ssd   *)
(* the block's file and its manifest line, survive.                         *)
(*                                                                         *)
(* Which tiers admit a value is left open (TieredCache decides it), the SSD *)
(* tier has room for every key, and entries have no time to live: the       *)
(* files do not record one.                                                 *)
(***************************************************************************)
EXTENDS Integers, Sequences, FiniteSets, SequencesExt, TLC

CONSTANTS Keys, Values, None,
          Len_,         \* Len_[v]: length of a value
          MemoryRoom, PmemRoom,   \* entries that fit
          Builds,       \* {TRUE}: the rocksdb-ssd build, {FALSE}: the file build
          Compactions,  \* whether an append to the disk manifest may rewrite it
          MaxCalls, MaxCrashes    \* bounds on calls and on ends of the process

VARIABLES rocks, up, ssdOnly, todo, calls, crashes,
          memory, pmem, index,
          pblock, plisted,        \* PMEM block files; manifest: listed lengths
          file, store, dlisted,   \* SSD block files; the store; disk manifest
          acked, unsure, leftover, held   \* history

volatile == <<memory, pmem, index>>
pmemFiles == <<pblock, plisted>>
ssdFiles == <<file, store, dlisted>>
history == <<acked, unsure, leftover, held>>
vars == <<rocks, up, ssdOnly, todo, calls, crashes, volatile, pmemFiles, ssdFiles, history>>

Nothing == [k \in Keys |-> None]
Held(f) == {k \in Keys : f[k] # None}

Init == /\ rocks \in Builds /\ up = TRUE /\ ssdOnly = FALSE /\ todo = <<>>
        /\ calls = 0 /\ crashes = 0
        /\ memory = Nothing /\ pmem = Nothing /\ index = Nothing
        /\ pblock = Nothing /\ plisted = Nothing
        /\ file = Nothing /\ store = Nothing /\ dlisted = Nothing
        /\ acked = Nothing /\ held = Nothing
        /\ unsure = [k \in Keys |-> {}] /\ leftover = [k \in Keys |-> {}]

Step(op, k, v) == [op |-> op, key |-> k, val |-> v]

\* read_ssd_block: the store, then the block's own file. It does not ask the index.
SsdBlock(k) == IF Held(store) = {} THEN None
               ELSE IF store[k] # None THEN store[k] ELSE file[k]

Found(k) == IF memory[k] # None THEN memory[k]
            ELSE IF pmem[k] # None THEN pmem[k] ELSE SsdBlock(k)

-----------------------------------------------------------------------------
\* The writes a call is made of, in the order the code makes them.

\* Fault: the manifest lists the block before it is there.
PersistPutListedFirst(k, v) == <<Step("list", k, v), Step("block", k, v)>>

PersistPut(k, v) == <<Step("block", k, v), Step("list", k, v)>>

PersistDelete(k) == IF pblock[k] = None THEN <<>>
                    ELSE <<Step("block", k, None), Step("list", k, None)>>

PutPmem(k, v) == PersistPut(k, v) \o <<Step("pmem", k, v), Step("evictPmem", k, v)>>

\* write_ssd_block, then the index, then the manifest.
PutSsd(k, v) ==
    (IF rocks THEN <<>> ELSE <<Step("file", k, v)>>)
    \o <<Step("store", k, v), Step("index", k, v)>>
    \o (IF rocks THEN <<>> ELSE <<Step("dlist", k, v)>>)

\* A demotion appends to the manifest before the index has the key.
PutSsdBypassIfAbsent(k, v) ==
    IF index[k] # None THEN <<>>
    ELSE (IF rocks THEN <<>> ELSE <<Step("file", k, v)>>)
         \o <<Step("store", k, v)>>
         \o (IF rocks THEN <<>> ELSE <<Step("dlist", k, v)>>)
         \o <<Step("index", k, v)>>

DeleteStaleSsd(k) ==
    (IF rocks THEN <<>> ELSE <<Step("file", k, None)>>)
    \o <<Step("store", k, None)>>
    \o (IF rocks THEN <<>> ELSE <<Step("dlist", k, None)>>)
    \o <<Step("index", k, None)>>

\* Fault: the PMEM copy a newer write leaves behind keeps its files.
DropStalePmemInMemory(k) == IF pmem[k] = None THEN <<>> ELSE <<Step("pmem", k, None)>>

DropStalePmem(k) ==
    IF pmem[k] = None THEN <<>> ELSE PersistDelete(k) \o <<Step("pmem", k, None)>>

-----------------------------------------------------------------------------
Called == up /\ todo = <<>> /\ calls < MaxCalls /\ calls' = calls + 1
Begin(steps) == Called /\ todo' = steps /\ UNCHANGED <<rocks, up, ssdOnly, crashes>>
Idle == UNCHANGED <<rocks, up, ssdOnly, calls, crashes>>

\* held speaks of the first state after a recovery: any other call ends it.
CallHistory == held' = Nothing /\ UNCHANGED <<acked, unsure, leftover>>

\* put_with_request: memory, PMEM, SSD in turn, each written or its older copy
\* dropped. In SSD-only mode the tiers above are not touched.
Put(k, v, tiers) ==
    /\ ssdOnly => tiers = {"ssd"}
    /\ Begin((IF ssdOnly THEN <<>>
              ELSE (IF "memory" \in tiers
                    THEN <<Step("memory", k, v), Step("evictMemory", k, v)>>
                    ELSE <<Step("memory", k, None)>>)
                   \o <<Step(IF "pmem" \in tiers THEN "putPmem" ELSE "dropPmem", k, v)>>)
             \o <<Step(IF "ssd" \in tiers THEN "putSsd" ELSE "staleSsd", k, v), Step("done", k, v)>>)
    /\ CallHistory /\ UNCHANGED <<volatile, pmemFiles, ssdFiles>>

\* A read that copies what it found into memory.
Refill(k) ==
    /\ memory[k] = None /\ Found(k) # None /\ ~ssdOnly
    /\ Begin(<<Step("memory", k, Found(k)), Step("evictMemory", k, Found(k))>>)
    /\ CallHistory /\ UNCHANGED <<volatile, pmemFiles, ssdFiles>>

\* invalidate: index, disk manifest, PMEM files, then the block itself.
Invalidate(k) ==
    /\ Begin((IF rocks THEN <<>> ELSE <<Step("dlist", k, None)>>)
             \o PersistDelete(k)
             \o (IF rocks THEN <<>> ELSE <<Step("file", k, None)>>)
             \o <<Step("store", k, None), Step("done", k, None)>>)
    /\ memory' = [memory EXCEPT ![k] = None]
    /\ pmem' = [pmem EXCEPT ![k] = None]
    /\ index' = [index EXCEPT ![k] = None]
    /\ CallHistory /\ UNCHANGED <<pmemFiles, ssdFiles>>

\* clear_all_locked: the PMEM directory, the store, the disk directory.
Clear ==
    /\ Begin(<<Step("clearPmem", CHOOSE k \in Keys : TRUE, None),
               Step("clearStore", CHOOSE k \in Keys : TRUE, None),
               Step("clearDisk", CHOOSE k \in Keys : TRUE, None)>>
             \o SetToSeq({Step("done", k, None) : k \in Keys}))
    /\ memory' = Nothing /\ pmem' = Nothing /\ index' = Nothing
    /\ CallHistory /\ UNCHANGED <<pmemFiles, ssdFiles>>

\* Calls that drop the PMEM map and leave its files: the older copies are
\* there for the next recovery to find.
Leave(ks) == leftover' = [k \in Keys |-> IF k \in ks /\ pblock[k] # None
                                         THEN leftover[k] \cup {pblock[k]} ELSE leftover[k]]

SetSsdInstanceOnly(enabled) ==
    /\ Called /\ ssdOnly # enabled
    /\ ssdOnly' = enabled
    /\ IF enabled THEN memory' = Nothing /\ pmem' = Nothing /\ Leave(Keys)
                  ELSE UNCHANGED <<memory, pmem, leftover>>
    /\ held' = Nothing
    /\ UNCHANGED <<rocks, up, todo, crashes, index, pmemFiles, ssdFiles, acked, unsure>>

InvalidateMemoryOnly(k) ==
    /\ Called
    /\ memory' = [memory EXCEPT ![k] = None]
    /\ pmem' = [pmem EXCEPT ![k] = None]
    /\ Leave({k})
    /\ held' = Nothing
    /\ UNCHANGED <<rocks, up, ssdOnly, todo, crashes, index, pmemFiles, ssdFiles, acked, unsure>>

\* invalidate_shard, invalidate_slot, invalidate_page_segment: the SSD blocks go
\* in one batch and the disk manifest is written whole.
InvalidateGroup(ks) ==
    /\ Begin((IF rocks THEN <<>> ELSE SetToSeq({Step("file", k, None) : k \in ks \cap Held(index)}))
             \o SetToSeq({Step("store", k, None) : k \in ks \cap Held(index)})
             \o <<Step("rewrite", CHOOSE k \in ks : TRUE, None)>>
             \o SetToSeq({Step("done", k, None) : k \in ks}))
    /\ memory' = [k \in Keys |-> IF k \in ks THEN None ELSE memory[k]]
    /\ pmem' = [k \in Keys |-> IF k \in ks THEN None ELSE pmem[k]]
    /\ index' = [k \in Keys |-> IF k \in ks THEN None ELSE index[k]]
    /\ Leave(ks)
    /\ held' = Nothing
    /\ UNCHANGED <<pmemFiles, ssdFiles, acked, unsure>>

-----------------------------------------------------------------------------
Running(op) == up /\ todo # <<>> /\ Head(todo).op = op
Key == Head(todo).key
Val == Head(todo).val
Then(steps) == todo' = steps \o Tail(todo)

\* A step that became a list of steps when its turn came.
Unfold ==
    /\ \/ Running("putPmem") /\ Then(PutPmem(Key, Val))
       \/ Running("dropPmem") /\ Then(DropStalePmem(Key))
       \/ Running("putSsd") /\ Then(PutSsd(Key, Val))
       \/ /\ Running("staleSsd")
          /\ Then(IF index[Key] # None /\ SsdBlock(Key) # Val THEN DeleteStaleSsd(Key) ELSE <<>>)
       \/ Running("bypass") /\ \E refused \in BOOLEAN :
             Then(IF refused THEN <<>> ELSE PutSsdBypassIfAbsent(Key, Val))
       \/ Running("unpersist") /\ Then(PersistDelete(Key))
    /\ Idle /\ UNCHANGED <<volatile, pmemFiles, ssdFiles, history>>

StepVolatile ==
    /\ \/ /\ Running("memory")
          /\ memory' = [memory EXCEPT ![Key] = Val] /\ UNCHANGED <<pmem, index>>
       \/ /\ Running("pmem")
          /\ pmem' = [pmem EXCEPT ![Key] = Val] /\ UNCHANGED <<memory, index>>
       \/ /\ Running("index")
          /\ index' = [index EXCEPT ![Key] = Val] /\ UNCHANGED <<memory, pmem>>
    /\ Then(<<>>) /\ Idle /\ UNCHANGED <<pmemFiles, ssdFiles, history>>

\* One victim; it goes to PMEM if it has no copy there, or with a PMEM tier of no
\* room to SSD.
EvictMemory ==
    /\ Running("evictMemory")
    /\ IF Cardinality(Held(memory)) <= MemoryRoom
       THEN Then(<<>>) /\ UNCHANGED memory
       ELSE \E victim \in Held(memory) :
              /\ memory' = [memory EXCEPT ![victim] = None]
              /\ Then((IF PmemRoom = 0 THEN <<Step("bypass", victim, memory[victim])>>
                       ELSE IF pmem[victim] # None THEN <<>>
                       ELSE <<Step("putPmem", victim, memory[victim])>>)
                      \o <<Head(todo)>>)
    /\ Idle /\ UNCHANGED <<pmem, index, pmemFiles, ssdFiles, history>>

EvictPmem ==
    /\ Running("evictPmem")
    /\ IF Cardinality(Held(pmem)) <= PmemRoom
       THEN Then(<<>>) /\ UNCHANGED pmem
       ELSE \E victim \in Held(pmem) :
              /\ pmem' = [pmem EXCEPT ![victim] = None]
              /\ Then(<<Step("bypass", victim, pmem[victim]), Step("unpersist", victim, None), Head(todo)>>)
    /\ Idle /\ UNCHANGED <<memory, index, pmemFiles, ssdFiles, history>>

WriteBlock == pblock' = [pblock EXCEPT ![Key] = Val] /\ UNCHANGED plisted

\* append_pmem_manifest_line, which may compact: the live records whose blocks are there.
AppendPmemManifest ==
    LET listed == [plisted EXCEPT ![Key] = IF Val = None THEN None ELSE Len_[Val]]
    IN /\ plisted' \in {listed, [k \in Keys |-> IF pblock[k] = None THEN None ELSE listed[k]]}
       /\ UNCHANGED pblock

ClearPmemPersistence == pblock' = Nothing /\ plisted' = Nothing

StepPmemFiles ==
    /\ \/ Running("block") /\ WriteBlock
       \/ Running("list") /\ AppendPmemManifest
       \/ Running("clearPmem") /\ ClearPmemPersistence
    /\ Then(<<>>) /\ Idle /\ UNCHANGED <<volatile, ssdFiles, history>>

\* rewrite_disk_manifest, also as the compaction an append ends with, writes what the
\* disk index holds.
RewriteDiskManifest == dlisted' = IF rocks THEN dlisted ELSE index

AppendDiskManifest ==
    \E compacts \in Compactions :
       IF compacts THEN RewriteDiskManifest ELSE dlisted' = [dlisted EXCEPT ![Key] = Val]

StepSsdFiles ==
    /\ \/ Running("file") /\ file' = [file EXCEPT ![Key] = Val] /\ UNCHANGED <<store, dlisted>>
       \/ Running("store") /\ store' = [store EXCEPT ![Key] = Val] /\ UNCHANGED <<file, dlisted>>
       \/ Running("dlist") /\ AppendDiskManifest /\ UNCHANGED <<file, store>>
       \/ Running("rewrite") /\ RewriteDiskManifest /\ UNCHANGED <<file, store>>
       \/ Running("clearStore") /\ store' = Nothing /\ UNCHANGED <<file, dlisted>>
       \/ Running("clearDisk") /\ file' = Nothing /\ dlisted' = Nothing /\ UNCHANGED store
    /\ Then(<<>>) /\ Idle /\ UNCHANGED <<volatile, pmemFiles, history>>

\* The call returned: what it says of its key is what counts from now on.
Done ==
    /\ Running("done")
    /\ Then(<<>>)
    /\ acked' = [acked EXCEPT ![Key] = Val]
    /\ unsure' = [unsure EXCEPT ![Key] = {}]
    /\ leftover' = [leftover EXCEPT ![Key] = @ \cap {pblock[Key]}]
    /\ Idle /\ UNCHANGED <<volatile, pmemFiles, ssdFiles, held>>

-----------------------------------------------------------------------------
\* What recover_pmem_index_locked puts back: a listed block of the listed length.
PmemOnFile == [k \in Keys |-> IF pblock[k] # None /\ plisted[k] = Len_[pblock[k]]
                              THEN pblock[k] ELSE None]

\* What recover_disk_index_locked indexes: the store's keys, or the listed keys
\* whose block file is there.
IndexOnDisk == IF rocks THEN store
               ELSE [k \in Keys |-> IF dlisted[k] # None THEN file[k] ELSE None]

\* The process ends. Keys no running call is about are expected back, when all
\* that PMEM has on file fits and nothing older was left there.
Crash ==
    /\ up /\ crashes < MaxCrashes
    /\ up' = FALSE /\ crashes' = crashes + 1
    /\ held' = IF Cardinality(Held(PmemOnFile)) > PmemRoom THEN Nothing
               ELSE [k \in Keys |->
                       IF (\E i \in DOMAIN todo : todo[i].key = k) \/ leftover[k] # {} THEN None
                       ELSE IF pmem[k] # None THEN pmem[k] ELSE index[k]]
    /\ unsure' = [k \in Keys |-> unsure[k]
           \cup {todo[i].val : i \in {i \in DOMAIN todo : todo[i] = Step("done", k, todo[i].val)}}]
    /\ memory' = Nothing /\ pmem' = Nothing /\ index' = Nothing
    /\ todo' = <<>> /\ ssdOnly' = FALSE
    /\ UNCHANGED <<rocks, calls, pmemFiles, ssdFiles, acked, leftover>>

\* A new process starts and recovers: PMEM, then the disk index.
Restart ==
    /\ ~up /\ up' = TRUE
    /\ todo' = <<Step("recoverPmem", CHOOSE k \in Keys : TRUE, None)>>
    /\ UNCHANGED <<rocks, ssdOnly, calls, crashes, volatile, pmemFiles, ssdFiles, history>>

\* recover_persistent_tiers of a cache that runs.
Recover ==
    /\ Begin(<<Step("recoverPmem", CHOOSE k \in Keys : TRUE, None)>>)
    /\ CallHistory /\ UNCHANGED <<volatile, pmemFiles, ssdFiles>>

RecoverPmem ==
    /\ Running("recoverPmem")
    /\ pmem' = PmemOnFile
    /\ Then(<<Step("evictPmem", Key, None), Step("recoverDisk", Key, None)>>)
    /\ Idle /\ UNCHANGED <<memory, index, pmemFiles, ssdFiles, history>>

RecoverDisk ==
    /\ Running("recoverDisk")
    /\ index' = IndexOnDisk
    /\ Then(<<>>)
    /\ Idle /\ UNCHANGED <<memory, pmem, pmemFiles, ssdFiles, history>>

Next ==
    \/ \E k \in Keys, v \in Values, tiers \in SUBSET {"memory", "pmem", "ssd"} : Put(k, v, tiers)
    \/ \E k \in Keys : Refill(k) \/ Invalidate(k) \/ InvalidateMemoryOnly(k)
    \/ \E ks \in SUBSET Keys : ks # {} /\ InvalidateGroup(ks)
    \/ Clear \/ Recover
    \/ \E enabled \in BOOLEAN : SetSsdInstanceOnly(enabled)
    \/ Unfold \/ StepVolatile \/ EvictMemory \/ EvictPmem \/ StepPmemFiles \/ StepSsdFiles \/ Done
    \/ Crash \/ Restart \/ RecoverPmem \/ RecoverDisk

Spec == Init /\ [][Next]_vars

Quiet == up /\ todo = <<>>

TypeOK == /\ {memory, pmem, index, pblock, file, store, dlisted, acked, held}
                \subseteq [Keys -> Values \cup {None}]
          /\ plisted \in [Keys -> {Len_[v] : v \in Values} \cup {None}]
          /\ \A k \in Keys : unsure[k] \cup leftover[k] \subseteq Values \cup {None}

\* Whatever write a crash interrupts, and after any number of recoveries, a read
\* finds the last acknowledged value of a key, or nothing, or what an interrupted
\* call was writing; never an older value. The exceptions are the ones the code
\* makes by leaving PMEM files behind, and blocks the file build cannot list.
NothingStaleComesBack ==
    Quiet /\ rocks => \A k \in Keys :
        Found(k) \in {acked[k], None} \cup unsure[k] \cup leftover[k]

\* An entry that was in PMEM or in the disk index when the process ended is found
\* by the next one: "a block it never records is unreachable after a restart:
\* never served, never counted, and never reclaimed by any eviction path".
PersistedEntriesReturn ==
    Quiet => \A k \in Keys : held[k] # None =>
        Found(k) = held[k] /\ (pmem[k] # None \/ index[k] # None)
=============================================================================
