------------------------------ MODULE RdmaCache ------------------------------
(***************************************************************************)
(* RdmaCache: a hash table of fixed-size buckets whose entries are packed   *)
(* pointers into storage engines, one per kind. The entry is the only      *)
(* record of where a block lies, so whatever a put or a removal displaces  *)
(* must be freed by the same call.                                         *)
(*                                                                         *)
(* Signatures, fingerprints and checksums are functions of the key and the *)
(* block, and the key is compared as well, so they are left out. Sizes     *)
(* include key and headers. "Fault:" marks a broken variant of the         *)
(* definition after it.                                                    *)
(***************************************************************************)
EXTENDS Integers, FiniteSets, FiniteSetsExt, Functions

CONSTANTS Keys, None,
          Values,      \* sets of [id, size]
          BucketCap,   \* slots of a bucket
          BucketCount,
          BucketOf,    \* [Keys -> 0 .. BucketCount - 1]
          Kinds,       \* the kinds of engine
          Capacities,  \* what an engine may be opened with, 0: not at all
          MaxLength,   \* the largest length an entry can record
          MaxBlocks    \* bound on the blocks an engine ever stores

VARIABLES bucket,  \* bucket[b]: [slot, hand]; a slot is None or an index entry
          engine,  \* engine[kind]: None or [capacity, used, next, blocks]
          last,    \* history: what was stored last under each key the index lists
          reopened \* history: the kinds whose engine was replaced under live entries

vars == <<bucket, engine, last, reopened>>

Slots == 0 .. BucketCap - 1
Addrs == 1 .. MaxBlocks
NoBlocks == [a \in Addrs |-> None]

NewBucket == [slot |-> [p \in Slots |-> None], hand |-> 0]

\* RdmaStorageEngine::new: addresses start from the same base every time.
NewEngine(capacity) == [capacity |-> capacity, used |-> 0, next |-> 1, blocks |-> NoBlocks]

\* RdmaCache::new: an engine of no capacity is not made.
Init ==
    /\ bucket = [b \in 0 .. BucketCount - 1 |-> NewBucket]
    /\ engine \in [Kinds -> {IF c = 0 THEN None ELSE NewEngine(c) : c \in Capacities}]
    /\ last = [k \in Keys |-> None]
    /\ reopened = {}

-----------------------------------------------------------------------------
(* A bucket.                                                               *)

\* get_index
Holding(b, k) == {p \in Slots : b.slot[p] # None /\ b.slot[p].key = k}
IndexOf(b, k) == IF Holding(b, k) = {} THEN None ELSE Min(Holding(b, k))

\* empty_entry
Empty(b) == {p \in Slots : b.slot[p] = None}

\* eviction_candidate: from the hand on, wrapping, the first occupied slot.
Candidate(b) ==
    LET step == {s \in Slots : b.slot[(b.hand + s) % BucketCap] # None}
    IN IF step = {} THEN b.hand ELSE (b.hand + Min(step)) % BucketCap

\* take_eviction_candidate: the entry leaves and the hand moves on.
Evicted(b) ==
    LET p == Candidate(b)
    IN [slot |-> [b.slot EXCEPT ![p] = None], hand |-> (p + 1) % BucketCap]

\* rdma_length_fits_index_entry: the length an entry records, and the flag that
\* says it is a ceiling.
Fits(size) == size <= MaxLength

\* Fault: the flag is set only for blocks past the largest size there is.
EntryUnflagged(k, kind, addr, size) ==
    [key |-> k, kind |-> kind, addr |-> addr,
     length |-> IF Fits(size) THEN size ELSE MaxLength, overflow |-> FALSE]

\* set_data_length with set_packed_addr.
Entry(k, kind, addr, size) ==
    [key |-> k, kind |-> kind, addr |-> addr,
     length |-> IF Fits(size) THEN size ELSE MaxLength, overflow |-> ~ Fits(size)]

\* Fault: what a full bucket evicts is not handed back.
TablePutForgetting(b, k, entry) ==
    LET at == IndexOf(b, k)
        full == Empty(b) = {}
        room == IF at = None /\ full THEN Evicted(b) ELSE b
        p == IF at # None THEN at ELSE IF full THEN Candidate(b) ELSE Min(Empty(b))
    IN [bucket |-> [room EXCEPT !.slot[p] = entry],
        old |-> IF at # None THEN b.slot[at] ELSE None]

\* RdmaHashTable::put: in place over the key's own entry, else in an empty slot,
\* else in the slot of the victim. What was displaced is the caller's to free.
TablePut(b, k, entry) ==
    LET at == IndexOf(b, k)
        full == Empty(b) = {}
        room == IF at = None /\ full THEN Evicted(b) ELSE b
        p == IF at # None THEN at ELSE IF full THEN Candidate(b) ELSE Min(Empty(b))
    IN [bucket |-> [room EXCEPT !.slot[p] = entry],
        old |-> b.slot[p]]

\* RdmaHashTable::del
TableDel(b, k) == [b EXCEPT !.slot[IndexOf(b, k)] = None]

-----------------------------------------------------------------------------
(* The engines.                                                            *)

\* RdmaStorageEngine::put
HasRoom(e, size) == e # None /\ e.used + size <= e.capacity /\ e.next <= MaxBlocks
Stored(e, k, v) ==
    [e EXCEPT !.used = @ + v.size, !.next = @ + 1, !.blocks[e.next] = [key |-> k, value |-> v]]

\* RdmaStorageEngine::del: an address that holds nothing is no error.
Freed(e, addr) ==
    IF e.blocks[addr] = None THEN e
    ELSE [e EXCEPT !.used = IF @ < e.blocks[addr].value.size THEN 0 ELSE @ - e.blocks[addr].value.size,
                   !.blocks[addr] = None]

\* delete_storage_block, through the engine of the entry's kind.
Release(engines, entry) ==
    IF entry = None \/ engines[entry.kind] = None THEN engines
    ELSE [engines EXCEPT ![entry.kind] = Freed(@, entry.addr)]

Corrupt == [id |-> None, size |-> 0]

\* get of the entry's engine: an overflowed length is taken from the block, any
\* other must be the block's own.
ReadBlock(entry) ==
    LET e == engine[entry.kind]
        block == IF e = None THEN None ELSE e.blocks[entry.addr]
        size == IF entry.overflow THEN block.value.size ELSE entry.length
    IN IF block = None \/ block.key # entry.key THEN None
       ELSE IF size # block.value.size THEN Corrupt
       ELSE block.value

\* RdmaCache::lookup
Lookup(k) ==
    LET b == bucket[BucketOf[k]]
    IN IF IndexOf(b, k) = None THEN None ELSE ReadBlock(b.slot[IndexOf(b, k)])

-----------------------------------------------------------------------------
(* The calls.                                                              *)

\* insert_to_storage: the block is stored before the index is told, and what
\* the index displaced is freed last. Without room nothing happens.
\* A rewrite needs room for both blocks.
InsertToStorage(kind, k, v) ==
    /\ HasRoom(engine[kind], v.size)
    /\ LET stored == [engine EXCEPT ![kind] = Stored(@, k, v)]
           put == TablePut(bucket[BucketOf[k]], k, Entry(k, kind, engine[kind].next, v.size))
       IN /\ bucket' = [bucket EXCEPT ![BucketOf[k]] = put.bucket]
          /\ engine' = Release(stored, put.old)
          /\ last' = [j \in Keys |-> IF j = k THEN v
                                     ELSE IF put.old # None /\ put.old.key = j THEN None
                                     ELSE last[j]]
    /\ UNCHANGED reopened

\* remove
Remove(k) ==
    LET b == bucket[BucketOf[k]]
    IN /\ IndexOf(b, k) # None
       /\ bucket' = [bucket EXCEPT ![BucketOf[k]] = TableDel(b, k)]
       /\ engine' = Release(engine, b.slot[IndexOf(b, k)])
       /\ last' = [last EXCEPT ![k] = None]
       /\ UNCHANGED reopened

Entries == {bucket[BucketOf[k]].slot[p] : k \in Keys, p \in Slots} \ {None}
Into(kind) == {e \in Entries : e.kind = kind}

\* init_storage_engine: a new, empty engine in the place of the old one. The index
\* is left alone, and may point into the engine that went.
InitStorageEngine(kind, capacity) ==
    /\ engine' = [engine EXCEPT ![kind] = NewEngine(capacity)]
    /\ reopened' = IF Into(kind) = {} THEN reopened \ {kind} ELSE reopened \cup {kind}
    /\ UNCHANGED <<bucket, last>>

Next ==
    \/ \E kind \in Kinds, k \in Keys, v \in Values : InsertToStorage(kind, k, v)
    \/ \E k \in Keys : Remove(k)
    \/ \E kind \in Kinds, c \in Capacities \ {0} : InitStorageEngine(kind, c)

Spec == Init /\ [][Next]_vars

-----------------------------------------------------------------------------
(* What is claimed of it.                                                  *)

Blocks(kind) == IF engine[kind] = None THEN {}
                ELSE {a \in Addrs : engine[kind].blocks[a] # None}

\* The engines hold exactly the blocks the index points at, and count exactly
\* their bytes: whatever a put overwrites or a full bucket evicts is freed by
\* that put (RdmaHashTablePut::old_addr), and no entry dangles. So every key
\* in the index reads back as what was stored last, however large. Where an
\* engine was replaced under live entries (init_storage_engine) their addresses
\* are given out again, so entries may dangle and a release may free another
\* key's block: then no block is leaked, the bytes stay exact, and a read of such
\* a kind misses or answers what was stored last, never another value.
IndexAndBlocksAgree ==
    /\ \A kind \in Kinds :
         LET pointed == {e.addr : e \in Into(kind)}
         IN /\ Blocks(kind) \subseteq pointed
            /\ kind \notin reopened => Blocks(kind) = pointed
            /\ engine[kind] # None =>
                 /\ engine[kind].used
                      = MapThenSumSet(LAMBDA a : engine[kind].blocks[a].value.size, Blocks(kind))
                 /\ engine[kind].used <= engine[kind].capacity
    /\ \A k \in Keys :
         LET at == IndexOf(bucket[BucketOf[k]], k)
         IN at # None =>
              \/ Lookup(k) = last[k]
              \/ Lookup(k) = None /\ bucket[BucketOf[k]].slot[at].kind \in reopened
=============================================================================
