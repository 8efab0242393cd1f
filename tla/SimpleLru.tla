----------------------------- MODULE SimpleLru -----------------------------
(***************************************************************************)
(* SimpleLruCache and ZeroCopySimpleLruCache: one mutex, a map, an order    *)
(* from the most recent, and the bytes counted. The zero-copy cache hands   *)
(* out handles, which hold the entry's value (an Arc): an entry with a      *)
(* handle is not evicted, and one that is removed or replaced stays counted *)
(* in `retired` (pinned_removed) until a later call finds its handles gone. *)
(***************************************************************************)
EXTENDS Integers, Sequences, FiniteSets, SequencesExt, FiniteSetsExt

CONSTANTS LruKeys, None, EntrySizes, LruCapacities,
          MaxHandles        \* bound on handles out at once

VARIABLES lru, handles,     \* handles: value identity -> number of handles
          zeroCopy,         \* which of the two caches
          settled           \* the last call evicted, and no handle was dropped since

vars == <<lru, handles, zeroCopy, settled>>

\* Identities of values: enough for every key and every handle.
Ids == 1..(Cardinality(LruKeys) + MaxHandles)

Init == /\ \E c \in LruCapacities :
              lru = [capacity |-> c, size |-> 0, order |-> <<>>,
                     entries |-> [k \in LruKeys |-> None], retired |-> {}]
        /\ handles = [i \in Ids |-> 0]
        /\ zeroCopy \in BOOLEAN /\ settled = TRUE

HandlesOut == FoldSet(LAMBDA i, n : n + handles[i], 0, Ids)

Resident(c) == {k \in LruKeys : c.entries[k] # None}
Fresh(c, h) == CHOOSE i \in Ids : /\ h[i] = 0
                                  /\ \A k \in Resident(c) : c.entries[k].id # i
                                  /\ \A e \in c.retired : e.id # i

Touched(c, k) == [c EXCEPT !.order = <<k>> \o Remove(@, k)]

Sizes(S) == FoldSet(LAMBDA e, sum : sum + e.size, 0, S)

\* Fault: the bytes of a removed entry are given back while a handle still holds them.
RetireAtOnce(c, h, e) == [c EXCEPT !.size = @ - e.size]

\* retire: Arc::strong_count tells whether a handle holds the value.
Retire(c, h, e) == IF h[e.id] > 0 THEN [c EXCEPT !.retired = @ \cup {e}]
                   ELSE [c EXCEPT !.size = @ - e.size]

Reaped(c, h) == LET gone == {e \in c.retired : h[e.id] = 0}
                IN [c EXCEPT !.retired = @ \ gone, !.size = @ - Sizes(gone)]

Without(c, h, k) ==
    IF c.entries[k] = None THEN c
    ELSE Retire([c EXCEPT !.entries[k] = None, !.order = Remove(@, k)], h, c.entries[k])

\* evict_unpinned: the oldest entry without a handle, until the size fits or there is
\* none. On the unpinned entries, oldest first, this is the shortest sufficient prefix.
Evicted(cache, h) ==
    LET c == Reaped(cache, h)
        free == SelectSeq(Reverse(c.order), LAMBDA k : h[c.entries[k].id] = 0)
        Left(n) == c.size - Sizes({c.entries[free[i]] : i \in 1..n})
        enough == {n \in 0..Len(free) : Left(n) <= c.capacity}
        n == IF enough = {} THEN Len(free) ELSE Min(enough)
        victims == {free[i] : i \in 1..n}
    IN [c EXCEPT !.size = Left(n),
                 !.order = SelectSeq(@, LAMBDA k : k \notin victims),
                 !.entries = [k \in LruKeys |-> IF k \in victims THEN None ELSE @[k]]]

\* SimpleLruInner.insert; an entry longer than the whole cache changes nothing.
Inserted(k, size, h) ==
    LET cleared == Without(Reaped(lru, h), h, k)
        id == Fresh(lru, h)
        added == [Touched(cleared, k) EXCEPT !.size = @ + size,
                                            !.entries[k] = [id |-> id, size |-> size]]
    IN [cache |-> added, id |-> id]

\* The plain cache's insert: the new entry holds no handle and may be the victim itself.
Insert(k, size) ==
    /\ ~zeroCopy /\ size <= lru.capacity
    /\ lru' = Evicted(Inserted(k, size, handles).cache, handles)
    /\ settled' = TRUE
    /\ UNCHANGED <<handles, zeroCopy>>

\* insert_pinned evicts while its own handle is out; the zero-copy insert is the same
\* call with the handle dropped when it returns, and nothing evicted after that.
InsertPinned(k, size, keep) ==
    /\ zeroCopy /\ size <= lru.capacity
    /\ keep => HandlesOut < MaxHandles
    /\ LET new == Inserted(k, size, handles)
           held == [handles EXCEPT ![new.id] = 1]
       IN /\ lru' = Evicted(new.cache, held)
          /\ handles' = IF keep THEN held ELSE handles
          /\ settled' = keep
    /\ UNCHANGED zeroCopy

\* A lookup copies the value and drops its reference before it returns.
Lookup(k) ==
    /\ lru.entries[k] # None
    /\ lru' = Touched(lru, k)
    /\ UNCHANGED <<handles, zeroCopy, settled>>

Acquire(k) ==
    /\ zeroCopy /\ lru.entries[k] # None /\ HandlesOut < MaxHandles
    /\ lru' = Touched(lru, k)
    /\ handles' = [handles EXCEPT ![lru.entries[k].id] = @ + 1]
    /\ UNCHANGED <<zeroCopy, settled>>

\* release drops the handle and evicts; a handle may also just be dropped.
ReleaseHandle(i, evict) ==
    /\ handles[i] > 0
    /\ handles' = [handles EXCEPT ![i] = @ - 1]
    /\ lru' = IF evict THEN Evicted(lru, handles') ELSE lru
    /\ settled' = evict
    /\ UNCHANGED zeroCopy

RemoveKey(k) ==
    /\ lru.entries[k] # None
    /\ lru' = Without(lru, handles, k)
    /\ UNCHANGED <<handles, zeroCopy, settled>>

RemoveAll ==
    /\ Resident(lru) # {}
    /\ lru' = FoldSet(LAMBDA k, c : Without(c, handles, k), lru, LruKeys)
    /\ UNCHANGED <<handles, zeroCopy, settled>>

SetCapacity(c) ==
    /\ c # lru.capacity
    /\ lru' = Evicted([lru EXCEPT !.capacity = c], handles)
    /\ settled' = TRUE
    /\ UNCHANGED <<handles, zeroCopy>>

\* size reaps before it answers.
ReadSize ==
    /\ Reaped(lru, handles) # lru
    /\ lru' = Reaped(lru, handles)
    /\ UNCHANGED <<handles, zeroCopy, settled>>

Next == \/ \E k \in LruKeys : \/ Lookup(k) \/ Acquire(k) \/ RemoveKey(k)
                              \/ \E size \in EntrySizes :
                                    Insert(k, size) \/ \E keep \in BOOLEAN : InsertPinned(k, size, keep)
        \/ \E i \in Ids, evict \in BOOLEAN : ReleaseHandle(i, evict)
        \/ RemoveAll \/ ReadSize
        \/ \E c \in LruCapacities : SetCapacity(c)

Spec == Init /\ [][Next]_vars

\* The size counts exactly the values in the map and those removed under a handle, every
\* value a handle holds is counted, no value twice, the order lists the map's keys, and
\* the cache is over its capacity only by values in use, unless a handle was dropped
\* without a release since the last eviction.
HeldBytesAreCounted ==
    LET kept == {lru.entries[k] : k \in Resident(lru)}
    IN /\ lru.size = Sizes(kept) + Sizes(lru.retired)
       /\ \A i \in Ids : handles[i] > 0 =>
             Cardinality({e \in kept : e.id = i}) + Cardinality({e \in lru.retired : e.id = i}) = 1
       /\ ToSet(lru.order) = Resident(lru) /\ IsInjective(lru.order)
       /\ settled /\ lru.size > lru.capacity => \A e \in kept : handles[e.id] > 0
=============================================================================
