------------------------------ MODULE PinTable ------------------------------
(***************************************************************************)
(* Pins. Each key has an entry with its number of handles, in one of the    *)
(* locked stripes; the atomic pin_handles is the total, kept so that        *)
(* is_pinned can answer "no" without a lock. Acquiring and releasing run    *)
(* under the cache's read lock, several at a time: a total and then entries *)
(* one stripe after the other, or entries and then the total. Whatever      *)
(* drops entries, and everything that asks is_pinned, holds the write lock. *)
(*                                                                         *)
(* fresh[k] and stale[k] are history: handles in use that were acquired     *)
(* since, and before, k's entry was last dropped under their holders.       *)
(***************************************************************************)
EXTENDS Integers, FiniteSets, Functions

CONSTANTS Keys, Threads,
          MaxHandles    \* bound on pin_handles and on handles in use

VARIABLES cached,       \* keys with a copy in some tier
          entries, pin_handles,
          pc, work, removed,    \* work[t]: handles still to add or take away
          fresh, stale, wronged

local == <<pc, work, removed>>
history == <<fresh, stale, wronged>>
vars == <<cached, entries, pin_handles, local, history>>

Zero == [k \in Keys |-> 0]
Total(f) == SumFunctionOnSet(f, Keys)
Smaller(a, b) == IF a < b THEN a ELSE b

Init == /\ cached = {} /\ entries = Zero /\ pin_handles = 0
        /\ pc = [t \in Threads |-> "idle"] /\ work = [t \in Threads |-> Zero]
        /\ removed = [t \in Threads |-> 0]
        /\ fresh = Zero /\ stale = Zero /\ wronged = [k \in Keys |-> FALSE]

ReadLocked(t) == pc[t] \in {"counted", "taking", "taken"}
Writable == \A t \in Threads : ~ReadLocked(t)

\* The stripe's answer is trusted only when the total is not zero.
IsPinned(k) == pin_handles # 0 /\ entries[k] # 0

Counts == {w \in [Keys -> 0..2] : Total(w) \in 1..2}

\* acquire finds the value in one read section and pins in another; so do the
\* acquires without promotion of a value that is on the SSD.
Probe(t, w) ==
    /\ pc[t] = "idle" /\ w \in Counts
    /\ \A k \in Keys : w[k] > 0 => k \in cached
    /\ pc' = [pc EXCEPT ![t] = "probed"] /\ work' = [work EXCEPT ![t] = w]
    /\ UNCHANGED <<cached, entries, pin_handles, removed, history>>

\* Fault: only one handle is counted for a key.
HandlesOnce(w) == Cardinality({k \in Keys : w[k] > 0})

HandlesOf(w) == Total(w)

AddPinHandles(t) ==
    /\ pc[t] = "probed"
    /\ pin_handles + Total(work[t]) + Total(stale) <= MaxHandles
    /\ pin_handles' = pin_handles + HandlesOf(work[t])
    /\ pc' = [pc EXCEPT ![t] = "counted"]
    /\ UNCHANGED <<cached, entries, work, removed, history>>

\* acquire_no_promotion and its batch pin what memory or PMEM holds in the read section
\* that finds it.
PinFound(t, w) ==
    /\ pc[t] = "idle"
    /\ \A k \in Keys : w[k] > 0 => k \in cached
    /\ pin_handles + Total(w) + Total(stale) <= MaxHandles
    /\ pin_handles' = pin_handles + HandlesOf(w)
    /\ pc' = [pc EXCEPT ![t] = "counted"] /\ work' = [work EXCEPT ![t] = w]
    /\ UNCHANGED <<cached, entries, removed, history>>

\* The key's entry, under its stripe's lock.
AddToEntry(t, k) ==
    /\ pc[t] = "counted" /\ work[t][k] > 0
    /\ entries' = [entries EXCEPT ![k] = @ + work[t][k]]
    /\ fresh' = [fresh EXCEPT ![k] = @ + work[t][k]]
    /\ work' = [work EXCEPT ![t][k] = 0]
    /\ pc' = [pc EXCEPT ![t] = IF work'[t] = Zero THEN "idle" ELSE @]
    /\ UNCHANGED <<cached, pin_handles, removed, stale, wronged>>

\* Handles some thread has begun to give back.
Releasing(k) ==
    SumFunctionOnSet([t \in Threads |-> IF pc[t] = "taking" THEN work[t][k] ELSE 0], Threads)

\* unpin, release, release_batch: handles of any age.
Release(t, w) ==
    /\ pc[t] = "idle" /\ w \in Counts
    /\ \A k \in Keys : w[k] + Releasing(k) <= fresh[k] + stale[k]
    /\ pc' = [pc EXCEPT ![t] = "taking"] /\ work' = [work EXCEPT ![t] = w]
    /\ UNCHANGED <<cached, entries, pin_handles, removed, history>>

\* Fault: what is taken from the total is what was asked for.
RemovedAsked(k, n) == n

RemovedFrom(k, n) == Smaller(entries[k], n)

\* A stale handle may take the place of a fresh one in the entry.
TakeFromEntry(t, k) ==
    /\ pc[t] = "taking" /\ work[t][k] > 0
    /\ LET n == work[t][k]
       IN \E old \in 0..Smaller(n, stale[k]) :
            /\ n - old <= fresh[k]
            /\ entries' = [entries EXCEPT ![k] = @ - Smaller(@, n)]
            /\ removed' = [removed EXCEPT ![t] = @ + RemovedFrom(k, n)]
            /\ stale' = [stale EXCEPT ![k] = @ - old]
            /\ fresh' = [fresh EXCEPT ![k] = @ - (n - old)]
            /\ wronged' = [wronged EXCEPT ![k] = fresh'[k] > 0 /\ (@ \/ old > 0)]
    /\ work' = [work EXCEPT ![t][k] = 0]
    /\ pc' = [pc EXCEPT ![t] = IF work'[t] = Zero THEN "taken" ELSE @]
    /\ UNCHANGED <<cached, pin_handles>>

RemovePinHandles(t) ==
    /\ pc[t] = "taken"
    /\ pin_handles' = pin_handles - removed[t]
    /\ removed' = [removed EXCEPT ![t] = 0]
    /\ pc' = [pc EXCEPT ![t] = "idle"]
    /\ UNCHANGED <<cached, entries, work, history>>

-----------------------------------------------------------------------------
\* Entries of ks are dropped: the handles in use become stale.
Orphan(ks) ==
    /\ fresh' = [k \in Keys |-> IF k \in ks THEN 0 ELSE fresh[k]]
    /\ stale' = [k \in Keys |-> IF k \in ks THEN stale[k] + fresh[k] ELSE stale[k]]
    /\ wronged' = [k \in Keys |-> k \notin ks /\ wronged[k]]

\* A put: an entry no handle holds is dropped; the value arrives.
Put(k) ==
    /\ Writable
    /\ cached' = cached \cup {k}
    /\ IF IsPinned(k) THEN UNCHANGED <<entries, history>>
       ELSE entries' = [entries EXCEPT ![k] = 0] /\ Orphan({k})
    /\ UNCHANGED <<pin_handles, local>>

Evict(k) ==
    /\ Writable /\ k \in cached /\ ~IsPinned(k)
    /\ cached' = cached \ {k}
    /\ UNCHANGED <<entries, pin_handles, local, history>>

\* invalidate and invalidate_memory_only: a pinned key keeps its entry when bytes of it
\* were removed; otherwise (no copy, an empty one, or for the second call only copies
\* on SSD) it is dropped and pin_handles keeps counting its handles. The second call
\* may leave a copy below.
Invalidate(k, found, left) ==
    /\ Writable
    /\ found \/ left => k \in cached
    /\ cached' = IF left THEN cached ELSE cached \ {k}
    /\ IF IsPinned(k) /\ found THEN UNCHANGED <<entries, history>>
       ELSE entries' = [entries EXCEPT ![k] = 0] /\ Orphan({k})
    /\ UNCHANGED <<pin_handles, local>>

\* invalidate_shard, invalidate_slot, invalidate_page_segment.
InvalidateGroup(ks) ==
    /\ Writable
    /\ cached' = cached \ ks
    /\ pin_handles' = pin_handles - SumFunctionOnSet(entries, ks)
    /\ entries' = [k \in Keys |-> IF k \in ks THEN 0 ELSE entries[k]]
    /\ Orphan(ks)
    /\ UNCHANGED local

Clear ==
    /\ Writable
    /\ cached' = {}
    /\ entries' = Zero /\ pin_handles' = 0
    /\ Orphan(Keys)
    /\ UNCHANGED local

Next ==
    \/ \E t \in Threads, w \in Counts : Probe(t, w) \/ PinFound(t, w) \/ Release(t, w)
    \/ \E t \in Threads, k \in Keys : AddToEntry(t, k) \/ TakeFromEntry(t, k)
    \/ \E t \in Threads : AddPinHandles(t) \/ RemovePinHandles(t)
    \/ \E k \in Keys : Put(k) \/ Evict(k)
    \/ \E k \in Keys, found, left \in BOOLEAN : Invalidate(k, found, left)
    \/ \E ks \in SUBSET Keys : ks # {} /\ InvalidateGroup(ks)
    \/ Clear

Spec == Init /\ [][Next]_vars

TypeOK == /\ entries \in [Keys -> 0..MaxHandles] /\ cached \subseteq Keys
          /\ work \in [Threads -> [Keys -> 0..2]]

\* "pin handle count underflow": the total never falls below the handles the
\* entries hold, so a zero total means that nothing is pinned.
TotalCoversEntries == pin_handles >= Total(entries)

\* Between calls a key is pinned for as long as somebody holds a handle on it that
\* is younger than the last removal of its entry, unless an older handle of the
\* same key was released meanwhile.
PinnedWhileHeld ==
    Writable => \A k \in Keys : fresh[k] > 0 /\ ~wronged[k] => IsPinned(k) /\ entries[k] >= fresh[k]
=============================================================================
