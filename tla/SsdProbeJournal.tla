-------------------------- MODULE SsdProbeJournal --------------------------
(***************************************************************************)
(* Readers, writers and the probe journal of one cache.                    *)
(*                                                                         *)
(* A reader captures the epoch together with an SSD block under the read   *)
(* lock, drops the lock to decode the block, and asks under the write lock *)
(* whether its probe is still current before it installs the block above   *)
(* the SSD tier. Writers run in between. Every step below is one critical  *)
(* section of the cache lock, so steps do not overlap.                     *)
(*                                                                         *)
(* `changed` is history: the keys mutated since the capture of each        *)
(* pending probe. The code has no such variable; the journal approximates  *)
(* it in a bounded ring.                                                   *)
(***************************************************************************)
EXTENDS ProbeJournal

CONSTANTS Readers

VARIABLES journal,     \* ssd_probe_epoch, _global_epoch and _mutations
          ssdEnabled,  \* ssd_capacity_bytes > 0
          probe,       \* probe[r]: the key and epoch r holds, or NoProbe
          changed      \* changed[r]: keys mutated since r captured its epoch

vars == <<journal, ssdEnabled, probe, changed>>

NoProbe == [pending |-> FALSE]
Probe(k, e) == [pending |-> TRUE, key |-> k, epoch |-> e]
Probes == {NoProbe} \cup {Probe(k, e) : k \in Keys, e \in Epochs}

TypeOK ==
    /\ journal \in Journal
    /\ ssdEnabled \in BOOLEAN
    /\ probe \in [Readers -> Probes]
    /\ changed \in [Readers -> SUBSET Keys]

Init ==
    /\ journal = EmptyJournal
    /\ ssdEnabled \in BOOLEAN
    /\ probe = [r \in Readers |-> NoProbe]
    /\ changed = [r \in Readers |-> {}]

\* The history of every pending probe gains the keys in ks.
Mutated(ks) ==
    changed' = [r \in Readers |->
                    IF probe[r].pending THEN changed[r] \cup ks ELSE changed[r]]

\* ssd_batch_probe_epoch under the read lock: a key some upper tier already
\* holds gets the epoch that is never current.
Capture(r, k) ==
    /\ ~ probe[r].pending
    /\ \E e \in {journal.epoch, MaxEpoch} : probe' = [probe EXCEPT ![r] = Probe(k, e)]
    /\ changed' = [changed EXCEPT ![r] = {}]
    /\ UNCHANGED <<journal, ssdEnabled>>

\* Any write path that changes what a tier holds for k.
Mutate(k) ==
    /\ journal' = Note(journal, k, ssdEnabled)
    /\ Mutated({k})
    /\ UNCHANGED <<ssdEnabled, probe>>

\* clear_resident and clear_all_locked change every key at once.
ClearAll ==
    /\ journal' = Bump(journal)
    /\ Mutated(Keys)
    /\ UNCHANGED <<ssdEnabled, probe>>

\* A capacity change that switches the SSD tier off or back on.
ToggleSsd ==
    /\ ssdEnabled' = ~ ssdEnabled
    /\ UNCHANGED <<journal, probe, changed>>

\* The probe's owner finds it overtaken and installs nothing.
Abandon(r) ==
    /\ probe[r].pending
    /\ ~ IsCurrent(journal, probe[r].key, probe[r].epoch)
    /\ probe' = [probe EXCEPT ![r] = NoProbe]
    /\ changed' = [changed EXCEPT ![r] = {}]
    /\ UNCHANGED <<journal, ssdEnabled>>

\* The probe is current and its value goes into spare memory: one resident
\* insertion, whose journal entry refill_ssd_probe takes back.
RefillSpare(r) ==
    /\ probe[r].pending
    /\ IsCurrent(journal, probe[r].key, probe[r].epoch)
    /\ journal' = Suppress(journal, Note(journal, probe[r].key, ssdEnabled))
    /\ probe' = [probe EXCEPT ![r] = NoProbe]
    /\ changed' = [changed EXCEPT ![r] = {}]
    /\ UNCHANGED ssdEnabled

\* The probe is current and placing its value displaces another entry. The
\* victim's removal is a second journal entry, so nothing is taken back.
RefillEvicting(r, victim) ==
    /\ probe[r].pending
    /\ victim # probe[r].key
    /\ IsCurrent(journal, probe[r].key, probe[r].epoch)
    /\ journal' = Note(Note(journal, probe[r].key, ssdEnabled), victim, ssdEnabled)
    /\ probe' = [probe EXCEPT ![r] = NoProbe]
    /\ changed' = [x \in Readers |->
                      IF x = r THEN {}
                      ELSE IF probe[x].pending
                           THEN changed[x] \cup {probe[r].key, victim}
                           ELSE changed[x]]
    /\ UNCHANGED ssdEnabled

Next ==
    \/ \E r \in Readers, k \in Keys : Capture(r, k) \/ RefillEvicting(r, k)
    \/ \E r \in Readers : Abandon(r) \/ RefillSpare(r)
    \/ \E k \in Keys : Mutate(k)
    \/ ClearAll
    \/ ToggleSsd

Spec == Init /\ [][Next]_vars

-----------------------------------------------------------------------------
Current(r) == probe[r].pending /\ IsCurrent(journal, probe[r].key, probe[r].epoch)

\* A probe the journal still calls current belongs to a key nobody mutated
\* since its epoch was captured, however many mutations of other keys went by,
\* however the ring wrapped, and whatever hashes collide. This is what lets
\* refill_ssd_probe install bytes read outside the lock.
CurrentMeansUnchanged ==
    \A r \in Readers : Current(r) => probe[r].key \notin changed[r]

\* Once a pending probe has been overtaken it stays overtaken: neither the
\* wrap of the ring, nor the increment refill_ssd_probe takes back, nor the
\* saturation of the epoch makes a stale probe look current again.
StaleStaysStale ==
    [][\A r \in Readers :
          (probe[r].pending /\ ~ Current(r) /\ probe'[r] = probe[r]) => ~ Current(r)']_vars

\* A refill into spare memory of a cache with an SSD tier does not cancel the
\* other reads in flight: every other pending probe is judged as before
\* ("Do not cancel other pending reads for that placement").
SpareRefillCancelsNothing ==
    [][\A r \in Readers :
          (ssdEnabled /\ RefillSpare(r)) =>
              \A x \in Readers \ {r} : Current(x) <=> Current(x)']_vars
=============================================================================
