----------------------- MODULE SsdProbeJournalProofs -----------------------
(***************************************************************************)
(* Proofs about SsdProbeJournal for every set of keys and readers, every   *)
(* hash function, every ring size and every width of the epoch.            *)
(*                                                                         *)
(* Sound is the inductive invariant. CurrentMeansUnchanged alone is not    *)
(* inductive: a probe holding an epoch from the future would become        *)
(* current when the journal reaches it. CapturedInThePast rules that out.  *)
(***************************************************************************)
EXTENDS SsdProbeJournal, TLAPS

\* No probe holds an epoch the journal has not reached, except the one that
\* is never current.
CapturedInThePast ==
    \A r \in Readers :
        probe[r].pending => probe[r].epoch = MaxEpoch \/ probe[r].epoch <= journal.epoch

Sound == TypeOK /\ CapturedInThePast /\ CurrentMeansUnchanged

-----------------------------------------------------------------------------
\* Two numbers closer than n do not share a remainder modulo n.
LEMMA NearbyNumbersDiffer ==
    ASSUME NEW n \in Nat \ {0}, NEW a \in Nat, NEW b \in Nat, a < b, b - a < n
    PROVE  a % n # b % n
  <1>1. PICK q \in Nat : a = n * q + (a % n)
    <2>1. a = n * (a \div n) + (a % n) OBVIOUS
    <2>2. a \div n \in Nat OBVIOUS
    <2> QED BY <2>1, <2>2
  <1>2. PICK p \in Nat : b = n * p + (b % n)
    <2>1. b = n * (b \div n) + (b % n) OBVIOUS
    <2>2. b \div n \in Nat OBVIOUS
    <2> QED BY <2>1, <2>2
  <1>3. ASSUME a % n = b % n PROVE FALSE
    <2>1. a % n \in Int /\ b % n \in Int OBVIOUS
    <2>2. n * p \in Int /\ n * q \in Int OBVIOUS
    <2>3. n * p - n * q = b - a BY <1>1, <1>2, <1>3, <2>1, <2>2
    <2>4. p - q \in Int /\ n * (p - q) = b - a BY <2>3
    <2>5. CASE p - q <= 0 BY <2>4, <2>5
    <2>6. CASE p - q >= 1
      <3>1. n * (p - q) >= n BY <2>4, <2>6
      <3> QED BY <2>4, <3>1
    <2> QED BY <2>4, <2>5, <2>6
  <1> QED BY <1>3

\* Within Slots epochs of each other, no two epochs use the same ring slot.
LEMMA NearbyEpochsUseDistinctSlots ==
    ASSUME NEW a \in Nat, NEW b \in Nat, a < b, b - a < Slots
    PROVE  SlotOf(a) # SlotOf(b)
  BY NearbyNumbersDiffer, JournalAssumption DEF SlotOf

\* Both ways of advancing a journal yield a journal one epoch on.
LEMMA BumpClosed ==
    ASSUME NEW j \in Journal
    PROVE  /\ Bump(j) \in Journal
           /\ Bump(j).epoch >= j.epoch
  <1>1. Succ(j.epoch) \in Epochs /\ Succ(j.epoch) >= j.epoch
    BY JournalAssumption DEF Journal, Epochs, Succ
  <1> QED BY <1>1 DEF Bump, Journal

\* note_ssd_probe_mutation, whichever way it journals, yields a journal one
\* epoch on.
LEMMA NoteClosed ==
    ASSUME NEW j \in Journal, NEW k \in Keys, NEW on \in BOOLEAN
    PROVE  /\ Note(j, k, on) \in Journal
           /\ Note(j, k, on).epoch >= j.epoch
  <1>1. Succ(j.epoch) \in Epochs /\ Succ(j.epoch) >= j.epoch
    BY JournalAssumption DEF Journal, Epochs, Succ
  <1>2. Record(j, k) \in Journal /\ Record(j, k).epoch = Succ(j.epoch)
    BY <1>1, JournalAssumption DEF Record, Journal
  <1> QED BY <1>1, <1>2, BumpClosed DEF Note

\* After a fence no earlier probe is current.
LEMMA BumpFences ==
    ASSUME NEW j \in Journal, NEW k \in Keys, NEW e \in Epochs, e <= j.epoch
    PROVE  ~ IsCurrent(Bump(j), k, e)
  BY JournalAssumption DEF Bump, IsCurrent, Journal, Epochs, Succ

\* A probe that survives a journalled mutation was current before it, and the
\* mutation was of another key: the new entry is in the range the probe scans,
\* and the one entry it overwrote lies outside that range.
LEMMA RecordReflects ==
    ASSUME NEW j \in Journal, NEW m \in Keys, NEW k \in Keys, NEW e \in Epochs,
           e <= j.epoch, IsCurrent(Record(j, m), k, e)
    PROVE  IsCurrent(j, k, e) /\ m # k
  <1> DEFINE new == Record(j, m)
  <1>1. /\ e \in Nat /\ j.epoch \in Nat /\ j.global \in Nat
        /\ j.epoch + 1 <= MaxEpoch /\ Succ(j.epoch) = j.epoch + 1
        /\ new.epoch = j.epoch + 1 /\ new.global = j.global
    BY JournalAssumption DEF Record, IsCurrent, Journal, Epochs, Succ
  <1>2. /\ e # MaxEpoch /\ e >= j.global /\ j.epoch + 1 - e <= Slots
        /\ ~ Listed(new, k, e)
    BY <1>1 DEF IsCurrent
  <1>3. \A s \in Nat : SlotOf(s) \in 0 .. Slots - 1
    BY JournalAssumption DEF SlotOf
  <1>4. new.ring = [j.ring EXCEPT ![SlotOf(j.epoch + 1)] = Hash[m]]
    BY <1>1 DEF Record
  <1>5. j.ring \in [0 .. Slots - 1 -> Hashes]
    BY DEF Journal
  <1>6. new.ring[SlotOf(j.epoch + 1)] = Hash[m]
    <2>1. SlotOf(j.epoch + 1) \in 0 .. Slots - 1 BY <1>1, <1>3
    <2> QED BY <2>1, <1>4, <1>5
  <1>7. m # k
    <2>1. (j.epoch + 1) \in (e + 1) .. new.epoch BY <1>1
    <2> QED BY <2>1, <1>2, <1>6 DEF Listed
  <1>8. ~ Listed(j, k, e)
    <2>1. SUFFICES ASSUME NEW s \in (e + 1) .. j.epoch, j.ring[SlotOf(s)] = Hash[k]
                   PROVE  FALSE
      BY DEF Listed
    <2>2. /\ s \in Nat /\ s < j.epoch + 1 /\ j.epoch + 1 - s < Slots
      BY <1>1, <1>2, JournalAssumption
    <2>3. SlotOf(s) # SlotOf(j.epoch + 1)
      <3>1. j.epoch + 1 \in Nat BY <1>1
      <3>2. PICK t \in Nat : t = j.epoch + 1 BY <3>1
      <3>3. s < t /\ t - s < Slots BY <1>1, <2>2, <3>2, JournalAssumption
      <3>4. SlotOf(s) # SlotOf(t) BY <2>2, <3>3, NearbyEpochsUseDistinctSlots
      <3> QED BY <3>2, <3>4
    <2>4. new.ring[SlotOf(s)] = Hash[k]
      BY <2>1, <2>2, <2>3, <1>3, <1>4, <1>5
    <2>5. s \in (e + 1) .. new.epoch BY <1>1
    <2> QED BY <2>4, <2>5, <1>2 DEF Listed
  <1>9. j.epoch # MaxEpoch /\ j.epoch - e <= Slots
    BY <1>1, <1>2, JournalAssumption
  <1> QED BY <1>2, <1>7, <1>8, <1>9 DEF IsCurrent

\* The same for note_ssd_probe_mutation, whichever way it journals.
LEMMA NoteReflects ==
    ASSUME NEW j \in Journal, NEW m \in Keys, NEW k \in Keys, NEW e \in Epochs,
           NEW on \in BOOLEAN, e <= j.epoch, IsCurrent(Note(j, m, on), k, e)
    PROVE  IsCurrent(j, k, e) /\ m # k
  BY RecordReflects, BumpFences DEF Note

\* What refill_ssd_probe leaves behind: the journal it found, when the SSD
\* tier is on, and otherwise the fence.
LEMMA SuppressRestores ==
    ASSUME NEW j \in Journal, NEW k \in Keys, NEW on \in BOOLEAN,
           j.epoch # MaxEpoch, j.global <= j.epoch
    PROVE  Suppress(j, Note(j, k, on)) = IF on THEN j ELSE Bump(j)
  <1>1. /\ j.epoch \in Nat /\ Succ(j.epoch) = j.epoch + 1
        /\ j.epoch + 1 \in Nat /\ SlotOf(j.epoch + 1) \in 0 .. Slots - 1
    BY JournalAssumption DEF Journal, Epochs, Succ, SlotOf
  <1>2. CASE ~ on
    BY <1>1, <1>2 DEF Suppress, Note, Bump, Journal
  <1>3. CASE on
    <2> DEFINE slot == SlotOf(j.epoch + 1)
    <2>1. Note(j, k, on) = [epoch |-> j.epoch + 1, global |-> j.global,
                            ring |-> [j.ring EXCEPT ![slot] = Hash[k]]]
      BY <1>1, <1>3 DEF Note, Record
    <2>2. [[j.ring EXCEPT ![slot] = Hash[k]] EXCEPT ![slot] = j.ring[slot]] = j.ring
      BY <1>1 DEF Journal
    <2>3. Suppress(j, Note(j, k, on)) =
            [epoch |-> j.epoch, global |-> j.global, ring |-> j.ring]
      BY <1>1, <2>1, <2>2 DEF Suppress
    <2> QED BY <2>3, <1>3 DEF Journal
  <1> QED BY <1>2, <1>3

-----------------------------------------------------------------------------
\* A pending probe is a record with a key and an epoch.
LEMMA PendingProbe ==
    ASSUME TypeOK, NEW r \in Readers, probe[r].pending
    PROVE  /\ probe[r].key \in Keys /\ probe[r].epoch \in Epochs
           /\ probe[r] = Probe(probe[r].key, probe[r].epoch)
  BY DEF TypeOK, Probes, NoProbe, Probe

\* A new cache's journal is sound: no reader holds a probe.
LEMMA InitIsSound == Init => Sound
  BY JournalAssumption DEF Init, Sound, TypeOK, CapturedInThePast, CurrentMeansUnchanged,
     Current, Journal, EmptyJournal, Epochs, Probes, NoProbe

\* What RefillSpare does to the journal, and that a probe refilled is current
\* with an epoch at or after the last fence.
LEMMA RefillSpareJournal ==
    ASSUME TypeOK, NEW r \in Readers, RefillSpare(r)
    PROVE  journal' = IF ssdEnabled THEN journal ELSE Bump(journal)
  <1>1. probe[r].key \in Keys /\ probe[r].epoch \in Epochs
    BY PendingProbe DEF RefillSpare
  <1>2. journal \in Journal /\ ssdEnabled \in BOOLEAN
    BY DEF TypeOK
  <1>3. journal.epoch # MaxEpoch /\ journal.global <= journal.epoch
    BY <1>1, <1>2, JournalAssumption DEF RefillSpare, IsCurrent, Journal, Epochs
  <1> QED BY <1>1, <1>2, <1>3, SuppressRestores DEF RefillSpare

\* Every step leaves a journal, and its epoch does not move back.
LEMMA JournalAdvances ==
    ASSUME TypeOK, [Next]_vars
    PROVE  journal' \in Journal /\ journal'.epoch >= journal.epoch
  <1>1. journal \in Journal /\ ssdEnabled \in BOOLEAN BY DEF TypeOK
  <1>2. journal.epoch \in Int BY <1>1 DEF Journal, Epochs
  <1>3. ASSUME NEW k \in Keys, Mutate(k) PROVE journal' \in Journal /\ journal'.epoch >= journal.epoch
    BY <1>1, <1>3, NoteClosed DEF Mutate
  <1>4. CASE ClearAll BY <1>1, <1>4, BumpClosed DEF ClearAll
  <1>5. ASSUME NEW r \in Readers, RefillSpare(r)
        PROVE  journal' \in Journal /\ journal'.epoch >= journal.epoch
    <2>1. probe[r].key \in Keys BY <1>5, PendingProbe DEF RefillSpare
    <2> QED BY <1>1, <1>2, <1>5, <2>1, RefillSpareJournal, BumpClosed
  <1>6. ASSUME NEW r \in Readers, NEW v \in Keys, RefillEvicting(r, v)
        PROVE  journal' \in Journal /\ journal'.epoch >= journal.epoch
    <2> DEFINE mid == Note(journal, probe[r].key, ssdEnabled)
    <2>1. probe[r].key \in Keys BY <1>6, PendingProbe DEF RefillEvicting
    <2>2. mid \in Journal /\ mid.epoch >= journal.epoch BY <1>1, <2>1, NoteClosed
    <2>3. Note(mid, v, ssdEnabled) \in Journal /\ Note(mid, v, ssdEnabled).epoch >= mid.epoch
      <3> HIDE DEF mid
      <3> QED BY <1>1, <2>2, NoteClosed
    <2>4. mid.epoch \in Int /\ Note(mid, v, ssdEnabled).epoch \in Int
      BY <2>2, <2>3 DEF Journal, Epochs
    <2> QED BY <1>2, <1>6, <2>2, <2>3, <2>4 DEF RefillEvicting
  <1>7. CASE UNCHANGED journal BY <1>1, <1>2, <1>7
  <1> QED BY <1>3, <1>4, <1>5, <1>6, <1>7 DEF Next, Capture, Abandon, ToggleSsd, vars

\* A probe that a step leaves pending and that is current after the step was
\* current before it, and the step added nothing about its key to its history.
LEMMA StepReflects ==
    ASSUME Sound, [Next]_vars, NEW r \in Readers, probe[r].pending, probe'[r] = probe[r], Current(r)'
    PROVE  Current(r) /\ (probe[r].key \in changed'[r] => probe[r].key \in changed[r])
  <1> DEFINE k == probe[r].key
             e == probe[r].epoch
  <1>1. journal \in Journal /\ ssdEnabled \in BOOLEAN /\ TypeOK BY DEF Sound, TypeOK
  <1>2. k \in Keys /\ e \in Epochs BY <1>1, PendingProbe
  <1>3. IsCurrent(journal', k, e) BY DEF Current
  <1>4. e # MaxEpoch /\ e <= journal.epoch
    BY <1>3 DEF Sound, CapturedInThePast, IsCurrent
  <1>5. SUFFICES IsCurrent(journal, k, e) /\ (k \in changed'[r] => k \in changed[r])
    BY DEF Current
  <1> HIDE DEF k, e
  <1>6. ASSUME NEW m \in Keys, Mutate(m)
        PROVE  IsCurrent(journal, k, e) /\ (k \in changed'[r] => k \in changed[r])
    <2>1. IsCurrent(journal, k, e) /\ m # k
      BY <1>1, <1>2, <1>3, <1>4, <1>6, NoteReflects DEF Mutate
    <2> QED BY <2>1, <1>6 DEF Mutate, Mutated
  <1>7. CASE ClearAll
    BY <1>1, <1>2, <1>3, <1>4, <1>7, BumpFences DEF ClearAll
  <1>8. ASSUME NEW x \in Readers, RefillSpare(x)
        PROVE  IsCurrent(journal, k, e) /\ (k \in changed'[r] => k \in changed[r])
    <2>1. IsCurrent(journal, k, e)
      BY <1>1, <1>2, <1>3, <1>4, <1>8, RefillSpareJournal, BumpFences
    <2>2. changed'[r] \subseteq changed[r]
      BY <1>1, <1>8 DEF RefillSpare, TypeOK
    <2> QED BY <2>1, <2>2
  <1>9. ASSUME NEW x \in Readers, NEW v \in Keys, RefillEvicting(x, v)
        PROVE  IsCurrent(journal, k, e) /\ (k \in changed'[r] => k \in changed[r])
    <2> DEFINE m == probe[x].key
               mid == Note(journal, m, ssdEnabled)
    <2>1. m \in Keys BY <1>1, <1>9, PendingProbe DEF RefillEvicting
    <2>2. mid \in Journal /\ e <= mid.epoch
      <3>1. mid \in Journal /\ mid.epoch >= journal.epoch BY <1>1, <2>1, NoteClosed
      <3> QED BY <1>1, <1>2, <1>4, <3>1 DEF Journal, Epochs
    <2>3. journal' = Note(mid, v, ssdEnabled) BY <1>9 DEF RefillEvicting
    <2>4. IsCurrent(mid, k, e) /\ v # k
      <3> HIDE DEF mid
      <3> QED BY <1>1, <1>2, <1>3, <2>2, <2>3, NoteReflects
    <2>5. IsCurrent(journal, k, e) /\ m # k
      <3> HIDE DEF m
      <3> QED BY <1>1, <1>2, <1>4, <2>1, <2>4, NoteReflects
    <2> QED BY <2>4, <2>5, <1>9 DEF RefillEvicting
  <1>10. ASSUME NEW x \in Readers, NEW c \in Keys, Capture(x, c)
         PROVE  IsCurrent(journal, k, e) /\ (k \in changed'[r] => k \in changed[r])
    <2>1. changed'[r] \subseteq changed[r] BY <1>1, <1>10 DEF Capture, TypeOK
    <2> QED BY <1>3, <1>10, <2>1 DEF Capture
  <1>11. ASSUME NEW x \in Readers, Abandon(x)
         PROVE  IsCurrent(journal, k, e) /\ (k \in changed'[r] => k \in changed[r])
    <2>1. changed'[r] \subseteq changed[r] BY <1>1, <1>11 DEF Abandon, TypeOK
    <2> QED BY <1>3, <1>11, <2>1 DEF Abandon
  <1>12. CASE ToggleSsd BY <1>3, <1>12 DEF ToggleSsd
  <1>13. CASE UNCHANGED vars BY <1>3, <1>13 DEF vars
  <1> QED BY <1>6, <1>7, <1>8, <1>9, <1>10, <1>11, <1>12, <1>13 DEF Next

\* Every critical section keeps the inductive invariant.
LEMMA NextKeepsSound == Sound /\ [Next]_vars => Sound'
  <1> SUFFICES ASSUME Sound, [Next]_vars PROVE Sound' OBVIOUS
  <1>1. TypeOK /\ CapturedInThePast /\ CurrentMeansUnchanged BY DEF Sound
  <1>2. journal' \in Journal /\ journal'.epoch >= journal.epoch BY <1>1, JournalAdvances
  <1>3. journal \in Journal BY <1>1 DEF TypeOK
  <1>4. journal.epoch \in Epochs /\ MaxEpoch \in Epochs
    BY <1>3, JournalAssumption DEF Journal, Epochs
  <1>5. \A r \in Readers :
          \/ probe'[r] = probe[r]
          \/ probe'[r] = NoProbe
          \/ /\ \E k \in Keys, e \in {journal.epoch, MaxEpoch} : probe'[r] = Probe(k, e)
             /\ changed'[r] = {} /\ journal' = journal
    BY <1>1 DEF Next, Capture, RefillEvicting, Abandon, RefillSpare, Mutate, ClearAll,
       ToggleSsd, vars, TypeOK
  <1>6. TypeOK'
    <2>1. \A r \in Readers : probe'[r] \in Probes
      BY <1>1, <1>4, <1>5 DEF TypeOK, Probes
    <2>2. probe' = [r \in Readers |-> probe'[r]]
      BY <1>1 DEF Next, Capture, RefillEvicting, Abandon, RefillSpare, Mutate, ClearAll,
         ToggleSsd, vars, TypeOK
    <2>3. probe' \in [Readers -> Probes] BY <2>1, <2>2
    <2>4. ssdEnabled' \in BOOLEAN
      BY <1>1 DEF Next, Capture, RefillEvicting, Abandon, RefillSpare, Mutate, ClearAll,
         ToggleSsd, vars, TypeOK
    <2>5. changed' \in [Readers -> SUBSET Keys]
      <3>1. \A r \in Readers : probe[r].pending => probe[r].key \in Keys
        BY <1>1, PendingProbe
      <3>2. changed \in [Readers -> SUBSET Keys] BY <1>1 DEF TypeOK
      <3>3. ASSUME NEW k \in Keys, Mutate(k) PROVE changed' \in [Readers -> SUBSET Keys]
        BY <3>2, <3>3 DEF Mutate, Mutated
      <3>4. CASE ClearAll BY <3>2, <3>4 DEF ClearAll, Mutated
      <3>5. ASSUME NEW x \in Readers, NEW v \in Keys, RefillEvicting(x, v)
            PROVE  changed' \in [Readers -> SUBSET Keys]
        BY <3>1, <3>2, <3>5 DEF RefillEvicting
      <3>6. ASSUME NEW x \in Readers, Abandon(x) \/ RefillSpare(x) \/ (\E k \in Keys : Capture(x, k))
            PROVE  changed' \in [Readers -> SUBSET Keys]
        BY <3>2, <3>6 DEF Abandon, RefillSpare, Capture
      <3>7. CASE UNCHANGED changed BY <3>2, <3>7
      <3> QED BY <3>3, <3>4, <3>5, <3>6, <3>7 DEF Next, ToggleSsd, vars
    <2> QED BY <1>2, <2>3, <2>4, <2>5 DEF TypeOK
  <1>7. CapturedInThePast'
    <2>1. SUFFICES ASSUME NEW r \in Readers, probe'[r].pending
                   PROVE  probe'[r].epoch = MaxEpoch \/ probe'[r].epoch <= journal'.epoch
      BY DEF CapturedInThePast
    <2>2. CASE probe'[r] = probe[r]
      <3>1. probe[r].epoch \in Epochs BY <1>1, <2>1, <2>2, PendingProbe
      <3> QED BY <1>1, <1>2, <1>3, <2>1, <2>2, <3>1, JournalAssumption
           DEF CapturedInThePast, Journal, Epochs
    <2>3. CASE probe'[r] = NoProbe BY <2>1, <2>3 DEF NoProbe
    <2>4. CASE /\ \E k \in Keys, e \in {journal.epoch, MaxEpoch} : probe'[r] = Probe(k, e)
               /\ journal' = journal
      BY <2>4, <1>4, JournalAssumption DEF Probe, Epochs
    <2> QED BY <1>5, <2>2, <2>3, <2>4
  <1>8. CurrentMeansUnchanged'
    <2>1. SUFFICES ASSUME NEW r \in Readers, Current(r)'
                   PROVE  probe'[r].key \notin changed'[r]
      BY DEF CurrentMeansUnchanged
    <2>2. CASE probe'[r] = probe[r]
      <3>1. probe[r].pending BY <2>1, <2>2 DEF Current
      <3>2. Current(r) /\ (probe[r].key \in changed'[r] => probe[r].key \in changed[r])
        BY <2>1, <2>2, <3>1, StepReflects
      <3> QED BY <1>1, <2>2, <3>2 DEF CurrentMeansUnchanged
    <2>3. CASE probe'[r] = NoProbe BY <2>1, <2>3 DEF NoProbe, Current
    <2>4. CASE changed'[r] = {} BY <2>4
    <2> QED BY <1>5, <2>2, <2>3, <2>4
  <1> QED BY <1>6, <1>7, <1>8 DEF Sound

\* The journal is well formed in every reachable state and no probe holds an
\* epoch from the future.
THEOREM SpecIsSound == Spec => []Sound
  BY InitIsSound, NextKeepsSound, PTL DEF Spec

\* Epochs, ring positions and probes stay in their ranges
\* (note_ssd_probe_mutation, bump_ssd_probe_epoch), for every ring size.
THEOREM SpecTypeCorrect == Spec => []TypeOK
  <1>1. Sound => TypeOK BY DEF Sound
  <1> QED BY <1>1, SpecIsSound, PTL

\* ssd_probe_is_current_for never vouches for a probe whose key was mutated
\* since capture, for every ring size, hash function and number of readers.
THEOREM SpecCurrentMeansUnchanged == Spec => []CurrentMeansUnchanged
  <1>1. Sound => CurrentMeansUnchanged BY DEF Sound
  <1> QED BY <1>1, SpecIsSound, PTL

\* A probe overtaken once is overtaken for good.
THEOREM SpecStaleStaysStale == Spec => StaleStaysStale
  <1>1. Sound /\ [Next]_vars =>
          [\A r \in Readers :
             (probe[r].pending /\ ~ Current(r) /\ probe'[r] = probe[r]) => ~ Current(r)']_vars
    BY StepReflects
  <1> QED BY <1>1, SpecIsSound, PTL DEF Spec, StaleStaysStale

\* A refill into spare memory leaves the judgement of every other pending
\* probe as it was.
THEOREM SpecSpareRefillCancelsNothing == Spec => SpareRefillCancelsNothing
  <1>1. ASSUME Sound, NEW r \in Readers, ssdEnabled, RefillSpare(r), NEW x \in Readers \ {r}
        PROVE  Current(x) <=> Current(x)'
    <2>1. TypeOK BY <1>1 DEF Sound
    <2>2. journal' = journal BY <1>1, <2>1, RefillSpareJournal
    <2>3. probe'[x] = probe[x] BY <1>1, <2>1 DEF RefillSpare, TypeOK
    <2> QED BY <2>2, <2>3 DEF Current
  <1>2. Sound /\ [Next]_vars =>
          [\A r \in Readers :
             (ssdEnabled /\ RefillSpare(r)) =>
                 \A x \in Readers \ {r} : Current(x) <=> Current(x)']_vars
    BY <1>1
  <1> QED BY <1>2, SpecIsSound, PTL DEF Spec, SpareRefillCancelsNothing
=============================================================================
