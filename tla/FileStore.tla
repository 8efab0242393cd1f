------------------------------ MODULE FileStore ------------------------------
(***************************************************************************)
(* StorageEngineRocksDb without the rocksdb-ssd feature: a map in memory, a *)
(* snapshot file that is replaced by rename, and a journal of the changes   *)
(* since. A method is an operator from store to store. `snapshot`,          *)
(* `journal` are the files; the other fields die with the process. Lengths  *)
(* are counted in records. A journal entry that is not `whole` is what an   *)
(* interrupted write_all leaves. The removal of the journal after a rename, *)
(* whose answer persist_records drops, is taken to succeed.                 *)
(*                                                                         *)
(* An operator marked "Fault:" is a broken variant of the one after it that *)
(* a property is tested against; the specification does not use it.         *)
(***************************************************************************)
EXTENDS Integers, Sequences, FiniteSets, SequencesExt

CONSTANTS Keys, Values, None,
          Garbage,   \* a value made of the bytes of two entries
          Floor      \* JOURNAL_COMPACTION_FLOOR_BYTES

\* The keys and values a program uses; None stands for no value.
ASSUME FilesAssumption == /\ IsFiniteSet(Keys)
                          /\ None \notin Values
                          /\ Floor \in Nat

Contents == [Keys -> Values \cup {None, Garbage}]
Entries == [key: Keys, value: Values \cup {None}, whole: BOOLEAN]

Store == [initialized: BOOLEAN, records: Contents, snapshot: Contents,
          journal: Seq(Entries), journal_bytes: Nat, snapshot_bytes: Nat]

NoRecords == [k \in Keys |-> None]

NewStore == [initialized |-> FALSE, records |-> NoRecords, snapshot |-> NoRecords,
             journal |-> <<>>, journal_bytes |-> 0, snapshot_bytes |-> 0]

Count(contents) == Cardinality({k \in Keys : contents[k] # None})

\* The process is gone, or the engine stopped: only the files are left.
Down(s) == [s EXCEPT !.initialized = FALSE, !.records = NoRecords,
                     !.journal_bytes = 0, !.snapshot_bytes = 0]

Inserted(s, k, v) == [s EXCEPT !.records[k] = v]

DeleteAll(s, ks) ==
    [s EXCEPT !.records = [k \in Keys |-> IF k \in ks THEN None ELSE @[k]]]

\* One append of encoded changes.
Logged(s, changes) == [s EXCEPT !.journal = @ \o changes, !.journal_bytes = @ + Len(changes)]

\* put_view and put_batch encode a value, delete None.
PutEntry(k, v) == <<[key |-> k, value |-> v, whole |-> TRUE]>>

\* delete_batch journals the keys it found, and no others.
DeleteEntries(s, ks) ==
    LET found == SetToSeq({k \in ks : s.records[k] # None})
    IN [i \in 1 .. Len(found) |-> [key |-> found[i], value |-> None, whole |-> TRUE]]

\* The new snapshot is in place; the journal is still there.
Renamed(s) == [s EXCEPT !.snapshot = s.records, !.snapshot_bytes = Count(s.records)]

Persisted(s) == [Renamed(s) EXCEPT !.journal = <<>>, !.journal_bytes = 0]

CompactionDue(s) ==
    s.journal_bytes > IF s.snapshot_bytes > Floor THEN s.snapshot_bytes ELSE Floor

Compacted(s) == IF CompactionDue(s) THEN Persisted(s) ELSE s

\* Fault: the entry is journalled before the map has it.
ChangeAfterJournal(s, k, v) == Inserted(Compacted(Logged(s, PutEntry(k, v))), k, v)

\* put_view with a value, delete with None.
Change(s, k, v) == Compacted(Logged(Inserted(s, k, v), PutEntry(k, v)))

\* delete_batch: the map first, then one append for all, then compaction.
DeleteBatch(s, ks) == Compacted(Logged(DeleteAll(s, ks), DeleteEntries(s, ks)))

\* What a write_all of changes leaves that stops inside the i-th of them.
TornAt(changes, i) == SubSeq(changes, 1, i - 1) \o <<[changes[i] EXCEPT !.whole = FALSE]>>
Torn(s, changes, torn) ==
    IF torn THEN {[s EXCEPT !.journal = @ \o TornAt(changes, i)] : i \in DOMAIN changes} ELSE {}

\* s has the changes in its map: what it is when journalling or compacting them
\* fails, and what a crash on the way may leave in the files.
FailedChange(s, changes, torn) ==
    {s} \cup {t \in {Logged(s, changes)} : CompactionDue(t)} \cup Torn(s, changes, torn)

InterruptedChange(s, changes, torn) ==
    {s, Logged(s, changes)} \cup Torn(s, changes, torn)
        \cup {Renamed(t) : t \in {t \in {Logged(s, changes)} : CompactionDue(t)}}

\* The entries replay_journal applies before it meets one it cannot read.
ReadablePrefix(journal) ==
    LET torn == {i \in DOMAIN journal : ~journal[i].whole}
    IN IF torn = {} THEN journal ELSE SubSeq(journal, 1, Min(torn) - 1)

Touching(journal, k) == {i \in DOMAIN journal : journal[i].key = k}

\* Entries are applied in order: the last one of a key decides.
Replayed(snapshot, journal) ==
    [k \in Keys |-> IF Touching(journal, k) = {} THEN snapshot[k]
                    ELSE journal[Max(Touching(journal, k))].value]

\* What load_records may find: replay stops at a torn tail. Entries written
\* behind a torn one are read as its missing bytes: they are lost, or the torn
\* entry takes effect with a value nobody wrote, or start returns false.
Loads(s) ==
    LET prefix == ReadablePrefix(s.journal)
        found == Replayed(s.snapshot, prefix)
        torn == Len(prefix) + 1
    IN {found} \cup (IF torn < Len(s.journal)
                     THEN {[found EXCEPT ![s.journal[torn].key] = Garbage]} ELSE {})

Started(s, contents) ==
    [s EXCEPT !.initialized = TRUE, !.records = contents,
              !.journal_bytes = Len(s.journal), !.snapshot_bytes = Count(s.snapshot)]
=============================================================================
