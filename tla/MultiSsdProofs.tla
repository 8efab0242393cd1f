--------------------------- MODULE MultiSsdProofs ---------------------------
(***************************************************************************)
(* The proofs that StorageEngineMultiSsd implements DurableStore, and that *)
(* nothing a call acknowledged is lost, as long as appends are not torn.   *)
(*                                                                         *)
(* A journal entry says what the map already says, so whatever a call      *)
(* leaves on a device, done, failed or cut off, the files of that device   *)
(* say of each key what they said before or what the map says (Near). The  *)
(* invariant (Tracked) adds what the history knows: where files and map    *)
(* differ, or the map and the last successful call, a call that never      *)
(* returned Ok may have left the difference; and nothing anywhere, on      *)
(* detached devices too, is a value its key never had (Sound).             *)
(***************************************************************************)
EXTENDS MultiSsd, TLAPS, FiniteSetTheorems, WellFoundedInduction, NaturalsInduction

\* What the files of a store say.
OnFile(s) == Replayed(s.snapshot, s.journal)

Whole(journal) == \A i \in DOMAIN journal : journal[i].whole

\* A store whose files and map hold nothing but what its keys have been.
Sound(s, p) ==
    /\ s \in Store
    /\ Whole(s.journal)
    /\ \A k \in Keys : s.records[k] \in p[k] /\ s.snapshot[k] \in p[k]
    /\ \A i \in DOMAIN s.journal : s.journal[i].value \in p[s.journal[i].key]

\* t has the map of s, and in its files for each key what s has there or in
\* its map.
Near(s, t) ==
    /\ t.records = s.records
    /\ \A k \in Keys : OnFile(t)[k] \in {OnFile(s)[k], s.records[k]}

\* The entries say what the map of s says.
Journals(s, changes) ==
    /\ changes \in Seq(Entries)
    /\ Whole(changes)
    /\ \A i \in DOMAIN changes : changes[i].value = s.records[changes[i].key]

-----------------------------------------------------------------------------
(* The file store.                                                         *)

\* A set of natural numbers that is bounded has a greatest element.
LEMMA GreatestNatural ==
    ASSUME NEW n \in Nat, NEW T \in SUBSET (1 .. n), T # {}
    PROVE  Max(T) \in T /\ \A i \in T : i <= Max(T)
  <1> DEFINE U == {n - i : i \in T}
  <1>1. U \in SUBSET Nat /\ U # {}
    <2>1. \A i \in T : i \in 1 .. n /\ n - i \in Nat  OBVIOUS
    <2> QED BY <2>1
  <1>2. \E m \in U : \A l \in U : ~ (<<l, m>> \in OpToRel(<, Nat))
    BY <1>1, NatLessThanWellFounded, WFMin, Zenon
  <1>3. PICK m \in U : \A l \in U : ~ (<<l, m>> \in OpToRel(<, Nat))  BY <1>2
  <1>4. \A l \in U : ~ (l < m)  BY <1>1, <1>3 DEF OpToRel
  <1>5. PICK i \in T : m = n - i  BY <1>3
  <1>6. \A j \in T : j <= i
    <2> TAKE j \in T
    <2>1. n - j \in U  OBVIOUS
    <2>2. ~ (n - j < m)  BY <1>4, <2>1
    <2> QED BY <1>5, <2>2
  <1>7. \E x \in T : \A y \in T : x >= y  BY <1>6
  <1>8. Max(T) \in T /\ \A y \in T : Max(T) >= y  BY <1>7 DEF Max
  <1> QED BY <1>8

\* What a journal says of a key it mentions is one of its entries.
LEMMA LastEntry ==
    ASSUME NEW journal \in Seq(Entries), NEW k \in Keys, Touching(journal, k) # {}
    PROVE  /\ Max(Touching(journal, k)) \in DOMAIN journal
           /\ journal[Max(Touching(journal, k))].key = k
           /\ \A i \in Touching(journal, k) : i <= Max(Touching(journal, k))
  <1>1. Touching(journal, k) \in SUBSET (1 .. Len(journal)) /\ Len(journal) \in Nat  BY DEF Touching
  <1>2. /\ Max(Touching(journal, k)) \in Touching(journal, k)
        /\ \A i \in Touching(journal, k) : i <= Max(Touching(journal, k))
    BY <1>1, GreatestNatural
  <1> QED BY <1>2 DEF Touching

LEMMA EntryKey ==
    ASSUME NEW changes \in Seq(Entries)
    PROVE  \A i \in DOMAIN changes : changes[i] \in Entries /\ changes[i].key \in Keys
  <1>1. \A i \in DOMAIN changes : changes[i] \in Entries  OBVIOUS
  <1> QED BY <1>1 DEF Entries

LEMMA StoreFields ==
    ASSUME NEW s \in Store
    PROVE  /\ s.records \in [Keys -> Values \cup {None, Garbage}]
           /\ s.snapshot \in [Keys -> Values \cup {None, Garbage}]
           /\ s.journal \in Seq(Entries) /\ s.journal_bytes \in Nat /\ s.snapshot_bytes \in Nat
           /\ s.initialized \in BOOLEAN
  BY DEF Store, Contents

\* Whatever a sound store loads, its keys have been.
LEMMA OnFileSound ==
    ASSUME NEW p, NEW s, Sound(s, p)
    PROVE  \A k \in Keys : OnFile(s)[k] \in p[k]
  <1> TAKE k \in Keys
  <1>1. s.journal \in Seq(Entries)  BY StoreFields DEF Sound
  <1>2. CASE Touching(s.journal, k) = {}  BY <1>2 DEF OnFile, Replayed, Sound
  <1>3. CASE Touching(s.journal, k) # {}
    <2>1. /\ Max(Touching(s.journal, k)) \in DOMAIN s.journal
          /\ s.journal[Max(Touching(s.journal, k))].key = k
      BY <1>1, <1>3, LastEntry
    <2>2. OnFile(s)[k] = s.journal[Max(Touching(s.journal, k))].value
      BY <1>3 DEF OnFile, Replayed
    <2> QED BY <2>1, <2>2 DEF Sound
  <1> QED BY <1>2, <1>3

\* A journal of whole entries is read to its end.
LEMMA WholeLoads ==
    ASSUME NEW s \in Store, Whole(s.journal)
    PROVE  Loads(s) = {OnFile(s)}
  <1>1. s.journal \in Seq(Entries)  BY StoreFields
  <1>2. ReadablePrefix(s.journal) = s.journal  BY DEF ReadablePrefix, Whole
  <1>3. ~ (Len(s.journal) + 1 < Len(s.journal))  BY <1>1
  <1> QED BY <1>2, <1>3 DEF Loads, OnFile

LEMMA NearItself == ASSUME NEW s PROVE Near(s, s)
  BY DEF Near

LEMMA NearTransitive ==
    ASSUME NEW s, NEW t, NEW u, Near(s, t), Near(t, u)
    PROVE  Near(s, u)
  <1>1. u.records = s.records  BY DEF Near
  <1>2. \A k \in Keys : OnFile(u)[k] \in {OnFile(s)[k], s.records[k]}  BY DEF Near
  <1> QED BY <1>1, <1>2 DEF Near

LEMMA CountType ==
    ASSUME NEW c PROVE Count(c) \in Nat
  <1>1. IsFiniteSet({k \in Keys : c[k] # None})  BY FilesAssumption, FS_Subset
  <1> QED BY <1>1, FS_CardinalityType DEF Count

\* The files are not touched by what happens in memory.
LEMMA SameFiles ==
    ASSUME NEW s, NEW t, t.snapshot = s.snapshot, t.journal = s.journal
    PROVE  OnFile(t) = OnFile(s)
  BY DEF OnFile

LEMMA DownSound ==
    ASSUME NEW p, NEW s, Sound(s, p), \A k \in Keys : None \in p[k]
    PROVE  Sound(Down(s), p) /\ OnFile(Down(s)) = OnFile(s)
  <1>1. s \in Store  BY DEF Sound
  <1>2. Down(s) \in Store  BY <1>1 DEF Down, Store, Contents, NoRecords
  <1>3. /\ Down(s).snapshot = s.snapshot /\ Down(s).journal = s.journal
        /\ Down(s).records = NoRecords
    BY <1>1 DEF Down, Store
  <1>4. \A k \in Keys : NoRecords[k] = None  BY DEF NoRecords
  <1>5. Sound(Down(s), p)  BY <1>2, <1>3, <1>4 DEF Sound
  <1> QED BY <1>3, <1>5, SameFiles

LEMMA StartedSound ==
    ASSUME NEW p, NEW s, Sound(s, p), NEW c \in Loads(s)
    PROVE  /\ Sound(Started(s, c), p) /\ OnFile(Started(s, c)) = OnFile(s)
           /\ Started(s, c).records = OnFile(s)
  <1>1. s \in Store /\ Whole(s.journal)  BY DEF Sound
  <1>2. c = OnFile(s)  BY <1>1, WholeLoads
  <1>3. s.journal \in Seq(Entries) /\ s.snapshot \in Contents  BY <1>1, StoreFields DEF Contents
  <1>4. c \in Contents
    <2>1. \A k \in Keys : OnFile(s)[k] \in Values \cup {None, Garbage}
      <3> TAKE k \in Keys
      <3>1. CASE Touching(s.journal, k) = {}  BY <1>3, <3>1 DEF OnFile, Replayed, Contents
      <3>2. CASE Touching(s.journal, k) # {}
        <4>1. Max(Touching(s.journal, k)) \in DOMAIN s.journal  BY <1>3, <3>2, LastEntry
        <4>2. s.journal[Max(Touching(s.journal, k))] \in Entries  BY <1>3, <4>1
        <4> QED BY <3>2, <4>2 DEF OnFile, Replayed, Entries
      <3> QED BY <3>1, <3>2
    <2>2. OnFile(s) = [k \in Keys |-> OnFile(s)[k]]  BY DEF OnFile, Replayed
    <2> QED BY <1>2, <2>1, <2>2 DEF Contents
  <1>5. Len(s.journal) \in Nat /\ Count(s.snapshot) \in Nat  BY <1>3, CountType
  <1>6. Started(s, c) \in Store  BY <1>1, <1>4, <1>5 DEF Started, Store
  <1>7. /\ Started(s, c).snapshot = s.snapshot /\ Started(s, c).journal = s.journal
        /\ Started(s, c).records = c
    BY <1>1 DEF Started, Store
  <1>8. \A k \in Keys : c[k] \in p[k]  BY <1>2, OnFileSound
  <1>9. Sound(Started(s, c), p)  BY <1>6, <1>7, <1>8 DEF Sound
  <1> QED BY <1>2, <1>7, <1>9, SameFiles

LEMMA RenamedNear ==
    ASSUME NEW p, NEW s, Sound(s, p)
    PROVE  Sound(Renamed(s), p) /\ Near(s, Renamed(s))
  <1>1. s \in Store  BY DEF Sound
  <1>2. s.records \in Contents /\ Count(s.records) \in Nat  BY <1>1, CountType DEF Store
  <1>3. Renamed(s) \in Store  BY <1>1, <1>2 DEF Renamed, Store
  <1>4. /\ Renamed(s).snapshot = s.records /\ Renamed(s).journal = s.journal
        /\ Renamed(s).records = s.records
    BY <1>1 DEF Renamed, Store
  <1>5. \A k \in Keys : OnFile(Renamed(s))[k] \in {OnFile(s)[k], s.records[k]}
    BY <1>4 DEF OnFile, Replayed
  <1> QED BY <1>3, <1>4, <1>5 DEF Sound, Near

LEMMA PersistedNear ==
    ASSUME NEW p, NEW s, Sound(s, p)
    PROVE  /\ Sound(Persisted(s), p) /\ Near(s, Persisted(s))
           /\ \A k \in Keys : OnFile(Persisted(s))[k] = s.records[k]
  <1>1. Renamed(s) \in Store /\ Renamed(s).records = s.records  BY RenamedNear DEF Sound, Near
  <1>2. s \in Store  BY DEF Sound
  <1>3. Renamed(s).snapshot = s.records  BY <1>2 DEF Renamed, Store
  <1>4. <<>> \in Seq(Entries)  OBVIOUS
  <1>5. Persisted(s) \in Store  BY <1>1, <1>4 DEF Persisted, Store
  <1>6. /\ Persisted(s).snapshot = s.records /\ Persisted(s).journal = <<>>
        /\ Persisted(s).records = s.records
    BY <1>1, <1>3 DEF Persisted, Store
  <1>7. \A k \in Keys : Touching(<<>>, k) = {}  BY DEF Touching
  <1>8. \A k \in Keys : OnFile(Persisted(s))[k] = s.records[k]
    BY <1>6, <1>7 DEF OnFile, Replayed
  <1> QED BY <1>5, <1>6, <1>8 DEF Sound, Near, Whole

LEMMA CompactedNear ==
    ASSUME NEW p, NEW s, Sound(s, p)
    PROVE  /\ Sound(Compacted(s), p) /\ Near(s, Compacted(s))
           /\ \A k \in Keys : OnFile(s)[k] = s.records[k] => OnFile(Compacted(s))[k] = s.records[k]
  <1>1. CASE CompactionDue(s)
    <2>1. Compacted(s) = Persisted(s)  BY <1>1 DEF Compacted
    <2> QED BY <2>1, PersistedNear
  <1>2. CASE ~ CompactionDue(s)
    <2>1. Compacted(s) = s  BY <1>2 DEF Compacted
    <2> QED BY <2>1, NearItself
  <1> QED BY <1>1, <1>2

\* Entries that say what the map says bring the files nearer to it.
LEMMA LoggedNear ==
    ASSUME NEW p, NEW s, Sound(s, p), NEW changes, Journals(s, changes)
    PROVE  /\ Sound(Logged(s, changes), p) /\ Near(s, Logged(s, changes))
           /\ \A i \in DOMAIN changes :
                 LET k == changes[i].key IN OnFile(Logged(s, changes))[k] = s.records[k]
  <1> DEFINE t == Logged(s, changes)
             old == s.journal
             n == Len(old)
             m == Len(changes)
  <1>1. s \in Store /\ old \in Seq(Entries) /\ changes \in Seq(Entries) /\ n \in Nat /\ m \in Nat
    BY StoreFields DEF Sound, Journals
  <1>2. /\ old \o changes \in Seq(Entries) /\ Len(old \o changes) = n + m
        /\ \A i \in 1 .. n : (old \o changes)[i] = old[i]
        /\ \A i \in 1 .. m : (old \o changes)[n + i] = changes[i]
    BY <1>1
  <1>3. s.journal_bytes + m \in Nat  BY <1>1, StoreFields
  <1>4. t \in Store  BY <1>1, <1>2, <1>3 DEF Logged, Store
  <1>5. t.journal = old \o changes /\ t.snapshot = s.snapshot /\ t.records = s.records
    BY <1>1 DEF Logged, Store
  <1> DEFINE new == old \o changes
  <1>6. DOMAIN new = 1 .. n + m /\ DOMAIN old = 1 .. n /\ DOMAIN changes = 1 .. m
    BY <1>1, <1>2
  <1> HIDE DEF new, n, m, old
  <1>7. \A j \in 1 .. n + m : \/ j \in 1 .. n /\ new[j] = old[j]
                              \/ j - n \in 1 .. m /\ new[j] = changes[j - n]
    <2> TAKE j \in 1 .. n + m
    <2>1. CASE j <= n  BY <1>1, <1>2, <2>1 DEF new, n, m, old
    <2>2. CASE j > n
      <3>1. j - n \in 1 .. m /\ n + (j - n) = j  BY <1>1, <2>2
      <3>2. (old \o changes)[n + (j - n)] = changes[j - n]  BY <1>2, <3>1 DEF n, m, old
      <3> QED BY <3>1, <3>2 DEF new
    <2> QED BY <1>1, <2>1, <2>2
  <1>8. Sound(t, p)
    <2>1. Whole(new)  BY <1>6, <1>7 DEF Whole, Sound, Journals, old
    <2>2. \A i \in DOMAIN new : new[i].value \in p[new[i].key]
      <3> TAKE i \in DOMAIN new
      <3>1. CASE i \in 1 .. n /\ new[i] = old[i]  BY <1>6, <3>1 DEF Sound, old
      <3>2. CASE i - n \in 1 .. m /\ new[i] = changes[i - n]
        <4>1. changes[i - n] \in Entries  BY <1>1, <1>6, <3>2
        <4>2. changes[i - n].key \in Keys  BY <4>1 DEF Entries
        <4>3. changes[i - n].value = s.records[changes[i - n].key]  BY <1>6, <3>2 DEF Journals
        <4> QED BY <3>2, <4>2, <4>3 DEF Sound
      <3> QED BY <1>6, <1>7, <3>1, <3>2
    <2> QED BY <1>4, <1>5, <2>1, <2>2 DEF Sound, new, old
  <1>9. ASSUME NEW k \in Keys, NEW i \in 1 .. m, changes[i].key = k
        PROVE  OnFile(t)[k] = s.records[k]
    <2>1. n + i \in DOMAIN new /\ new[n + i] = changes[i]
      BY <1>1, <1>2, <1>6 DEF new, n, m, old
    <2>2. n + i \in Touching(new, k)  BY <1>9, <2>1 DEF Touching
    <2> DEFINE l == Max(Touching(new, k))
    <2>3. l \in DOMAIN new /\ new[l].key = k /\ n + i <= l
      BY <1>2, <2>2, LastEntry DEF new, old
    <2> HIDE DEF l
    <2>4. l - n \in 1 .. m /\ new[l] = changes[l - n]
      <3>1. ~ (l \in 1 .. n)  BY <1>1, <2>3 DEF n, m, old
      <3> QED BY <1>6, <1>7, <2>3, <3>1
    <2>5. new[l].value = s.records[k]  BY <1>6, <2>3, <2>4 DEF Journals
    <2>6. OnFile(t)[k] = new[l].value
      BY <1>5, <2>2 DEF OnFile, Replayed, l, new, old
    <2> QED BY <2>5, <2>6
  <1>10. ASSUME NEW k \in Keys, \A i \in 1 .. m : changes[i].key # k
         PROVE  OnFile(t)[k] = OnFile(s)[k]
    <2>1. Touching(new, k) = Touching(old, k)
      <3>1. \A j \in DOMAIN new : new[j].key = k => j \in DOMAIN old /\ old[j].key = k
        BY <1>6, <1>7, <1>10
      <3>2. \A j \in DOMAIN old : j \in DOMAIN new /\ new[j] = old[j]
        BY <1>1, <1>2, <1>6 DEF new, n, m, old
      <3> QED BY <3>1, <3>2 DEF Touching
    <2>2. CASE Touching(old, k) = {}
      BY <1>5, <2>1, <2>2 DEF OnFile, Replayed, new, old
    <2>3. CASE Touching(old, k) # {}
      <3>1. Max(Touching(old, k)) \in 1 .. n  BY <1>1, <1>6, <2>3, LastEntry DEF old
      <3>2. new[Max(Touching(old, k))] = old[Max(Touching(old, k))]
        BY <1>2, <3>1 DEF new, n, m, old
      <3> QED BY <1>5, <2>1, <2>3, <3>2 DEF OnFile, Replayed, new, old
    <2> QED BY <2>2, <2>3
  <1>11. Near(s, t)
    <2>1. \A k \in Keys : OnFile(t)[k] \in {OnFile(s)[k], s.records[k]}  BY <1>9, <1>10
    <2> QED BY <1>5, <2>1 DEF Near
  <1>12. \A i \in DOMAIN changes : changes[i].key \in Keys
    BY <1>1, EntryKey
  <1> QED BY <1>6, <1>8, <1>9, <1>11, <1>12

\* A change of the map, journalled and perhaps compacted.
LEMMA ChangedNear ==
    ASSUME NEW p, NEW s, Sound(s, p), NEW changes, Journals(s, changes)
    PROVE  LET t == Compacted(Logged(s, changes))
           IN /\ Sound(t, p) /\ Near(s, t)
              /\ \A i \in DOMAIN changes :
                    LET k == changes[i].key IN OnFile(t)[k] = s.records[k]
  <1> DEFINE l == Logged(s, changes)
  <1>1. /\ Sound(l, p) /\ Near(s, l)
        /\ \A i \in DOMAIN changes : OnFile(l)[changes[i].key] = s.records[changes[i].key]
    BY LoggedNear
  <1> HIDE DEF l
  <1>2. l.records = s.records  BY <1>1 DEF Near
  <1>3. /\ Sound(Compacted(l), p) /\ Near(l, Compacted(l))
        /\ \A k \in Keys : OnFile(l)[k] = l.records[k] => OnFile(Compacted(l))[k] = l.records[k]
    BY <1>1, CompactedNear
  <1>4. \A i \in DOMAIN changes : changes[i].key \in Keys
    BY EntryKey DEF Journals
  <1> QED BY <1>1, <1>2, <1>3, <1>4, NearTransitive DEF l

\* What is left of a change that failed, or that a crash interrupted.
LEMMA UnfinishedNear ==
    ASSUME NEW p, NEW s, Sound(s, p), NEW changes, Journals(s, changes),
           NEW torn, ~ torn,
           NEW t \in FailedChange(s, changes, torn) \cup InterruptedChange(s, changes, torn)
    PROVE  Sound(t, p) /\ Near(s, t)
  <1> DEFINE l == Logged(s, changes)
  <1>1. Sound(l, p) /\ Near(s, l)  BY LoggedNear
  <1>2. t = s \/ t = l \/ t = Renamed(l)  BY DEF FailedChange, InterruptedChange, Torn
  <1> HIDE DEF l
  <1>3. Sound(Renamed(l), p) /\ Near(l, Renamed(l))  BY <1>1, RenamedNear
  <1>4. Near(s, Renamed(l))  BY <1>1, <1>3, NearTransitive
  <1> QED BY <1>1, <1>2, <1>3, <1>4, NearItself

-----------------------------------------------------------------------------
(* The two changes of a map.                                               *)

LEMMA InsertedSound ==
    ASSUME NEW p, NEW s, Sound(s, p), NEW k \in Keys, NEW v \in Values \cup {None}, v \in p[k]
    PROVE  /\ Sound(Inserted(s, k, v), p) /\ OnFile(Inserted(s, k, v)) = OnFile(s)
           /\ Inserted(s, k, v).records = [s.records EXCEPT ![k] = v]
           /\ Journals(Inserted(s, k, v), PutEntry(k, v))
           /\ 1 \in DOMAIN PutEntry(k, v) /\ PutEntry(k, v)[1].key = k
  <1> DEFINE t == Inserted(s, k, v)
  <1>1. s \in Store /\ s.records \in Contents  BY DEF Sound, Store
  <1>2. [s.records EXCEPT ![k] = v] \in Contents  BY <1>1 DEF Contents
  <1>3. t \in Store  BY <1>1, <1>2 DEF Inserted, Store
  <1>4. /\ t.snapshot = s.snapshot /\ t.journal = s.journal
        /\ t.records = [s.records EXCEPT ![k] = v]
    BY <1>1 DEF Inserted, Store
  <1>5. \A j \in Keys : [s.records EXCEPT ![k] = v][j] \in p[j]
    BY <1>1 DEF Sound, Contents
  <1>6. Sound(t, p)  BY <1>3, <1>4, <1>5 DEF Sound
  <1>7. [s.records EXCEPT ![k] = v][k] = v  BY <1>1 DEF Contents
  <1> DEFINE e == [key |-> k, value |-> v, whole |-> TRUE]
  <1>8. e \in Entries /\ e.key = k /\ e.value = v /\ e.whole  BY DEF Entries
  <1>9. PutEntry(k, v) = <<e>>  BY DEF PutEntry
  <1> HIDE DEF e
  <1>10. <<e>> \in Seq(Entries) /\ DOMAIN <<e>> = {1} /\ <<e>>[1] = e  BY <1>8
  <1>11. Journals(t, <<e>>)  BY <1>4, <1>7, <1>8, <1>10 DEF Journals, Whole
  <1> QED BY <1>4, <1>6, <1>8, <1>9, <1>10, <1>11, SameFiles

\* A list of a finite set of keys has them all.
LEMMA Listed ==
    ASSUME NEW S \in SUBSET Keys
    PROVE  LET list == SetToSeq(S)
           IN /\ list \in [1 .. Cardinality(S) -> S] /\ Cardinality(S) \in Nat
              /\ \A k \in S : \E i \in 1 .. Cardinality(S) : list[i] = k
  <1> DEFINE n == Cardinality(S)
             list == SetToSeq(S)
  <1>1. IsFiniteSet(S)  BY FilesAssumption, FS_Subset
  <1>2. n \in Nat /\ ExistsBijection(1 .. n, S)  BY <1>1, FS_CardinalityType
  <1>3. PICK f : f \in Bijection(1 .. n, S)  BY <1>2 DEF ExistsBijection
  <1>4. f \in [1 .. n -> S] /\ IsInjective(f)
    BY <1>3 DEF Bijection, Injection, IsInjective
  <1>5. list \in [1 .. n -> S] /\ IsInjective(list)
    <2> HIDE DEF n
    <2>1. (CHOOSE g \in [1 .. n -> S] : IsInjective(g)) \in [1 .. n -> S]
          /\ IsInjective(CHOOSE g \in [1 .. n -> S] : IsInjective(g))
      BY <1>4
    <2> QED BY <2>1 DEF SetToSeq, n
  <1> HIDE DEF list
  <1>6. list \in Injection(1 .. n, S)  BY <1>5 DEF Injection, IsInjective
  <1>7. IsFiniteSet(1 .. n) /\ Cardinality(1 .. n) = n
    BY <1>2, FS_Interval
  <1>8. list \in Surjection(1 .. n, S)  BY <1>1, <1>6, <1>7, FS_Injection
  <1> QED BY <1>2, <1>5, <1>8 DEF Surjection, list

LEMMA DeletedSound ==
    ASSUME NEW p, NEW s, Sound(s, p), NEW ks \in SUBSET Keys, \A k \in Keys : None \in p[k]
    PROVE  /\ Sound(DeleteAll(s, ks), p) /\ OnFile(DeleteAll(s, ks)) = OnFile(s)
           /\ DeleteAll(s, ks).records = [k \in Keys |-> IF k \in ks THEN None ELSE s.records[k]]
           /\ Journals(DeleteAll(s, ks), DeleteEntries(s, ks))
           /\ \A k \in ks : s.records[k] # None =>
                 \E i \in DOMAIN DeleteEntries(s, ks) : DeleteEntries(s, ks)[i].key = k
  <1> DEFINE t == DeleteAll(s, ks)
             r == [k \in Keys |-> IF k \in ks THEN None ELSE s.records[k]]
  <1>1. s \in Store /\ s.records \in Contents  BY DEF Sound, Store
  <1>2. r \in Contents  BY <1>1 DEF Contents
  <1>3. t = [s EXCEPT !.records = r]  BY DEF DeleteAll
  <1>4. \A j \in Keys : r[j] \in p[j]  BY DEF Sound
  <1>5. \A j \in ks : r[j] = None  OBVIOUS
  <1> HIDE DEF r, t
  <1>6. t \in Store  BY <1>1, <1>2, <1>3 DEF Store
  <1>7. t.snapshot = s.snapshot /\ t.journal = s.journal /\ t.records = r
    BY <1>1, <1>3 DEF Store
  <1>8. Sound(t, p)  BY <1>4, <1>6, <1>7 DEF Sound
  <1> DEFINE S == {k \in ks : s.records[k] # None}
             n == Cardinality(S)
             list == SetToSeq(S)
             E(i) == [key |-> list[i], value |-> None, whole |-> TRUE]
             es == [i \in 1 .. n |-> E(i)]
  <1>9. S \in SUBSET Keys  OBVIOUS
  <1>10. list \in [1 .. n -> S] /\ n \in Nat /\ \A k \in S : \E i \in 1 .. n : list[i] = k
    BY <1>9, Listed
  <1>11. \A k \in S : k \in ks  OBVIOUS
  <1>12. \A k \in ks : s.records[k] # None => k \in S  OBVIOUS
  <1>13. DeleteEntries(s, ks) = [i \in 1 .. Len(list) |-> E(i)]  BY DEF DeleteEntries
  <1> HIDE DEF S, n, list
  <1>14. Len(list) = n  BY <1>10
  <1>15. DeleteEntries(s, ks) = es  BY <1>13, <1>14
  <1>16. \A i \in 1 .. n : E(i) \in Entries /\ E(i).key = list[i] /\ E(i).value = None /\ E(i).whole
    <2> TAKE i \in 1 .. n
    <2>1. list[i] \in Keys  BY <1>9, <1>10
    <2> QED BY <2>1 DEF Entries
  <1> HIDE DEF E
  <1>17. es \in Seq(Entries) /\ DOMAIN es = 1 .. n /\ \A i \in 1 .. n : es[i] = E(i)
    BY <1>10, <1>16
  <1> HIDE DEF es
  <1>18. Journals(t, es)
    <2>1. Whole(es)  BY <1>16, <1>17 DEF Whole
    <2>2. \A i \in DOMAIN es : es[i].value = t.records[es[i].key]
      BY <1>5, <1>7, <1>10, <1>11, <1>16, <1>17
    <2> QED BY <1>17, <2>1, <2>2 DEF Journals
  <1>19. \A k \in ks : s.records[k] # None => \E i \in DOMAIN es : es[i].key = k
    BY <1>10, <1>12, <1>16, <1>17
  <1> QED BY <1>7, <1>8, <1>15, <1>18, <1>19, SameFiles DEF t, r

-----------------------------------------------------------------------------
(* The devices. What the map and the files of its device say of a key.     *)

MapOf(st, k) == st[DeviceOf(k)].records[k]
FileOf(st, k) == OnFile(st[DeviceOf(k)])[k]
InMap(k) == MapOf(store, k)
InFile(k) == FileOf(store, k)

Maybe == Values \cup {None}

\* What a call that has not returned may have changed is unsure; apart from that
\* the files say what the map says, and the map what was acknowledged.
Tracked ==
    /\ paths \in Seq(Devices)
    /\ initialized \in BOOLEAN
    /\ batch \in [Keys -> Maybe]
    /\ past \in [Keys -> SUBSET Maybe]
    /\ \A k \in Keys : None \in past[k]
    /\ store \in [Devices -> Store]
    /\ \A d \in Devices : Sound(store[d], past)
    /\ Up => \A k \in Keys : InFile(k) \in {InMap(k)} \cup unsure[k]
    /\ \A k \in Keys : Found(k) \in {acked[k]} \cup unsure[k]

LEMMA DeviceType ==
    ASSUME paths \in Seq(Devices), paths # <<>>, NEW k \in Keys
    PROVE  StorageIndex(k) \in DOMAIN paths /\ DeviceOf(k) \in Devices /\ DeviceOf(k) \in Attached
  <1>1. Len(paths) \in Nat /\ Len(paths) # 0  OBVIOUS
  <1>2. Hash[k] \in Nat  BY DevicesAssumption
  <1> DEFINE n == Len(paths)
             h == Hash[k]
  <1> HIDE DEF n, h
  <1>3. h % n \in 0 .. n - 1  BY <1>1, <1>2 DEF n, h
  <1>4. 1 + (h % n) \in 1 .. n  BY <1>1, <1>3 DEF n
  <1>5. StorageIndex(k) \in DOMAIN paths  BY <1>4 DEF StorageIndex, n, h
  <1> QED BY <1>5 DEF DeviceOf, Attached, ToSet

\* What the next start or read finds.
Files == /\ paths \in Seq(Devices)
         /\ \A d \in Devices : Sound(store[d], past)
         /\ \A k \in Keys : None \in past[k]

Finds == \A k \in Keys :
           /\ Found(k) = IF paths = <<>> THEN None ELSE IF initialized THEN InMap(k) ELSE InFile(k)
           /\ Found(k) \in past[k]
           /\ paths # <<>> => InMap(k) \in past[k] /\ InFile(k) \in past[k]

LEMMA FoundIs == Files => Finds
  <1> SUFFICES ASSUME Files, NEW k \in Keys
               PROVE  /\ Found(k) = IF paths = <<>> THEN None
                                    ELSE IF initialized THEN InMap(k) ELSE InFile(k)
                      /\ Found(k) \in past[k]
                      /\ paths # <<>> => InMap(k) \in past[k] /\ InFile(k) \in past[k]
    BY DEF Finds
  <1>1. CASE paths = <<>>  BY <1>1 DEF Found, Files
  <1>2. CASE paths # <<>>
    <2>1. DeviceOf(k) \in Devices  BY <1>2, DeviceType DEF Files
    <2>2. Sound(store[DeviceOf(k)], past)  BY <2>1 DEF Files
    <2>3. InMap(k) \in past[k] /\ InFile(k) \in past[k]
      BY <2>2, OnFileSound DEF InMap, InFile, MapOf, FileOf, Sound
    <2>4. Loads(store[DeviceOf(k)]) = {OnFile(store[DeviceOf(k)])}
      BY <2>2, WholeLoads DEF Sound
    <2>5. (CHOOSE c \in Loads(store[DeviceOf(k)]) : TRUE) = OnFile(store[DeviceOf(k)])
      BY <2>4
    <2>6. Found(k) = IF initialized THEN store[DeviceOf(k)].records[k]
                     ELSE (CHOOSE c \in Loads(store[DeviceOf(k)]) : TRUE)[k]
      BY <1>2, Zenon DEF Found
    <2>7. Found(k) = IF initialized THEN InMap(k) ELSE InFile(k)
      BY <2>5, <2>6, Zenon DEF InMap, InFile, MapOf, FileOf
    <2> QED BY <1>2, <2>3, <2>7
  <1> QED BY <1>1, <1>2

\* The same of the state after a step.
LEMMA FoundIsNext == Files' => Finds'
  BY FoundIs, PTL

LEMMA SoundLater ==
    ASSUME NEW p, NEW q, \A k \in Keys : p[k] \subseteq q[k], NEW s, Sound(s, p)
    PROVE  Sound(s, q)
  <1>1. s \in Store  BY DEF Sound
  <1>2. s.journal \in Seq(Entries)  BY <1>1, StoreFields
  <1>3. \A i \in DOMAIN s.journal : s.journal[i].key \in Keys  BY <1>2, EntryKey
  <1> QED BY <1>3 DEF Sound

\* A call that returned Ok did what it should to the keys of new, in the map and
\* in the files, and to no other key.
LEMMA OkStep ==
    ASSUME Tracked, Up, NEW ks \in SUBSET Keys, NEW new \in [ks -> Maybe], Acknowledge(new),
           paths' = paths, initialized' = initialized, batch' \in [Keys -> Maybe],
           store' \in [Devices -> Store], \A d \in Devices : Sound(store'[d], past'),
           \A k \in ks : InMap(k)' = new[k] /\ InFile(k)' = new[k],
           \A k \in Keys \ ks : InMap(k)' = InMap(k) /\ InFile(k)' \in {InMap(k), InFile(k)}
    PROVE  Tracked' /\ Durable!Next
  <1>1. DOMAIN new = ks  OBVIOUS
  <1>2. past' = [k \in Keys |-> IF k \in ks THEN past[k] \cup {new[k]} ELSE past[k]]
    BY <1>1 DEF Acknowledge
  <1>3. unsure' = [k \in Keys |-> IF k \in ks THEN {} ELSE unsure[k]]
    BY <1>1 DEF Acknowledge
  <1>4. acked' = [k \in Keys |-> IF k \in ks THEN new[k] ELSE acked[k]]
    BY <1>1 DEF Acknowledge
  <1>5. past' \in [Keys -> SUBSET Maybe] /\ \A k \in Keys : None \in past'[k]
    <2>1. \A k \in ks : new[k] \in Maybe  OBVIOUS
    <2>2. past \in [Keys -> SUBSET Maybe] /\ \A k \in Keys : None \in past[k]  BY DEF Tracked
    <2> QED BY <1>2, <2>1, <2>2
  <1>6. paths \in Seq(Devices) /\ paths # <<>> /\ initialized /\ Up'
    BY DEF Tracked, Up
  <1>7. \A k \in Keys : Found(k) = InMap(k) /\ Found(k) \in past[k]
    BY <1>6, FoundIs DEF Files, Finds, Tracked
  <1>8. \A k \in Keys : Found(k)' = InMap(k)'
    <2>1. Finds'  BY <1>5, <1>6, FoundIsNext DEF Files
    <2> QED BY <1>6, <2>1 DEF Finds
  <1>9. \A k \in Keys : Found(k)' = IF k \in ks THEN new[k] ELSE Found(k)  BY <1>7, <1>8
  <1>10. \A k \in Keys : InFile(k)' \in {InMap(k)'} \cup unsure'[k]
    <2> TAKE k \in Keys
    <2>1. CASE k \in ks  BY <2>1
    <2>2. CASE k \notin ks
      <3>1. InFile(k) \in {InMap(k)} \cup unsure[k]  BY DEF Tracked
      <3>2. unsure'[k] = unsure[k]  BY <1>3, <2>2
      <3> QED BY <2>2, <3>1, <3>2
    <2> QED BY <2>1, <2>2
  <1>11. \A k \in Keys : Found(k)' \in {acked'[k]} \cup unsure'[k]
    <2> TAKE k \in Keys
    <2>1. CASE k \in ks  BY <1>4, <1>9, <2>1
    <2>2. CASE k \notin ks
      <3>1. Found(k) \in {acked[k]} \cup unsure[k]  BY DEF Tracked
      <3> QED BY <1>3, <1>4, <1>9, <2>2, <3>1
    <2> QED BY <2>1, <2>2
  <1>12. Tracked'  BY <1>5, <1>6, <1>10, <1>11 DEF Tracked
  <1>13. Durable!Changed(new)
    <2>1. [k \in Keys |-> Found(k)]' = [k \in Keys |-> IF k \in DOMAIN new THEN new[k]
                                                      ELSE [j \in Keys |-> Found(j)][k]]
      BY <1>1, <1>9
    <2>2. past' = [k \in Keys |-> past[k] \cup {[j \in Keys |-> Found(j)]'[k]}]
      BY <1>2, <1>7, <1>9
    <2>3. unsure' = [k \in Keys |-> IF k \in DOMAIN new THEN {} ELSE unsure[k]]
      BY <1>1, <1>3
    <2> QED BY <2>1, <2>2, <2>3 DEF Durable!Changed
  <1>14. new \in Durable!News
    <2>1. [ks -> Values \cup {None}] \in {[js -> Values \cup {None}] : js \in SUBSET Keys}  OBVIOUS
    <2> QED BY <2>1 DEF Durable!News, Maybe
  <1> QED BY <1>12, <1>13, <1>14 DEF Durable!Next

\* A call that failed or was interrupted may have changed the keys of new, in the
\* map or in the files, and no other key.
LEMMA FailedStep ==
    ASSUME Tracked, Up, NEW ks \in SUBSET Keys, NEW new \in [ks -> Maybe], Unacknowledged(new),
           paths' = paths, initialized' \in BOOLEAN, batch' \in [Keys -> Maybe],
           store' \in [Devices -> Store], \A d \in Devices : Sound(store'[d], past'),
           \A k \in ks : /\ InFile(k)' \in {InMap(k), InFile(k), new[k]}
                         /\ initialized' => InMap(k)' \in {InMap(k), new[k]},
           \A k \in Keys \ ks : /\ InFile(k)' \in {InMap(k), InFile(k)}
                                /\ initialized' => InMap(k)' = InMap(k)
    PROVE  Tracked' /\ Durable!Next
  <1>1. DOMAIN new = ks  OBVIOUS
  <1>2. past' = [k \in Keys |-> IF k \in ks THEN past[k] \cup {new[k]} ELSE past[k]]
    BY <1>1 DEF Unacknowledged
  <1>3. unsure' = [k \in Keys |-> IF k \in ks THEN unsure[k] \cup {Found(k), new[k]} ELSE unsure[k]]
    BY <1>1 DEF Unacknowledged
  <1>4. acked' = acked  BY DEF Unacknowledged
  <1>5. past' \in [Keys -> SUBSET Maybe] /\ \A k \in Keys : None \in past'[k]
    <2>1. \A k \in ks : new[k] \in Maybe  OBVIOUS
    <2>2. past \in [Keys -> SUBSET Maybe] /\ \A k \in Keys : None \in past[k]  BY DEF Tracked
    <2> QED BY <1>2, <2>1, <2>2
  <1>6. paths \in Seq(Devices) /\ paths # <<>> /\ initialized
    BY DEF Tracked, Up
  <1>7. \A k \in Keys : Found(k) = InMap(k)
    BY <1>6, FoundIs DEF Files, Finds, Tracked
  <1>8. \A k \in Keys : Found(k)' = IF initialized' THEN InMap(k)' ELSE InFile(k)'
    <2>1. Finds'  BY <1>5, <1>6, FoundIsNext DEF Files
    <2> QED BY <1>6, <2>1 DEF Finds
  <1>9. \A k \in Keys : InFile(k) \in {Found(k)} \cup unsure[k]
    BY <1>7 DEF Tracked
  <1>10. \A k \in Keys : /\ Found(k)' \in {Found(k)} \cup unsure[k] \cup (IF k \in ks THEN {new[k]} ELSE {})
                         /\ InFile(k)' \in {Found(k)} \cup unsure[k] \cup (IF k \in ks THEN {new[k]} ELSE {})
    <2> TAKE k \in Keys
    <2>1. InFile(k) \in {Found(k)} \cup unsure[k] /\ Found(k) = InMap(k)  BY <1>7, <1>9
    <2>2. CASE k \in ks  BY <1>8, <2>1, <2>2
    <2>3. CASE k \notin ks  BY <1>8, <2>1, <2>3
    <2> QED BY <2>2, <2>3
  <1>11. initialized' => \A k \in Keys : InFile(k)' \in {InMap(k)'} \cup unsure'[k]
    <2> SUFFICES ASSUME initialized', NEW k \in Keys
                 PROVE  InFile(k)' \in {InMap(k)'} \cup unsure'[k]
      OBVIOUS
    <2>1. CASE k \in ks
      <3>1. unsure'[k] = unsure[k] \cup {Found(k), new[k]}  BY <1>3, <2>1
      <3> QED BY <1>10, <2>1, <3>1
    <2>2. CASE k \notin ks
      <3>1. unsure'[k] = unsure[k]  BY <1>3, <2>2
      <3>2. InMap(k)' = Found(k)  BY <1>7, <2>2
      <3> QED BY <1>10, <2>2, <3>1, <3>2
    <2> QED BY <2>1, <2>2
  <1>12. \A k \in Keys : Found(k)' \in {acked'[k]} \cup unsure'[k]
    <2> TAKE k \in Keys
    <2>1. Found(k) \in {acked[k]} \cup unsure[k]  BY DEF Tracked
    <2>2. CASE k \in ks
      <3>1. unsure'[k] = unsure[k] \cup {Found(k), new[k]}  BY <1>3, <2>2
      <3> QED BY <1>10, <2>2, <3>1
    <2>3. CASE k \notin ks
      <3>1. unsure'[k] = unsure[k]  BY <1>3, <2>3
      <3> QED BY <1>4, <1>10, <2>1, <2>3, <3>1
    <2> QED BY <2>2, <2>3
  <1>13. Tracked'  BY <1>5, <1>6, <1>11, <1>12 DEF Tracked, Up
  <1>14. Durable!Unacknowledged(new)
    <2> DEFINE content == [j \in Keys |-> Found(j)]
    <2>1. \A k \in Keys : content'[k] \in {content[k]} \cup unsure[k]
                             \cup (IF k \in DOMAIN new THEN {new[k]} ELSE {})
      BY <1>1, <1>10
    <2>2. unsure' = [k \in Keys |-> IF k \in DOMAIN new
                                    THEN unsure[k] \cup {content[k], new[k]} ELSE unsure[k]]
      BY <1>1, <1>3
    <2>3. past' = [k \in Keys |-> IF k \in DOMAIN new THEN past[k] \cup {new[k]} ELSE past[k]]
      BY <1>1, <1>2
    <2> QED BY <2>1, <2>2, <2>3 DEF Durable!Unacknowledged
  <1>15. new \in Durable!News
    <2>1. [ks -> Values \cup {None}] \in {[js -> Values \cup {None}] : js \in SUBSET Keys}  OBVIOUS
    <2> QED BY <2>1 DEF Durable!News, Maybe
  <1> QED BY <1>13, <1>14, <1>15 DEF Durable!Next

\* A start, a stop or a crash between calls shows the map or the files.
LEMMA RestartStep ==
    ASSUME Tracked, paths # <<>>, UNCHANGED <<paths, history>>, initialized' \in BOOLEAN,
           batch' \in [Keys -> Maybe],
           store' \in [Devices -> Store], \A d \in Devices : Sound(store'[d], past),
           \A k \in Keys : /\ InFile(k)' \in (IF initialized THEN {InMap(k), InFile(k)} ELSE {InFile(k)})
                           /\ initialized' => InMap(k)' = InFile(k)'
    PROVE  Tracked' /\ Durable!Next
  <1>1. unsure' = unsure /\ past' = past /\ acked' = acked  BY DEF history
  <1>2. past \in [Keys -> SUBSET Maybe] /\ \A k \in Keys : None \in past[k]  BY DEF Tracked
  <1>3. paths \in Seq(Devices)  BY DEF Tracked
  <1>4. \A k \in Keys : Found(k) = IF initialized THEN InMap(k) ELSE InFile(k)
    BY FoundIs DEF Files, Finds, Tracked
  <1>5. \A k \in Keys : Found(k)' = InFile(k)'
    <2>1. Finds'  BY <1>1, <1>2, <1>3, FoundIsNext DEF Files
    <2> QED BY <1>3, <2>1 DEF Finds
  <1>6. \A k \in Keys : Found(k)' \in {Found(k)} \cup unsure[k]
    <2> TAKE k \in Keys
    <2>1. CASE initialized
      <3>1. InFile(k) \in {InMap(k)} \cup unsure[k]  BY <2>1 DEF Tracked, Up
      <3> QED BY <1>4, <1>5, <2>1, <3>1
    <2>2. CASE ~ initialized  BY <1>4, <1>5, <2>2
    <2> QED BY <2>1, <2>2 DEF Tracked
  <1>7. \A k \in Keys : Found(k)' \in {acked'[k]} \cup unsure'[k]
    BY <1>1, <1>6 DEF Tracked
  <1>8. initialized' => \A k \in Keys : InFile(k)' \in {InMap(k)'} \cup unsure'[k]  OBVIOUS
  <1>9. Tracked'  BY <1>1, <1>2, <1>3, <1>7, <1>8 DEF Tracked, Up
  <1>10. Durable!Restart
    <2> DEFINE content == [j \in Keys |-> Found(j)]
    <2>1. \A k \in Keys : content'[k] \in {content[k]} \cup unsure[k]  BY <1>6
    <2> QED BY <1>1, <2>1 DEF Durable!Restart
  <1> QED BY <1>9, <1>10 DEF Durable!Next

\* With other devices a key shows something it has been.
LEMMA ReshapedStep ==
    ASSUME Tracked, Reshaped, paths' \in Seq(Devices), initialized' = initialized,
           store' \in [Devices -> Store], \A d \in Devices : Sound(store'[d], past)
    PROVE  Tracked' /\ Durable!Next
  <1>1. unsure' = past /\ past' = past /\ acked' = acked /\ batch' = batch  BY DEF Reshaped
  <1>2. past \in [Keys -> SUBSET Maybe] /\ \A k \in Keys : None \in past[k]  BY DEF Tracked
  <1>3. Finds'  BY <1>1, <1>2, FoundIsNext DEF Files
  <1>4. \A k \in Keys : Found(k)' \in past[k] /\ (paths' # <<>> => InFile(k)' \in past[k])
    BY <1>1, <1>3 DEF Finds
  <1>5. Tracked'  BY <1>1, <1>2, <1>4 DEF Tracked, Up
  <1>6. Durable!DevicesChanged
    <2> DEFINE content == [j \in Keys |-> Found(j)]
    <2>1. \A k \in Keys : content'[k] \in {None} \cup past[k]  BY <1>4
    <2> QED BY <1>1, <2>1 DEF Durable!DevicesChanged
  <1> QED BY <1>5, <1>6 DEF Durable!Next

-----------------------------------------------------------------------------
(* The calls.                                                              *)

LEMMA Routed ==
    ASSUME Tracked, paths # <<>>, NEW k \in Keys
    PROVE  DeviceOf(k) \in Devices /\ DeviceOf(k) \in Attached
  BY DeviceType DEF Tracked

\* Where a key is routed does not change with the stores.
LEMMA SameRoute ==
    ASSUME paths' = paths, NEW k \in Keys
    PROVE  InMap(k)' = MapOf(store', k) /\ InFile(k)' = FileOf(store', k)
  BY DEF InMap, InFile, MapOf, FileOf, DeviceOf, StorageIndex

\* Stores that are sound, with what keys may have been.
Sounds(st, p) == st \in [Devices -> Store] /\ \A d \in Devices : Sound(st[d], p)

LEMMA DownSounds ==
    ASSUME NEW p, \A k \in Keys : None \in p[k], NEW st, Sounds(st, p)
    PROVE  /\ Sounds(AllDown(st), p)
           /\ \A k \in Keys : DeviceOf(k) \in Devices => FileOf(AllDown(st), k) = FileOf(st, k)
  <1>1. \A d \in Devices : Sound(Down(st[d]), p) /\ OnFile(Down(st[d])) = OnFile(st[d])
    BY DownSound DEF Sounds
  <1>2. \A d \in Devices : AllDown(st)[d] = Down(st[d])  BY DEF AllDown
  <1>3. AllDown(st) \in [Devices -> Store]
    <2>1. \A d \in Devices : Down(st[d]) \in Store  BY <1>1 DEF Sound
    <2> QED BY <2>1 DEF AllDown
  <1> QED BY <1>1, <1>2, <1>3 DEF Sounds, FileOf

\* A put, a delete or an entry of a batch leaves t on its device.
LEMMA PutLeaves ==
    ASSUME Tracked, Up, NEW k \in Keys, NEW v \in Maybe, NEW p,
           \A j \in Keys : past[j] \subseteq p[j], v \in p[k],
           NEW t, Sound(t, p), Near(Inserted(store[DeviceOf(k)], k, v), t)
    PROVE  LET st == [store EXCEPT ![DeviceOf(k)] = t]
           IN /\ Sounds(st, p)
              /\ MapOf(st, k) = v /\ FileOf(st, k) \in {InFile(k), v}
              /\ \A j \in Keys \ {k} : MapOf(st, j) = InMap(j) /\ FileOf(st, j) \in {InMap(j), InFile(j)}
  <1> DEFINE d == DeviceOf(k)
             s == store[d]
             st == [store EXCEPT ![d] = t]
  <1>1. d \in Devices /\ \A j \in Keys : DeviceOf(j) \in Devices  BY Routed DEF Up
  <1>2. store \in [Devices -> Store] /\ \A e \in Devices : Sound(store[e], past)  BY DEF Tracked
  <1>3. \A e \in Devices : Sound(store[e], p)  BY <1>2, SoundLater
  <1>4. t \in Store  BY DEF Sound
  <1>5. Sounds(st, p)  BY <1>1, <1>2, <1>3, <1>4 DEF Sounds
  <1>6. /\ OnFile(Inserted(s, k, v)) = OnFile(s)
        /\ Inserted(s, k, v).records = [s.records EXCEPT ![k] = v]
    BY <1>1, <1>3, InsertedSound DEF Maybe
  <1>7. s.records \in [Keys -> Values \cup {None, Garbage}]  BY <1>1, <1>2, StoreFields
  <1>8. /\ t.records = [s.records EXCEPT ![k] = v]
        /\ \A j \in Keys : OnFile(t)[j] \in {OnFile(s)[j], [s.records EXCEPT ![k] = v][j]}
    BY <1>6 DEF Near
  <1>9. st[d] = t /\ \A e \in Devices \ {d} : st[e] = store[e]  BY <1>1, <1>2
  <1> HIDE DEF st
  <1>10. MapOf(st, k) = v /\ FileOf(st, k) \in {InFile(k), v}
    BY <1>7, <1>8, <1>9 DEF MapOf, FileOf, InFile
  <1>11. ASSUME NEW j \in Keys \ {k}
         PROVE  MapOf(st, j) = InMap(j) /\ FileOf(st, j) \in {InMap(j), InFile(j)}
    <2>1. CASE DeviceOf(j) = d
      BY <1>7, <1>8, <1>9, <2>1 DEF MapOf, FileOf, InFile, InMap
    <2>2. CASE DeviceOf(j) # d
      BY <1>1, <1>9, <2>2 DEF MapOf, FileOf, InFile, InMap
    <2> QED BY <2>1, <2>2
  <1> QED BY <1>5, <1>10, <1>11 DEF st

\* The map has the value before its entry is journalled.
LEMMA PutBasis ==
    ASSUME Tracked, Up, NEW k \in Keys, NEW v \in Maybe,
           past' = [j \in Keys |-> IF j \in {k} THEN past[j] \cup {v} ELSE past[j]]
    PROVE  LET s == Inserted(store[DeviceOf(k)], k, v)
           IN /\ Sound(s, past') /\ Journals(s, PutEntry(k, v)) /\ s.records[k] = v
              /\ 1 \in DOMAIN PutEntry(k, v) /\ PutEntry(k, v)[1].key = k
              /\ \A j \in Keys : past[j] \subseteq past'[j] /\ None \in past'[j]
              /\ v \in past'[k]
  <1> DEFINE d == DeviceOf(k)
  <1>1. d \in Devices  BY Routed DEF Up
  <1>2. \A j \in Keys : past[j] \subseteq past'[j] /\ None \in past'[j]  BY DEF Tracked
  <1>3. v \in past'[k]  OBVIOUS
  <1>4. Sound(store[d], past')  BY <1>1, <1>2, SoundLater DEF Tracked
  <1>5. store[d].records \in [Keys -> Values \cup {None, Garbage}]  BY <1>4, StoreFields DEF Sound
  <1>6. [store[d].records EXCEPT ![k] = v][k] = v  BY <1>5
  <1> DEFINE s == Inserted(store[d], k, v)
  <1>7. /\ Sound(s, past') /\ Journals(s, PutEntry(k, v))
        /\ s.records = [store[d].records EXCEPT ![k] = v]
        /\ 1 \in DOMAIN PutEntry(k, v) /\ PutEntry(k, v)[1].key = k
    BY <1>3, <1>4, InsertedSound DEF Maybe
  <1> HIDE DEF s
  <1> QED BY <1>2, <1>3, <1>6, <1>7 DEF s

LEMMA TrackedPut ==
    ASSUME Tracked, NEW k \in Keys, NEW v \in Maybe, Put(k, v)
    PROVE  Tracked' /\ Durable!Next
  <1> DEFINE s == Inserted(store[DeviceOf(k)], k, v)
             t == Change(store[DeviceOf(k)], k, v)
             new == [x \in {k} |-> v]
  <1>1. /\ Up /\ store' = [store EXCEPT ![DeviceOf(k)] = t] /\ batch' = [batch EXCEPT ![k] = None]
        /\ Acknowledge(new) /\ paths' = paths /\ initialized' = initialized
    BY DEF Put, Called
  <1>2. past' = [j \in Keys |-> IF j \in {k} THEN past[j] \cup {v} ELSE past[j]]
    BY <1>1 DEF Acknowledge
  <1>3. /\ Sound(s, past') /\ Journals(s, PutEntry(k, v)) /\ s.records[k] = v
        /\ 1 \in DOMAIN PutEntry(k, v) /\ PutEntry(k, v)[1].key = k
        /\ \A j \in Keys : past[j] \subseteq past'[j]
        /\ v \in past'[k]
    BY <1>1, <1>2, PutBasis
  <1>4. t = Compacted(Logged(s, PutEntry(k, v)))  BY DEF Change
  <1>5. Sound(t, past') /\ Near(s, t) /\ OnFile(t)[k] = v
    BY <1>3, <1>4, ChangedNear
  <1> HIDE DEF t
  <1> DEFINE st == [store EXCEPT ![DeviceOf(k)] = t]
  <1>6. /\ Sounds(store', past') /\ MapOf(store', k) = v
        /\ \A j \in Keys \ {k} : MapOf(store', j) = InMap(j) /\ FileOf(store', j) \in {InMap(j), InFile(j)}
    <2>1. Up /\ (\A j \in Keys : past[j] \subseteq past'[j]) /\ v \in past'[k]  BY <1>1, <1>3
    <2>2. Sound(t, past') /\ Near(Inserted(store[DeviceOf(k)], k, v), t)  BY <1>5
    <2>3. /\ Sounds(st, past') /\ MapOf(st, k) = v /\ FileOf(st, k) \in {InFile(k), v}
          /\ \A j \in Keys \ {k} : MapOf(st, j) = InMap(j) /\ FileOf(st, j) \in {InMap(j), InFile(j)}
      BY <2>1, <2>2, PutLeaves
    <2> QED BY <1>1, <2>3
  <1>7. FileOf(store', k) = v
    <2>1. DeviceOf(k) \in Devices /\ store \in [Devices -> Store]  BY <1>1, Routed DEF Up, Tracked
    <2>2. store'[DeviceOf(k)] = t  BY <1>1, <2>1
    <2> QED BY <1>5, <2>2 DEF FileOf
  <1>8. batch' \in [Keys -> Maybe]
    <2>1. batch \in [Keys -> Maybe] /\ None \in Maybe  BY DEF Tracked, Maybe
    <2> QED BY <1>1, <2>1
  <1>9. \A j \in Keys : InMap(j)' = MapOf(store', j) /\ InFile(j)' = FileOf(store', j)
    BY <1>1, SameRoute
  <1>10. {k} \in SUBSET Keys /\ new \in [{k} -> Maybe] /\ new[k] = v  OBVIOUS
  <1> HIDE DEF new
  <1>11. \A j \in {k} : InMap(j)' = new[j] /\ InFile(j)' = new[j]  BY <1>6, <1>7, <1>9, <1>10
  <1>12. \A j \in Keys \ {k} : InMap(j)' = InMap(j) /\ InFile(j)' \in {InMap(j), InFile(j)}
    BY <1>6, <1>9
  <1> QED BY <1>1, <1>6, <1>8, <1>10, <1>11, <1>12, OkStep DEF Sounds

LEMMA TrackedPutFails ==
    ASSUME Tracked, ~ TornWrites, NEW k \in Keys, NEW v \in Maybe, PutFails(k, v) \/ CrashInPut(k, v)
    PROVE  Tracked' /\ Durable!Next
  <1> DEFINE s == Inserted(store[DeviceOf(k)], k, v)
             new == [x \in {k} |-> v]
  <1>1. /\ Up /\ batch' = NoRecords /\ Unacknowledged(new) /\ paths' = paths
    BY DEF PutFails, CrashInPut, Called
  <1>2. past' = [j \in Keys |-> IF j \in {k} THEN past[j] \cup {v} ELSE past[j]]
    BY <1>1 DEF Unacknowledged
  <1>3. /\ Sound(s, past') /\ Journals(s, PutEntry(k, v))
        /\ \A j \in Keys : past[j] \subseteq past'[j] /\ None \in past'[j]
        /\ v \in past'[k]
    BY <1>1, <1>2, PutBasis
  <1>4. PICK t \in FailedChange(s, PutEntry(k, v), TornWrites) \cup InterruptedChange(s, PutEntry(k, v), TornWrites) :
           \/ store' = [store EXCEPT ![DeviceOf(k)] = t] /\ initialized' = initialized
           \/ store' = AllDown([store EXCEPT ![DeviceOf(k)] = t]) /\ initialized' = FALSE
    BY DEF PutFails, CrashInPut
  <1> DEFINE st == [store EXCEPT ![DeviceOf(k)] = t]
  <1>5. Sound(t, past') /\ Near(s, t)  BY <1>3, UnfinishedNear
  <1>6. /\ Sounds(st, past') /\ MapOf(st, k) = v /\ FileOf(st, k) \in {InFile(k), v}
        /\ \A j \in Keys \ {k} : MapOf(st, j) = InMap(j) /\ FileOf(st, j) \in {InMap(j), InFile(j)}
    BY <1>1, <1>3, <1>5, PutLeaves
  <1> HIDE DEF st
  <1>7. \A j \in Keys : DeviceOf(j) \in Devices  BY <1>1, Routed DEF Up
  <1>8. /\ Sounds(store', past')
        /\ \A j \in Keys : FileOf(store', j) = FileOf(st, j) /\ (initialized' => MapOf(store', j) = MapOf(st, j))
    <2>1. CASE store' = st  BY <1>6, <2>1
    <2>2. CASE store' = AllDown(st) /\ initialized' = FALSE
      BY <1>3, <1>6, <1>7, <2>2, DownSounds
    <2> QED BY <1>4, <2>1, <2>2 DEF st
  <1>9. \A j \in Keys : InMap(j)' = MapOf(store', j) /\ InFile(j)' = FileOf(store', j)
    BY <1>1, SameRoute
  <1>10. {k} \in SUBSET Keys /\ new \in [{k} -> Maybe] /\ new[k] = v  OBVIOUS
  <1>11. batch' \in [Keys -> Maybe] /\ initialized' \in BOOLEAN
    BY <1>1, <1>4 DEF NoRecords, Maybe, Tracked
  <1> HIDE DEF new
  <1>12. \A j \in {k} : /\ InFile(j)' \in {InMap(j), InFile(j), new[j]}
                        /\ initialized' => InMap(j)' \in {InMap(j), new[j]}
    BY <1>6, <1>8, <1>9, <1>10
  <1>13. \A j \in Keys \ {k} : /\ InFile(j)' \in {InMap(j), InFile(j)}
                               /\ initialized' => InMap(j)' = InMap(j)
    BY <1>6, <1>8, <1>9
  <1> QED BY <1>1, <1>8, <1>10, <1>11, <1>12, <1>13, FailedStep DEF Sounds

\* delete_batch on each device: not begun, or the keys of ks have left its map
\* and some, or all, have left its files.
LEMMA DeleteLeaves ==
    ASSUME Tracked, Up, NEW ks \in SUBSET Keys, NEW st,
           \A d \in Attached : st[d] = store[d] \/ Near(Shrunk(ks, d), st[d])
    PROVE  /\ \A k \in DOMAIN Deleted(ks) : /\ MapOf(st, k) \in {InMap(k), None}
                                            /\ FileOf(st, k) \in {InMap(k), InFile(k), None}
           /\ \A k \in Keys \ DOMAIN Deleted(ks) :
                 MapOf(st, k) = InMap(k) /\ FileOf(st, k) \in {InMap(k), InFile(k)}
  <1>1. \A k \in Keys : Found(k) = InMap(k)
    BY FoundIs DEF Files, Finds, Tracked, Up
  <1>2. DOMAIN Deleted(ks) = {k \in ks : Found(k) # None}  BY DEF Deleted
  <1>3. ASSUME NEW k \in Keys
        PROVE  /\ MapOf(st, k) = InMap(k) \/ (k \in ks /\ MapOf(st, k) = None)
               /\ FileOf(st, k) \in {InMap(k), InFile(k)} \/ (k \in ks /\ FileOf(st, k) = None)
    <2> DEFINE d == DeviceOf(k)
    <2>1. d \in Devices /\ d \in Attached  BY Routed DEF Up
    <2>2. CASE st[d] = store[d]  BY <2>2 DEF MapOf, FileOf, InMap, InFile
    <2>3. CASE Near(Shrunk(ks, d), st[d])
      <3>1. Sound(store[d], past) /\ \A j \in Keys : None \in past[j]  BY <2>1 DEF Tracked
      <3>2. KeysOn(ks, d) \in SUBSET Keys  BY DEF KeysOn
      <3>3. /\ OnFile(Shrunk(ks, d)) = OnFile(store[d])
            /\ Shrunk(ks, d).records = [j \in Keys |-> IF j \in KeysOn(ks, d) THEN None ELSE store[d].records[j]]
        BY <3>1, <3>2, DeletedSound DEF Shrunk
      <3>4. k \in KeysOn(ks, d) <=> k \in ks  BY DEF KeysOn
      <3>5. Shrunk(ks, d).records[k] = IF k \in ks THEN None ELSE store[d].records[k]
        BY <3>3, <3>4
      <3>6. /\ st[d].records[k] = Shrunk(ks, d).records[k]
            /\ OnFile(st[d])[k] \in {OnFile(store[d])[k], Shrunk(ks, d).records[k]}
        BY <2>3, <3>3 DEF Near
      <3> QED BY <3>5, <3>6 DEF MapOf, FileOf, InMap, InFile
    <2> QED BY <2>1, <2>2, <2>3
  <1>4. ASSUME NEW k \in Keys, k \notin DOMAIN Deleted(ks)
        PROVE  MapOf(st, k) = InMap(k) /\ FileOf(st, k) \in {InMap(k), InFile(k)}
    <2>1. k \in ks => InMap(k) = None  BY <1>1, <1>2, <1>4
    <2> QED BY <1>3, <2>1
  <1>5. ASSUME NEW k \in DOMAIN Deleted(ks)
        PROVE  MapOf(st, k) \in {InMap(k), None} /\ FileOf(st, k) \in {InMap(k), InFile(k), None}
    <2>1. k \in Keys  BY <1>2
    <2> QED BY <1>3, <2>1
  <1> QED BY <1>4, <1>5

\* The history of a delete.
LEMMA DeletedNew ==
    ASSUME Tracked, NEW ks \in SUBSET Keys, Acknowledge(Deleted(ks)) \/ Unacknowledged(Deleted(ks))
    PROVE  /\ DOMAIN Deleted(ks) \in SUBSET Keys /\ Deleted(ks) \in [DOMAIN Deleted(ks) -> Maybe]
           /\ \A k \in DOMAIN Deleted(ks) : Deleted(ks)[k] = None
           /\ past' = past
  <1>1. /\ DOMAIN Deleted(ks) \in SUBSET Keys /\ Deleted(ks) \in [DOMAIN Deleted(ks) -> Maybe]
        /\ \A k \in DOMAIN Deleted(ks) : Deleted(ks)[k] = None
    BY DEF Deleted, Maybe
  <1>2. past' = [k \in Keys |-> IF k \in DOMAIN Deleted(ks) THEN past[k] \cup {Deleted(ks)[k]} ELSE past[k]]
    BY DEF Acknowledge, Unacknowledged
  <1>3. past \in [Keys -> SUBSET Maybe] /\ \A k \in Keys : None \in past[k]  BY DEF Tracked
  <1>4. \A k \in Keys : past'[k] = past[k]
    BY <1>1, <1>2, <1>3
  <1>5. past' = past
    BY <1>2, <1>3, <1>4
  <1> QED BY <1>1, <1>5

\* One device's delete_batch, done.
LEMMA DeleteDone ==
    ASSUME Tracked, NEW ks \in SUBSET Keys, NEW d \in Devices
    PROVE  /\ Sound(Deleting(ks)[d], past) /\ Near(Shrunk(ks, d), Deleting(ks)[d])
           /\ Sound(Shrunk(ks, d), past) /\ Journals(Shrunk(ks, d), Deletions(ks, d))
           /\ \A k \in KeysOn(ks, d) : store[d].records[k] # None =>
                 Deleting(ks)[d].records[k] = None /\ OnFile(Deleting(ks)[d])[k] = None
  <1> DEFINE here == KeysOn(ks, d)
             s == Shrunk(ks, d)
             es == Deletions(ks, d)
             t == Deleting(ks)[d]
  <1>1. Sound(store[d], past) /\ \A j \in Keys : None \in past[j]  BY DEF Tracked
  <1>2. here \in SUBSET Keys  BY DEF KeysOn
  <1>3. /\ Sound(s, past) /\ Journals(s, es)
        /\ s.records = [k \in Keys |-> IF k \in here THEN None ELSE store[d].records[k]]
        /\ \A k \in here : store[d].records[k] # None => \E i \in DOMAIN es : es[i].key = k
    BY <1>1, <1>2, DeletedSound DEF Shrunk, Deletions
  <1>4. t = Compacted(Logged(s, es))  BY DEF Deleting, DeleteBatch, Shrunk, Deletions
  <1> HIDE DEF s, es, t, here
  <1>5. /\ Sound(t, past) /\ Near(s, t)
        /\ \A i \in DOMAIN es : OnFile(t)[es[i].key] = s.records[es[i].key]
    BY <1>3, <1>4, ChangedNear
  <1>6. ASSUME NEW k \in here, store[d].records[k] # None
        PROVE  t.records[k] = None /\ OnFile(t)[k] = None
    <2>1. PICK i \in DOMAIN es : es[i].key = k  BY <1>3, <1>6
    <2>2. k \in Keys /\ s.records[k] = None  BY <1>2, <1>3
    <2> QED BY <1>5, <2>1, <2>2 DEF Near
  <1> QED BY <1>3, <1>5, <1>6 DEF s, es, t, here

LEMMA AttachedDevices ==
    ASSUME Tracked
    PROVE  Attached \in SUBSET Devices /\ \A i \in DOMAIN paths : paths[i] \in Attached
  BY DEF Tracked, Attached, ToSet

LEMMA TrackedDelete ==
    ASSUME Tracked, NEW ks \in SUBSET Keys, DeleteKeys(ks)
    PROVE  Tracked' /\ Durable!Next
  <1> DEFINE new == Deleted(ks)
  <1>1. /\ Up /\ Acknowledge(new) /\ paths' = paths /\ initialized' = initialized /\ batch' = batch
        /\ store' = [d \in Devices |-> IF d \in Attached THEN Deleting(ks)[d] ELSE store[d]]
    BY DEF DeleteKeys
  <1>2. /\ DOMAIN new \in SUBSET Keys /\ new \in [DOMAIN new -> Maybe]
        /\ \A k \in DOMAIN new : new[k] = None
        /\ past' = past
    BY <1>1, DeletedNew
  <1>3. Sounds(store', past')
    <2>1. \A d \in Devices : Sound(Deleting(ks)[d], past) /\ Sound(store[d], past)
      BY DeleteDone DEF Tracked
    <2>2. \A d \in Devices : Sound(store'[d], past) /\ store'[d] \in Store  BY <1>1, <2>1 DEF Sound
    <2>3. store' \in [Devices -> Store]  BY <1>1, <2>2
    <2> QED BY <1>2, <2>2, <2>3 DEF Sounds
  <1>4. \A d \in Attached : d \in Devices /\ store'[d] = Deleting(ks)[d]  BY <1>1, AttachedDevices
  <1>5. \A d \in Attached : store'[d] = store[d] \/ Near(Shrunk(ks, d), store'[d])
    BY <1>4, DeleteDone
  <1>6. \A k \in Keys \ DOMAIN new : MapOf(store', k) = InMap(k) /\ FileOf(store', k) \in {InMap(k), InFile(k)}
    BY <1>1, <1>5, DeleteLeaves
  <1>7. \A k \in DOMAIN new : MapOf(store', k) = None /\ FileOf(store', k) = None
    <2> TAKE k \in DOMAIN new
    <2> DEFINE d == DeviceOf(k)
    <2>1. k \in ks /\ k \in Keys /\ Found(k) # None  BY DEF Deleted
    <2>2. d \in Attached  BY <1>1, <2>1, Routed DEF Up
    <2>3. Found(k) = InMap(k)  BY <1>1, <2>1, FoundIs DEF Files, Finds, Tracked, Up
    <2>4. k \in KeysOn(ks, d) /\ store[d].records[k] # None
      BY <2>1, <2>3 DEF KeysOn, InMap, MapOf
    <2>5. store'[d].records[k] = None /\ OnFile(store'[d])[k] = None
      BY <1>4, <2>2, <2>4, DeleteDone
    <2> QED BY <2>5 DEF MapOf, FileOf
  <1>8. \A k \in Keys : InMap(k)' = MapOf(store', k) /\ InFile(k)' = FileOf(store', k)
    BY <1>1, SameRoute
  <1>9. batch' \in [Keys -> Maybe]  BY <1>1 DEF Tracked
  <1> HIDE DEF new
  <1>10. \A k \in DOMAIN new : InMap(k)' = new[k] /\ InFile(k)' = new[k]  BY <1>2, <1>7, <1>8
  <1>11. \A k \in Keys \ DOMAIN new : InMap(k)' = InMap(k) /\ InFile(k)' \in {InMap(k), InFile(k)}
    BY <1>6, <1>8
  <1> QED BY <1>1, <1>2, <1>3, <1>9, <1>10, <1>11, OkStep DEF Sounds

\* What a call over the devices leaves behind that stopped at one of them.
LEMMA StoppedStores ==
    ASSUME Tracked, NEW at \in DOMAIN paths, NEW done, NEW left,
           Sound(left, past), \A d \in Devices : Sound(done[d], past)
    PROVE  LET st == StoppedAt(at, done, left)
           IN /\ Sounds(st, past)
              /\ \A d \in Devices : st[d] = (IF d = paths[at] THEN left ELSE st[d])
              /\ \A d \in Devices \ {paths[at]} : st[d] \in {done[d], store[d]}
  <1> DEFINE st == StoppedAt(at, done, left)
  <1>1. \A d \in Devices : /\ d = paths[at] => st[d] = left
                           /\ d # paths[at] => st[d] \in {done[d], store[d]}
    BY DEF StoppedAt
  <1>2. \A d \in Devices : Sound(store[d], past)  BY DEF Tracked
  <1>3. \A d \in Devices : Sound(st[d], past)  BY <1>1, <1>2
  <1>4. \A d \in Devices : st[d] \in Store  BY <1>3 DEF Sound
  <1>5. st \in [Devices -> Store]  BY <1>4 DEF StoppedAt
  <1> QED BY <1>1, <1>3, <1>5 DEF Sounds

LEMMA TrackedDeleteFails ==
    ASSUME Tracked, ~ TornWrites, NEW ks \in SUBSET Keys, DeleteKeysFails(ks) \/ CrashInDelete(ks)
    PROVE  Tracked' /\ Durable!Next
  <1> DEFINE new == Deleted(ks)
  <1>1. /\ Up /\ Unacknowledged(new) /\ paths' = paths /\ batch' = batch
    BY DEF DeleteKeysFails, CrashInDelete
  <1>2. /\ DOMAIN new \in SUBSET Keys /\ new \in [DOMAIN new -> Maybe]
        /\ \A k \in DOMAIN new : new[k] = None
        /\ past' = past
    BY <1>1, DeletedNew
  <1> DEFINE Left(at) == FailedChange(Shrunk(ks, paths[at]), Deletions(ks, paths[at]), TornWrites)
                         \cup InterruptedChange(Shrunk(ks, paths[at]), Deletions(ks, paths[at]), TornWrites)
  <1>3. PICK at \in DOMAIN paths : \E t \in Left(at) :
           \/ store' = StoppedAt(at, Deleting(ks), t) /\ initialized' = initialized
           \/ store' = AllDown(StoppedAt(at, Deleting(ks), t)) /\ initialized' = FALSE
    BY DEF DeleteKeysFails, CrashInDelete
  <1>4. PICK t \in Left(at) :
           \/ store' = StoppedAt(at, Deleting(ks), t) /\ initialized' = initialized
           \/ store' = AllDown(StoppedAt(at, Deleting(ks), t)) /\ initialized' = FALSE
    BY <1>3
  <1> DEFINE st == StoppedAt(at, Deleting(ks), t)
             e == paths[at]
  <1>5. e \in Devices /\ Attached \in SUBSET Devices  BY AttachedDevices
  <1>6. Sound(t, past) /\ Near(Shrunk(ks, e), t)
    <2>1. Sound(Shrunk(ks, e), past) /\ Journals(Shrunk(ks, e), Deletions(ks, e))
      BY <1>5, DeleteDone
    <2> QED BY <2>1, UnfinishedNear
  <1>7. \A d \in Devices : Sound(Deleting(ks)[d], past) /\ Near(Shrunk(ks, d), Deleting(ks)[d])
    BY DeleteDone
  <1>8. /\ Sounds(st, past) /\ \A d \in Devices : d = e => st[d] = t
        /\ \A d \in Devices \ {e} : st[d] \in {Deleting(ks)[d], store[d]}
    BY <1>6, <1>7, StoppedStores
  <1> HIDE DEF st, e
  <1>9. \A d \in Attached : st[d] = store[d] \/ Near(Shrunk(ks, d), st[d])
    BY <1>5, <1>6, <1>7, <1>8
  <1>10. /\ \A k \in DOMAIN new : /\ MapOf(st, k) \in {InMap(k), None}
                                 /\ FileOf(st, k) \in {InMap(k), InFile(k), None}
        /\ \A k \in Keys \ DOMAIN new :
              MapOf(st, k) = InMap(k) /\ FileOf(st, k) \in {InMap(k), InFile(k)}
    BY <1>1, <1>9, DeleteLeaves
  <1>11. \A k \in Keys : DeviceOf(k) \in Devices /\ None \in past[k]  BY <1>1, Routed DEF Up, Tracked
  <1>12. /\ Sounds(store', past)
         /\ \A k \in Keys : FileOf(store', k) = FileOf(st, k) /\ (initialized' => MapOf(store', k) = MapOf(st, k))
    <2>1. CASE store' = st  BY <1>8, <2>1
    <2>2. CASE store' = AllDown(st) /\ initialized' = FALSE
      BY <1>8, <1>11, <2>2, DownSounds
    <2> QED BY <1>4, <2>1, <2>2 DEF st
  <1>13. \A k \in Keys : InMap(k)' = MapOf(store', k) /\ InFile(k)' = FileOf(store', k)
    BY <1>1, SameRoute
  <1>14. batch' \in [Keys -> Maybe] /\ initialized' \in BOOLEAN  BY <1>1, <1>4 DEF Tracked
  <1> HIDE DEF new
  <1>15. \A k \in DOMAIN new : /\ InFile(k)' \in {InMap(k), InFile(k), new[k]}
                               /\ initialized' => InMap(k)' \in {InMap(k), new[k]}
    BY <1>2, <1>10, <1>12, <1>13
  <1>16. \A k \in Keys \ DOMAIN new : /\ InFile(k)' \in {InMap(k), InFile(k)}
                                      /\ initialized' => InMap(k)' = InMap(k)
    BY <1>10, <1>12, <1>13
  <1>17. \A d \in Devices : Sound(store'[d], past')  BY <1>2, <1>12 DEF Sounds
  <1> QED BY <1>1, <1>2, <1>12, <1>14, <1>15, <1>16, <1>17, FailedStep DEF Sounds

\* Each device emptied, with an empty snapshot or its files as they were.
LEMMA ResetLeaves ==
    ASSUME Tracked, Up, NEW st, \A d \in Attached : st[d] = store[d] \/ Near(Emptied(d), st[d])
    PROVE  \A k \in Keys : /\ MapOf(st, k) \in {InMap(k), None}
                           /\ FileOf(st, k) \in {InMap(k), InFile(k), None}
  <1> TAKE k \in Keys
  <1> DEFINE d == DeviceOf(k)
  <1>1. d \in Devices /\ d \in Attached  BY Routed DEF Up
  <1>2. CASE st[d] = store[d]  BY <1>2 DEF MapOf, FileOf, InMap, InFile
  <1>3. CASE Near(Emptied(d), st[d])
    <2>1. Sound(store[d], past) /\ \A j \in Keys : None \in past[j]  BY <1>1 DEF Tracked
    <2>2. Keys \in SUBSET Keys  OBVIOUS
    <2>3. /\ OnFile(Emptied(d)) = OnFile(store[d])
          /\ Emptied(d).records = [j \in Keys |-> IF j \in Keys THEN None ELSE store[d].records[j]]
      BY <2>1, <2>2, DeletedSound DEF Emptied
    <2>4. Emptied(d).records[k] = None  BY <2>3
    <2>5. /\ st[d].records[k] = None
          /\ OnFile(st[d])[k] \in {OnFile(store[d])[k], None}
      BY <1>3, <2>3, <2>4 DEF Near
    <2> QED BY <2>5 DEF MapOf, FileOf, InMap, InFile
  <1> QED BY <1>1, <1>2, <1>3

LEMMA ResetDone ==
    ASSUME Tracked, NEW d \in Devices
    PROVE  /\ Sound(Emptied(d), past)
           /\ Sound(Resetting[d], past) /\ Near(Emptied(d), Resetting[d])
           /\ \A k \in Keys : Resetting[d].records[k] = None /\ OnFile(Resetting[d])[k] = None
           /\ Sound(Renamed(Emptied(d)), past) /\ Near(Emptied(d), Renamed(Emptied(d)))
  <1>1. Sound(store[d], past) /\ \A j \in Keys : None \in past[j]  BY DEF Tracked
  <1>2. Keys \in SUBSET Keys  OBVIOUS
  <1>3. /\ Sound(Emptied(d), past)
        /\ Emptied(d).records = [j \in Keys |-> IF j \in Keys THEN None ELSE store[d].records[j]]
    BY <1>1, <1>2, DeletedSound DEF Emptied
  <1>4. Resetting[d] = Persisted(Emptied(d))  BY DEF Resetting
  <1>5. /\ Sound(Resetting[d], past) /\ Near(Emptied(d), Resetting[d])
        /\ \A k \in Keys : OnFile(Resetting[d])[k] = Emptied(d).records[k]
    BY <1>3, <1>4, PersistedNear
  <1>6. \A k \in Keys : Emptied(d).records[k] = None  BY <1>3
  <1>7. Resetting[d].records = Emptied(d).records  BY <1>5 DEF Near
  <1>8. Sound(Renamed(Emptied(d)), past) /\ Near(Emptied(d), Renamed(Emptied(d)))
    BY <1>3, RenamedNear
  <1> QED BY <1>3, <1>5, <1>6, <1>7, <1>8

LEMMA ResetNew ==
    ASSUME Tracked, Acknowledge(NoRecords) \/ Unacknowledged(NoRecords)
    PROVE  /\ NoRecords \in [Keys -> Maybe] /\ \A k \in Keys : NoRecords[k] = None
           /\ past' = past
  <1>1. NoRecords \in [Keys -> Maybe] /\ DOMAIN NoRecords = Keys /\ \A k \in Keys : NoRecords[k] = None
    BY DEF NoRecords, Maybe
  <1>2. past' = [k \in Keys |-> IF k \in DOMAIN NoRecords THEN past[k] \cup {NoRecords[k]} ELSE past[k]]
    BY DEF Acknowledge, Unacknowledged
  <1>3. past \in [Keys -> SUBSET Maybe] /\ \A k \in Keys : None \in past[k]  BY DEF Tracked
  <1>4. \A k \in Keys : past'[k] = past[k]  BY <1>1, <1>2, <1>3
  <1>5. past' = past  BY <1>2, <1>3, <1>4
  <1> QED BY <1>1, <1>5

LEMMA TrackedReset ==
    ASSUME Tracked, Reset
    PROVE  Tracked' /\ Durable!Next
  <1>1. /\ Up /\ Acknowledge(NoRecords) /\ paths' = paths /\ initialized' = initialized /\ batch' = batch
        /\ store' = [d \in Devices |-> IF d \in Attached THEN Resetting[d] ELSE store[d]]
    BY DEF Reset
  <1>2. /\ NoRecords \in [Keys -> Maybe] /\ \A k \in Keys : NoRecords[k] = None
        /\ past' = past
    BY <1>1, ResetNew
  <1>3. Sounds(store', past')
    <2>1. \A d \in Devices : Sound(Resetting[d], past) /\ Sound(store[d], past)
      BY ResetDone DEF Tracked
    <2>2. \A d \in Devices : Sound(store'[d], past) /\ store'[d] \in Store  BY <1>1, <2>1 DEF Sound
    <2>3. store' \in [Devices -> Store]  BY <1>1, <2>2
    <2> QED BY <1>2, <2>2, <2>3 DEF Sounds
  <1>4. \A k \in Keys : MapOf(store', k) = None /\ FileOf(store', k) = None
    <2> TAKE k \in Keys
    <2>1. DeviceOf(k) \in Devices /\ DeviceOf(k) \in Attached  BY <1>1, Routed DEF Up
    <2>2. store'[DeviceOf(k)] = Resetting[DeviceOf(k)]  BY <1>1, <2>1
    <2> QED BY <2>1, <2>2, ResetDone DEF MapOf, FileOf
  <1>5. \A k \in Keys : InMap(k)' = MapOf(store', k) /\ InFile(k)' = FileOf(store', k)
    BY <1>1, SameRoute
  <1>6. batch' \in [Keys -> Maybe]  BY <1>1 DEF Tracked
  <1>7. \A k \in Keys : InMap(k)' = NoRecords[k] /\ InFile(k)' = NoRecords[k]  BY <1>2, <1>4, <1>5
  <1>8. Keys \in SUBSET Keys /\ Keys \ Keys = {}  OBVIOUS
  <1> QED BY <1>1, <1>2, <1>3, <1>6, <1>7, <1>8, OkStep DEF Sounds

LEMMA TrackedResetFails ==
    ASSUME Tracked, ResetFails \/ CrashInReset
    PROVE  Tracked' /\ Durable!Next
  <1>1. /\ Up /\ Unacknowledged(NoRecords) /\ paths' = paths /\ batch' = batch
    BY DEF ResetFails, CrashInReset
  <1>2. /\ NoRecords \in [Keys -> Maybe] /\ \A k \in Keys : NoRecords[k] = None
        /\ past' = past
    BY <1>1, ResetNew
  <1> DEFINE Left(at) == {Emptied(paths[at]), Renamed(Emptied(paths[at]))}
  <1>3. PICK at \in DOMAIN paths : \E t \in Left(at) :
           \/ store' = StoppedAt(at, Resetting, t) /\ initialized' = initialized
           \/ store' = AllDown(StoppedAt(at, Resetting, t)) /\ initialized' = FALSE
    BY DEF ResetFails, CrashInReset
  <1>4. PICK t \in Left(at) :
           \/ store' = StoppedAt(at, Resetting, t) /\ initialized' = initialized
           \/ store' = AllDown(StoppedAt(at, Resetting, t)) /\ initialized' = FALSE
    BY <1>3
  <1> DEFINE st == StoppedAt(at, Resetting, t)
             e == paths[at]
  <1>5. e \in Devices /\ Attached \in SUBSET Devices  BY AttachedDevices
  <1>6. Sound(t, past) /\ Near(Emptied(e), t)
    BY <1>5, ResetDone, NearItself
  <1>7. \A d \in Devices : Sound(Resetting[d], past) /\ Near(Emptied(d), Resetting[d])
    BY ResetDone
  <1>8. /\ Sounds(st, past) /\ \A d \in Devices : d = e => st[d] = t
        /\ \A d \in Devices \ {e} : st[d] \in {Resetting[d], store[d]}
    BY <1>6, <1>7, StoppedStores
  <1> HIDE DEF st, e
  <1>9. \A d \in Attached : st[d] = store[d] \/ Near(Emptied(d), st[d])
    BY <1>5, <1>6, <1>7, <1>8
  <1>10. \A k \in Keys : /\ MapOf(st, k) \in {InMap(k), None}
                         /\ FileOf(st, k) \in {InMap(k), InFile(k), None}
    BY <1>1, <1>9, ResetLeaves
  <1>11. \A k \in Keys : DeviceOf(k) \in Devices /\ None \in past[k]  BY <1>1, Routed DEF Up, Tracked
  <1>12. /\ Sounds(store', past)
         /\ \A k \in Keys : FileOf(store', k) = FileOf(st, k) /\ (initialized' => MapOf(store', k) = MapOf(st, k))
    <2>1. CASE store' = st  BY <1>8, <2>1
    <2>2. CASE store' = AllDown(st) /\ initialized' = FALSE
      BY <1>8, <1>11, <2>2, DownSounds
    <2> QED BY <1>4, <2>1, <2>2 DEF st
  <1>13. \A k \in Keys : InMap(k)' = MapOf(store', k) /\ InFile(k)' = FileOf(store', k)
    BY <1>1, SameRoute
  <1>14. batch' \in [Keys -> Maybe] /\ initialized' \in BOOLEAN  BY <1>1, <1>4 DEF Tracked
  <1>15. \A k \in Keys : /\ InFile(k)' \in {InMap(k), InFile(k), NoRecords[k]}
                         /\ initialized' => InMap(k)' \in {InMap(k), NoRecords[k]}
    BY <1>2, <1>10, <1>12, <1>13
  <1>16. \A d \in Devices : Sound(store'[d], past')  BY <1>2, <1>12 DEF Sounds
  <1>17. Keys \in SUBSET Keys /\ Keys \ Keys = {}  OBVIOUS
  <1> QED BY <1>1, <1>2, <1>12, <1>14, <1>15, <1>16, <1>17, FailedStep DEF Sounds

-----------------------------------------------------------------------------
(* Starts, stops, crashes, and the set of devices.                         *)

LEMMA TrackedStart ==
    ASSUME Tracked, Start
    PROVE  Tracked' /\ Durable!Next
  <1>1. /\ ~ initialized /\ paths # <<>> /\ initialized' = TRUE
        /\ paths' = paths /\ batch' = batch /\ UNCHANGED history
    BY DEF Start
  <1>2. PICK c : /\ \A d \in Attached : c[d] \in Loads(store[d])
                 /\ store' = [d \in Devices |-> IF d \in Attached THEN Started(store[d], c[d]) ELSE store[d]]
    BY DEF Start
  <1>3. Attached \in SUBSET Devices /\ \A d \in Devices : Sound(store[d], past)
    BY AttachedDevices DEF Tracked
  <1>4. \A d \in Attached : /\ Sound(Started(store[d], c[d]), past)
                            /\ OnFile(Started(store[d], c[d])) = OnFile(store[d])
                            /\ Started(store[d], c[d]).records = OnFile(store[d])
    BY <1>2, <1>3, StartedSound
  <1>5. \A d \in Devices : Sound(store'[d], past)  BY <1>2, <1>3, <1>4
  <1>6. store' \in [Devices -> Store]
    <2>1. \A d \in Devices : store'[d] \in Store  BY <1>5 DEF Sound
    <2> QED BY <1>2, <2>1
  <1>7. \A k \in Keys : FileOf(store', k) = InFile(k) /\ MapOf(store', k) = InFile(k)
    <2> TAKE k \in Keys
    <2>1. DeviceOf(k) \in Devices /\ DeviceOf(k) \in Attached  BY <1>1, Routed
    <2>2. store'[DeviceOf(k)] = Started(store[DeviceOf(k)], c[DeviceOf(k)])  BY <1>2, <2>1
    <2> QED BY <1>4, <2>1, <2>2 DEF FileOf, MapOf, InFile
  <1>8. \A k \in Keys : InMap(k)' = MapOf(store', k) /\ InFile(k)' = FileOf(store', k)
    BY <1>1, SameRoute
  <1>9. \A k \in Keys : /\ InFile(k)' \in (IF initialized THEN {InMap(k), InFile(k)} ELSE {InFile(k)})
                        /\ initialized' => InMap(k)' = InFile(k)'
    BY <1>1, <1>7, <1>8
  <1>10. batch' \in [Keys -> Maybe]  BY <1>1 DEF Tracked
  <1> QED BY <1>1, <1>5, <1>6, <1>9, <1>10, RestartStep

\* The process ends with each device as it was or nearer to its map.
LEMMA DownStep ==
    ASSUME Tracked, initialized, paths # <<>>, initialized' = FALSE, batch' \in [Keys -> Maybe],
           UNCHANGED <<paths, history>>,
           NEW st, Sounds(st, past), \A d \in Attached : Near(store[d], st[d]),
           store' = AllDown(st)
    PROVE  Tracked' /\ Durable!Next
  <1>1. \A k \in Keys : DeviceOf(k) \in Devices /\ DeviceOf(k) \in Attached /\ None \in past[k]
    BY Routed DEF Tracked
  <1>2. Sounds(store', past) /\ \A k \in Keys : FileOf(store', k) = FileOf(st, k)
    BY <1>1, DownSounds
  <1>3. \A k \in Keys : FileOf(st, k) \in {InMap(k), InFile(k)}
    BY <1>1 DEF Near, FileOf, InMap, InFile, MapOf
  <1>4. \A k \in Keys : InFile(k)' = FileOf(store', k)  BY SameRoute
  <1>5. \A k \in Keys : /\ InFile(k)' \in (IF initialized THEN {InMap(k), InFile(k)} ELSE {InFile(k)})
                        /\ initialized' => InMap(k)' = InFile(k)'
    BY <1>2, <1>3, <1>4
  <1> QED BY <1>2, <1>5, RestartStep DEF Sounds

\* Without devices nothing is found before or after.
LEMMA EmptyStep ==
    ASSUME Tracked, paths = <<>>, UNCHANGED <<paths, history>>, initialized' \in BOOLEAN,
           batch' \in [Keys -> Maybe], store' \in [Devices -> Store],
           \A d \in Devices : Sound(store'[d], past)
    PROVE  Tracked' /\ Durable!Next
  <1>1. unsure' = unsure /\ past' = past /\ acked' = acked /\ paths' = <<>>  BY DEF history
  <1>2. \A k \in Keys : Found(k) = None /\ Found(k)' = None  BY <1>1 DEF Found
  <1>3. Tracked'  BY <1>1, <1>2 DEF Tracked, Up
  <1>4. Durable!Restart  BY <1>1, <1>2 DEF Durable!Restart
  <1> QED BY <1>3, <1>4 DEF Durable!Next

LEMMA TrackedCrash ==
    ASSUME Tracked, Crash \/ CrashInStop
    PROVE  Tracked' /\ Durable!Next
  <1>1. /\ initialized /\ initialized' = FALSE /\ UNCHANGED <<paths, history>>
        /\ batch' \in [Keys -> Maybe]
    BY DEF Crash, CrashInStop, Up, NoRecords, Maybe, Tracked
  <1>2. Sounds(store, past) /\ Attached \in SUBSET Devices /\ \A k \in Keys : None \in past[k]
    BY AttachedDevices DEF Tracked, Sounds
  <1>3. CASE Crash
    <2>1. store' = AllDown(store)  BY <1>3 DEF Crash
    <2>2. CASE paths # <<>>
      <3>1. \A d \in Attached : Near(store[d], store[d])  BY NearItself
      <3> QED BY <1>1, <1>2, <2>1, <2>2, <3>1, DownStep
    <2>3. CASE paths = <<>>
      <3>1. Sounds(store', past)  BY <1>2, <2>1, DownSounds
      <3> QED BY <1>1, <2>3, <3>1, EmptyStep DEF Sounds
    <2> QED BY <2>2, <2>3
  <1>4. CASE CrashInStop
    <2> DEFINE done == [d \in Devices |-> Persisted(store[d])]
    <2>1. PICK at \in DOMAIN paths : \E t \in {store[paths[at]], Renamed(store[paths[at]])} :
             store' = AllDown(StoppedAt(at, done, t))
      BY <1>4 DEF CrashInStop
    <2>2. PICK t \in {store[paths[at]], Renamed(store[paths[at]])} :
             store' = AllDown(StoppedAt(at, done, t))
      BY <2>1
    <2>3. paths[at] \in Devices  BY <1>2, AttachedDevices
    <2>4. \A d \in Devices : Sound(done[d], past) /\ Near(store[d], done[d])
      BY <1>2, PersistedNear DEF Sounds
    <2>5. Sound(t, past) /\ Near(store[paths[at]], t)
      BY <1>2, <2>3, RenamedNear, NearItself DEF Sounds
    <2> DEFINE st == StoppedAt(at, done, t)
               e == paths[at]
    <2> HIDE DEF done
    <2>6. /\ Sounds(st, past) /\ \A d \in Devices : d = e => st[d] = t
          /\ \A d \in Devices \ {e} : st[d] \in {done[d], store[d]}
      BY <2>4, <2>5, StoppedStores
    <2> HIDE DEF st, e
    <2>7. \A d \in Devices : Near(store[d], store[d])  BY NearItself
    <2>8. Near(store[e], t)  BY <2>5 DEF e
    <2>9. \A d \in Attached : Near(store[d], st[d])
      BY <1>2, <2>4, <2>6, <2>7, <2>8
    <2>10. paths # <<>> /\ store' = AllDown(st)  BY <1>4, <2>2 DEF CrashInStop, Up, st
    <2> QED BY <1>1, <2>6, <2>9, <2>10, DownStep
  <1> QED BY <1>3, <1>4

LEMMA TrackedStop ==
    ASSUME Tracked, Stop
    PROVE  Tracked' /\ Durable!Next
  <1>1. /\ initialized /\ initialized' = FALSE /\ UNCHANGED <<paths, history>>
        /\ batch' \in [Keys -> Maybe]
    BY DEF Stop, Tracked
  <1>2. PICK failing \in SUBSET Attached :
           store' = [d \in Devices |->
             IF d \in Attached \ failing THEN Down(Persisted(store[d])) ELSE Down(store[d])]
    BY DEF Stop
  <1> DEFINE st == [d \in Devices |-> IF d \in Attached \ failing THEN Persisted(store[d]) ELSE store[d]]
  <1>3. store' = AllDown(st)  BY <1>2 DEF AllDown
  <1>4. \A d \in Devices : /\ Sound(store[d], past) /\ Near(store[d], store[d])
                           /\ Sound(Persisted(store[d]), past) /\ Near(store[d], Persisted(store[d]))
    BY PersistedNear, NearItself DEF Tracked
  <1>5. \A d \in Devices : Sound(st[d], past) /\ Near(store[d], st[d])  BY <1>4
  <1>6. st \in [Devices -> Store]
    <2>1. \A d \in Devices : st[d] \in Store  BY <1>5 DEF Sound
    <2> QED BY <2>1
  <1> HIDE DEF st
  <1>7. Sounds(st, past) /\ \A d \in Attached : Near(store[d], st[d])
    BY <1>5, <1>6, AttachedDevices DEF Sounds
  <1>8. CASE paths # <<>>  BY <1>1, <1>3, <1>7, <1>8, DownStep
  <1>9. CASE paths = <<>>
    <2>1. Sounds(store', past)  BY <1>3, <1>7, DownSounds DEF Tracked
    <2> QED BY <1>1, <1>9, <2>1, EmptyStep DEF Sounds
  <1> QED BY <1>8, <1>9

LEMMA TrackedDevices ==
    ASSUME Tracked, \/ \E d \in Devices : AddDevice(d)
                    \/ \E at \in DOMAIN paths : RemoveDevice(at)
    PROVE  Tracked' /\ Durable!Next
  <1>1. Reshaped /\ initialized' = initialized  BY DEF AddDevice, RemoveDevice
  <1>2. /\ paths \in Seq(Devices) /\ store \in [Devices -> Store]
        /\ \A d \in Devices : Sound(store[d], past) /\ store[d] \in Store
        /\ \A k \in Keys : None \in past[k]
    BY DEF Tracked
  <1>3. /\ paths' \in Seq(Devices) /\ store' \in [Devices -> Store]
        /\ \A d \in Devices : Sound(store'[d], past)
    <2>1. ASSUME NEW d \in Devices, AddDevice(d)
          PROVE  /\ paths' \in Seq(Devices) /\ store' \in [Devices -> Store]
                 /\ \A e \in Devices : Sound(store'[e], past)
      <3>1. paths' \in Seq(Devices)  BY <1>2, <2>1 DEF AddDevice
      <3>2. CASE initialized
        <4>1. PICK c \in Loads(store[d]) : store' = [store EXCEPT ![d] = Started(@, c)]
          BY <2>1, <3>2 DEF AddDevice
        <4>2. Sound(Started(store[d], c), past)  BY <1>2, StartedSound
        <4>3. Started(store[d], c) \in Store  BY <4>2 DEF Sound
        <4> QED BY <1>2, <3>1, <4>1, <4>2, <4>3
      <3>3. CASE ~ initialized
        <4>1. store' = store  BY <2>1, <3>3 DEF AddDevice
        <4> QED BY <1>2, <3>1, <4>1
      <3> QED BY <3>2, <3>3
    <2>2. ASSUME NEW at \in DOMAIN paths, RemoveDevice(at)
          PROVE  /\ paths' \in Seq(Devices) /\ store' \in [Devices -> Store]
                 /\ \A e \in Devices : Sound(store'[e], past)
      <3>1. store' = [store EXCEPT ![paths[at]] = Down(@)] /\ paths' = RemoveAt(paths, at)
        BY <2>2 DEF RemoveDevice
      <3>2. paths[at] \in Devices  BY <1>2
      <3>3. Sound(Down(store[paths[at]]), past)  BY <1>2, <3>2, DownSound
      <3>4. Down(store[paths[at]]) \in Store  BY <3>3 DEF Sound
      <3>5. paths' \in Seq(Devices)
        <4>1. at \in 1 .. Len(paths) /\ Len(paths) \in Nat  BY <1>2
        <4>2. /\ SubSeq(paths, 1, at - 1) \in Seq(Devices)
              /\ SubSeq(paths, at + 1, Len(paths)) \in Seq(Devices)
          BY <1>2, <4>1
        <4> QED BY <3>1, <4>2 DEF RemoveAt
      <3> QED BY <1>2, <3>1, <3>2, <3>3, <3>4, <3>5
    <2> QED BY <2>1, <2>2
  <1> QED BY <1>1, <1>3, ReshapedStep

-----------------------------------------------------------------------------
(* The specification.                                                      *)

LEMMA InitTracked ==
    ASSUME Init
    PROVE  Tracked /\ Durable!Init
  <1>1. /\ paths = <<CHOOSE d \in Devices : TRUE>> /\ initialized = FALSE
        /\ store = [d \in Devices |-> NewStore] /\ batch = NoRecords
        /\ acked = NoRecords /\ unsure = [k \in Keys |-> {}] /\ past = [k \in Keys |-> {None}]
    BY DEF Init
  <1>2. paths \in Seq(Devices) /\ paths # <<>>
    <2>1. (CHOOSE d \in Devices : TRUE) \in Devices  BY DevicesAssumption
    <2> QED BY <1>1, <2>1
  <1>3. \A k \in Keys : NoRecords[k] = None  BY DEF NoRecords
  <1>4. NoRecords \in Contents /\ NoRecords \in [Keys -> Maybe]  BY DEF NoRecords, Contents, Maybe
  <1>5. /\ NewStore \in Store
        /\ NewStore.journal = <<>> /\ NewStore.records = NoRecords /\ NewStore.snapshot = NoRecords
    BY <1>4 DEF NewStore, Store
  <1>6. Sound(NewStore, past)  BY <1>1, <1>3, <1>5 DEF Sound, Whole
  <1>7. Files  BY <1>1, <1>2, <1>6 DEF Files
  <1>8. \A k \in Keys : Found(k) = None
    BY <1>1, <1>7, FoundIs DEF Finds
  <1>9. past \in [Keys -> SUBSET Maybe] /\ \A k \in Keys : None \in past[k]  BY <1>1 DEF Maybe
  <1>10. \A k \in Keys : acked[k] = None  BY <1>1, <1>3
  <1>11. Tracked
    BY <1>1, <1>2, <1>4, <1>5, <1>6, <1>8, <1>9, <1>10 DEF Tracked, Up
  <1>12. Durable!Init  BY <1>1, <1>8 DEF Durable!Init
  <1> QED BY <1>11, <1>12

LEMMA StepTracked ==
    ASSUME ~ TornWrites, Tracked, [Next]_vars
    PROVE  Tracked' /\ [Durable!Next]_(Durable!vars)
  <1>1. ASSUME UNCHANGED <<paths, initialized, store, history>>, batch' \in [Keys -> Maybe]
        PROVE  Tracked' /\ UNCHANGED Durable!vars
    <2>1. acked' = acked /\ unsure' = unsure /\ past' = past  BY <1>1 DEF history
    <2>2. \A k \in Keys : /\ Found(k)' = Found(k) /\ InMap(k)' = InMap(k) /\ InFile(k)' = InFile(k)
      BY <1>1 DEF Found, InMap, InFile, MapOf, FileOf, DeviceOf, StorageIndex
    <2>3. Up' = Up  BY <1>1 DEF Up
    <2> QED BY <1>1, <2>1, <2>2, <2>3 DEF Tracked, Durable!vars
  <1>2. ASSUME NEW k \in Keys, NEW v \in Values \cup {None},
               Put(k, v) \/ PutFails(k, v) \/ CrashInPut(k, v)
        PROVE  Tracked' /\ Durable!Next
    BY <1>2, TrackedPut, TrackedPutFails DEF Maybe
  <1>3. ASSUME NEW new \in [Keys -> Values \cup {None}], BeginBatch(new)
        PROVE  Tracked' /\ UNCHANGED Durable!vars
    BY <1>1, <1>3 DEF BeginBatch, Maybe
  <1>4. ASSUME NEW ks \in SUBSET Keys, DeleteKeys(ks) \/ DeleteKeysFails(ks) \/ CrashInDelete(ks)
        PROVE  Tracked' /\ Durable!Next
    BY <1>4, TrackedDelete, TrackedDeleteFails
  <1>5. CASE UNCHANGED vars
    <2>1. batch' \in [Keys -> Maybe]  BY <1>5 DEF vars, Tracked
    <2> QED BY <1>1, <1>5, <2>1 DEF vars
  <1>6. CASE Start  BY <1>6, TrackedStart
  <1>7. CASE Stop  BY <1>7, TrackedStop
  <1>8. CASE Crash \/ CrashInStop  BY <1>8, TrackedCrash
  <1>9. CASE Reset  BY <1>9, TrackedReset
  <1>10. CASE ResetFails \/ CrashInReset  BY <1>10, TrackedResetFails
  <1>11. CASE (\E d \in Devices : AddDevice(d)) \/ (\E at \in DOMAIN paths : RemoveDevice(at))
    BY <1>11, TrackedDevices
  <1> QED BY <1>2, <1>3, <1>4, <1>5, <1>6, <1>7, <1>8, <1>9, <1>10, <1>11 DEF Next

\* Whatever devices come and go and wherever a call fails or the process ends, in
\* an append, between the rename of a snapshot and the removal of its journal, or
\* half-way through the devices: what StorageEngineMultiSsd shows is what
\* DurableStore allows. Appends are taken to happen whole or not at all.
THEOREM DevicesAreDurable ==
    ASSUME ~ TornWrites
    PROVE  Spec => ImplementsDurableStore
  <1>1. Init => Tracked /\ Durable!Init  BY InitTracked
  <1>2. Tracked /\ [Next]_vars => Tracked' /\ [Durable!Next]_(Durable!vars)  BY StepTracked
  <1> QED BY <1>1, <1>2, PTL DEF Spec, ImplementsDurableStore, Durable!Spec

\* Under the same assumption an engine that is up finds, for every key, what the
\* last successful call left or what an unsuccessful one since may have left:
\* the promise that replay_journal breaks once an append was torn.
THEOREM AcknowledgedIsKept ==
    ASSUME ~ TornWrites
    PROVE  Spec => []NothingAcknowledgedIsLost
  <1>1. Init => Tracked  BY InitTracked
  <1>2. Tracked /\ [Next]_vars => Tracked'  BY StepTracked
  <1>3. Tracked => NothingAcknowledgedIsLost  BY DEF Tracked, NothingAcknowledgedIsLost
  <1> QED BY <1>1, <1>2, <1>3, PTL DEF Spec
=============================================================================
