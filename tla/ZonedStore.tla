----------------------------- MODULE ZonedStore -----------------------------
(***************************************************************************)
(* The zoned store: ZoneManager over a ZoneDevice, the SsdIndex that says   *)
(* where a record lies, and ZoneGcWorker, which reclaims whole groups. In  *)
(* the only mode implemented a group is one zone:                          *)
(*                                                                         *)
(*   header | data ... | metadata log | padding | footer                   *)
(*                                                                         *)
(* Lengths are in units of which PageSize make a page. Header, footer and  *)
(* log take one page each. A record is [key, ver, size]; a logged record    *)
(* also has the offset its packed pointer holds. The caller is the one the *)
(* repository's own tests write: a batch of records becomes one padded data *)
(* append, its log is serialised with their pointers, and the group is      *)
(* finished, as a group nothing was written to may be. The device performs *)
(* its calls, and collections are lossy, the only kind find_gc_group asks  *)
(* for.                                                                    *)
(*                                                                         *)
(* finish_group files the group as awaiting reclaim before it looks for a  *)
(* free one, and when there is none fails with the group still current.    *)
(* From then on the group that takes appends may be collected under its    *)
(* writer and given out twice. `crowded` is history: this has happened     *)
(* since the manager was made; `lost` the keys whose records were thrown   *)
(* away by it, not by a collection that looked at their log.               *)
(*                                                                         *)
(* "Fault:" marks a broken variant of the definition after it.             *)
(***************************************************************************)
EXTENDS Integers, Sequences, SequencesExt

CONSTANTS Keys, None,
          Groups,      \* group ids, 0 .. n - 1
          Batches,     \* what a caller writes at once: sequences of [key, size]
          PageSize, ZonePages,
          MaxWrites,   \* bound on the batches written
          MaxRestarts, \* bound on the restarts
          MaxGarbage   \* bound on the garbage a group is told of

VARIABLES zone,     \* zone[g]: [pointer (pages), status]
          group,    \* group[g]: [meta, garbage]; meta is the log's page, or 0
          device,   \* device[g]: [header, footer, records, log], what a zone holds
          free, gc, recovery, current,
          ensured, appendable,
          index,    \* index[k]: [group, at, size, ver, state], or None
          survivors,\* records handed back by a collection, to be written again
          crowded, lost,
          writes, restarts

vars == <<zone, group, device, free, gc, recovery, current, ensured, appendable, index,
          survivors, crowded, lost, writes, restarts>>
history == <<crowded, lost>>
manager == <<zone, group, device, free, gc, recovery, current, ensured, appendable>>

EmptyZone == [pointer |-> 0, status |-> "empty"]
BlankGroup == [meta |-> 0, garbage |-> 0]
BlankZone == [header |-> FALSE, footer |-> 0, records |-> <<>>, log |-> <<>>]
AllGroups == SetToSortSeq(Groups, <)

\* open_next_group on the lists given: the first free group is reset in memory
\* and gets its header.
OpenNext(z, d, list) ==
    /\ current' = Head(list)
    /\ free' = Tail(list)
    /\ zone' = [z EXCEPT ![Head(list)] = [pointer |-> 1, status |-> "open"]]
    /\ device' = [d EXCEPT ![Head(list)] = [BlankZone EXCEPT !.header = TRUE]]
    /\ appendable' = TRUE

\* A new manager on a device whose contents are not reused.
Init ==
    /\ zone = [[g \in Groups |-> EmptyZone] EXCEPT ![0] = [pointer |-> 1, status |-> "open"]]
    /\ group = [g \in Groups |-> BlankGroup]
    /\ device = [[g \in Groups |-> BlankZone] EXCEPT ![0].header = TRUE]
    /\ free = Tail(AllGroups) /\ gc = {} /\ recovery = <<>> /\ current = 0
    /\ ensured = FALSE /\ appendable = TRUE
    /\ index = [k \in Keys |-> None]
    /\ survivors = <<>>
    /\ crowded = FALSE /\ lost = {}
    /\ writes = 0 /\ restarts = 0

-----------------------------------------------------------------------------
(* SsdIndex.                                                               *)

Known(k) == index[k] # None

\* get answers a soft-deleted record by making it live again.
Gotten(k) ==
    IF Known(k) /\ index[k].state = "softDel" THEN [index EXCEPT ![k].state = "normal"] ELSE index

Get(k) == Known(k) /\ index' = Gotten(k) /\ UNCHANGED <<manager, survivors, history, writes, restarts>>
Pin(k) ==
    /\ Known(k) /\ index[k].state # "pinned"
    /\ index' = [index EXCEPT ![k].state = "pinned"]
    /\ UNCHANGED <<manager, survivors, history, writes, restarts>>
Unpin(k) ==
    /\ Known(k) /\ index[k].state = "pinned"
    /\ index' = [index EXCEPT ![k].state = "normal"]
    /\ UNCHANGED <<manager, survivors, history, writes, restarts>>

\* soft_delete leaves a pinned record alone. The space is given up with
\* trim_bytes.
SoftDelete(k) ==
    /\ Known(k) /\ index[k].state = "normal"
    /\ group[index[k].group].garbage < MaxGarbage
    /\ index' = [index EXCEPT ![k].state = "softDel"]
    /\ group' = [group EXCEPT ![index[k].group].garbage = @ + index[k].size]
    /\ UNCHANGED <<zone, device, free, gc, recovery, current, ensured, appendable, survivors,
                   history, writes, restarts>>

-----------------------------------------------------------------------------
(* Writing a group.                                                        *)

Total(batch) == FoldSeq(LAMBDA rec, n : rec.size + n, 0, batch)
PagesFor(units) == (units + PageSize - 1) \div PageSize
Avail(g) == ZonePages - zone[g].pointer

\* ensure_available_space: the footer must still fit.
EnsureAvailableSpace(pages) == pages <= Avail(current) - 1

\* Where serialize_oplog says record i of a batch lies whose data began at
\* `base`: one after the other, behind the batch's own length field.
OffsetOf(batch, i, base) == base + 1 + Total(SubSeq(batch, 1, i - 1))

\* The index after the records of a group were put in it, one after the other.
Indexed(idx, g, recs) ==
    [k \in Keys |->
        IF \A i \in DOMAIN recs : recs[i].key # k THEN idx[k]
        ELSE LET rec == recs[SelectLastInSeq(recs, LAMBDA r : r.key = k)]
             IN [group |-> g, at |-> rec.at, size |-> rec.size, ver |-> rec.ver, state |-> "softDel"]]

\* append of the data: the batch, padded to whole pages. Its records are put
\* in the index as they are logged, in the state zero, soft-deleted.
AppendData(batch) ==
    LET pages == PagesFor(Total(batch) + 1)
        base == zone[current].pointer * PageSize
        logged == [i \in DOMAIN batch |->
                     [key |-> batch[i].key, size |-> batch[i].size, ver |-> batch[i].ver,
                      at |-> OffsetOf(batch, i, base)]]
    IN /\ device[current].records = <<>>
       /\ EnsureAvailableSpace(pages + 1)
       /\ ensured' = TRUE
       /\ zone' = [zone EXCEPT ![current] = [pointer |-> @.pointer + pages, status |-> "open"]]
       /\ device' = [device EXCEPT ![current].records = logged]
       /\ index' = Indexed(index, current, logged)
       /\ lost' = {k \in lost : \A i \in DOMAIN batch : batch[i].key # k}
       /\ UNCHANGED <<group, free, gc, recovery, current, appendable, crowded, restarts>>

\* A caller's batch. Its versions are new.
WriteBatch(batch) ==
    /\ writes < MaxWrites /\ survivors = <<>>
    /\ AppendData([i \in DOMAIN batch |->
                     [key |-> batch[i].key, size |-> batch[i].size, ver |-> writes + 1]])
    /\ writes' = writes + 1
    /\ UNCHANGED survivors

\* What a collection handed back is written like any other batch.
Rewrite ==
    /\ survivors # <<>>
    /\ AppendData(survivors)
    /\ survivors' = <<>>
    /\ UNCHANGED writes

\* seal_current_zone: padding up to the footer, which says where the log is.
SealedZone(d, g, log) == [d EXCEPT ![g].log = log, ![g].footer = zone[g].pointer]

\* append of the metadata log, which seals the zone. A group takes one.
AppendMeta ==
    /\ appendable /\ ensured /\ device[current].records # <<>>
    /\ group' = [group EXCEPT ![current].meta = zone[current].pointer]
    /\ device' = SealedZone(device, current, device[current].records)
    /\ zone' = [zone EXCEPT ![current] = [pointer |-> ZonePages, status |-> "full"]]
    /\ appendable' = FALSE
    /\ UNCHANGED <<free, gc, recovery, current, ensured, index, survivors, history, writes, restarts>>

KeysIn(g) == {k \in Keys : Known(k) /\ index[k].group = g}

\* finish_group: the group awaits reclaim, the next free one is opened. With
\* none free the call fails, after the first half, and may be made again. Data
\* is logged before its group is finished; a group finished empty counts as a
\* batch written.
FinishGroup ==
    /\ device[current].records # <<>> => device[current].log # <<>>
    /\ LET idle == device[current].records = <<>> /\ current \notin gc
       IN /\ idle => writes < MaxWrites
          /\ writes' = IF idle THEN writes + 1 ELSE writes
    /\ ensured' = FALSE
    /\ gc' = gc \cup {current}
    /\ crowded' = (crowded \/ free = <<>>)
    /\ lost' = IF crowded /\ free # <<>> THEN lost \cup KeysIn(Head(free)) ELSE lost
    /\ LET closed == [zone EXCEPT ![current].status = "full"]
       IN IF free # <<>> THEN OpenNext(closed, device, free)
          ELSE zone' = closed /\ appendable' = TRUE /\ UNCHANGED <<free, current, device>>
    /\ UNCHANGED <<group, recovery, index, survivors, restarts>>

-----------------------------------------------------------------------------
(* Reclaim.                                                                *)

\* find_gc_group: the group with the most garbage. A device of at most ten
\* zones is always short of space.
GcGroups == {g \in gc : \A h \in gc : group[h].garbage <= group[g].garbage}

\* construct_single_record: the pages the pointer's size speaks of are read
\* from the start of the page the record begins in.
Readable(rec) == (rec.at % PageSize) + rec.size <= PagesFor(rec.size) * PageSize

\* survives, lossily: only a pinned record does. process_metadata looks the key
\* up with get, and the state it sees is the one after.
Survives(k) == Gotten(k)[k].state = "pinned"

\* process_metadata over the log of group g: what leaves the index, and what is
\* handed back. The index is asked by key, whichever group it points to.
Kept(log) == SelectSeq(log, LAMBDA rec : Known(rec.key) /\ Survives(rec.key) /\ Readable(rec))
DroppedKeys(log) ==
    {log[i].key : i \in {j \in DOMAIN log : Known(log[j].key)
                                            /\ ~ (Survives(log[j].key) /\ Readable(log[j]))}}

\* Fault: the group is freed without leaving the reclaim list.
FreedButFiled(g) ==
    /\ device' = [device EXCEPT ![g] = BlankZone]
    /\ zone' = [zone EXCEPT ![g] = EmptyZone]
    /\ group' = [group EXCEPT ![g] = BlankGroup]
    /\ free' = Append(free, g)
    /\ UNCHANGED gc

\* reset_group
ResetGroup(g) ==
    /\ gc' = gc \ {g}
    /\ device' = [device EXCEPT ![g] = BlankZone]
    /\ zone' = [zone EXCEPT ![g] = EmptyZone]
    /\ group' = [group EXCEPT ![g] = BlankGroup]
    /\ free' = Append(free, g)

\* Fault: the group is reset before its log is looked at.
CollectBlindly(g) ==
    /\ g \in GcGroups /\ survivors = <<>>
    /\ ResetGroup(g)
    /\ UNCHANGED <<recovery, current, ensured, appendable, index, survivors, history, writes, restarts>>

\* collect. A pinned record that was logged twice is handed back twice, and a
\* record dropped meanwhile is not looked for again.
Collect(g) ==
    /\ g \in GcGroups /\ survivors = <<>>
    /\ LET log == IF group[g].meta = 0 THEN <<>> ELSE device[g].log
           dropped == DroppedKeys(log)
       IN /\ index' = [k \in Keys |-> IF k \in dropped THEN None ELSE index[k]]
          /\ survivors' = [i \in DOMAIN Kept(log) |->
                             [key |-> Kept(log)[i].key, size |-> Kept(log)[i].size,
                              ver |-> Kept(log)[i].ver]]
    /\ lost' = IF crowded /\ g = current THEN lost \cup KeysIn(g) ELSE lost
    /\ ResetGroup(g)
    /\ UNCHANGED <<recovery, current, ensured, appendable, crowded, writes, restarts>>

-----------------------------------------------------------------------------
(* Restart.                                                                *)

\* pick_recoverable_groups: a header and a footer that points at a log.
Recoverable(g) == device[g].header /\ device[g].footer > 0

\* A new manager that reuses the device. With nothing to recover the device is
\* wiped; with nothing free the first recoverable group is given up.
Restart ==
    /\ restarts < MaxRestarts
    /\ restarts' = restarts + 1
    /\ gc' = {} /\ ensured' = FALSE /\ survivors' = <<>> /\ crowded' = FALSE /\ lost' = {}
    /\ index' = [k \in Keys |-> None]
    /\ LET found == SelectSeq(AllGroups, Recoverable)
           rest == SelectSeq(AllGroups, LAMBDA g : ~ Recoverable(g))
           empty == [g \in Groups |-> EmptyZone]
           metas == [g \in Groups |-> IF Recoverable(g)
                                      THEN [meta |-> device[g].footer, garbage |-> 0] ELSE BlankGroup]
       IN IF found = <<>>
          THEN /\ OpenNext(empty, [g \in Groups |-> BlankZone], AllGroups)
               /\ recovery' = <<>> /\ group' = metas
          ELSE IF rest = <<>>
          THEN /\ OpenNext(empty, [device EXCEPT ![Head(found)] = BlankZone], <<Head(found)>>)
               /\ recovery' = Tail(found) /\ group' = metas
          ELSE /\ OpenNext(empty, device, rest)
               /\ recovery' = found /\ group' = metas
    /\ UNCHANGED writes

\* recover: the logs are replayed in the order of the group ids, and a record
\* takes its key's place in the index. What is not live is garbage.
Recover ==
    /\ recovery # <<>>
    /\ index' = FoldLeft(LAMBDA idx, g : Indexed(idx, g, device[g].log), index, recovery)
    /\ group' = [g \in Groups |->
                   IF g \notin Range(recovery) THEN group[g]
                   ELSE [group[g] EXCEPT !.garbage = ZonePages * PageSize - Total(device[g].log)]]
    /\ gc' = gc \cup Range(recovery)
    /\ recovery' = <<>>
    /\ UNCHANGED <<zone, device, free, current, ensured, appendable, survivors, history, writes, restarts>>

Next ==
    \/ \E k \in Keys : Get(k) \/ Pin(k) \/ Unpin(k) \/ SoftDelete(k)
    \/ \E b \in Batches : WriteBatch(b)
    \/ Rewrite \/ AppendMeta \/ FinishGroup
    \/ \E g \in Groups : Collect(g)
    \/ Restart \/ Recover

Spec == Init /\ [][Next]_vars

-----------------------------------------------------------------------------
(* What is claimed of it.                                                  *)

\* Every group is filed somewhere, and in one place: free, awaiting reclaim,
\* awaiting recovery, or taking appends. None is lost, and none that takes appends
\* can be reset under its writer (finish_group, reset_group,
\* pick_recoverable_groups). Only once finish_group has found no group free may a
\* group be in several places.
GroupsFiledOnce ==
    /\ crowded \/ IsInjective(free)
    /\ IsInjective(recovery)
    /\ \A g \in Groups :
         LET places == (IF g \in gc THEN 1 ELSE 0) + (IF g = current THEN 1 ELSE 0)
                       + (IF g \in Range(free) THEN 1 ELSE 0) + (IF g \in Range(recovery) THEN 1 ELSE 0)
         IN places >= 1 /\ (places = 1 \/ crowded)

\* What the index points at is there, in the group it names, byte for byte: no
\* entry survives the reset of its zone, except those of records that were
\* handed back to be written again (process_metadata before reset_group), and,
\* once finish_group has found no group free, of records in a group that was
\* reset while it took appends or opened while it held records.
IndexedRecordsAreThere ==
    \A k \in Keys :
        \/ index[k] = None
        \/ \E i \in DOMAIN survivors : survivors[i].key = k
        \/ \E i \in DOMAIN device[index[k].group].records :
             LET rec == device[index[k].group].records[i]
             IN rec.key = k /\ rec.at = index[k].at /\ rec.ver = index[k].ver
        \/ k \in lost

\* A pinned record is never dropped by a collection: it is handed back.
PinnedAlwaysKept ==
    [][\A k \in Keys : Known(k) /\ index[k].state = "pinned" /\ restarts' = restarts =>
          index'[k] # None]_vars
=============================================================================
