-------------------------------- MODULE Slru --------------------------------
(***************************************************************************)
(* One segment of ReplacementSlru: three lists over one arena (hot, warm,   *)
(* cold), an index from keys to entries, and the bytes in use. A segment is *)
(* independent of the others, and in ConcurrentReplacementSlru each has its *)
(* own lock, so every operation below is one step.                          *)
(***************************************************************************)
EXTENDS KeyArena, FiniteSetsExt

CONSTANTS Keys, Sizes,      \* an entry's space is what it is told apart by
          Capacities, Segments, Pcts

VARIABLES seg, capacity, hotPct, warmPct, initialized, maintainer,
          last              \* what the last call was, for the properties

vars == <<seg, capacity, hotPct, warmPct, initialized, maintainer, last>>
settings == <<capacity, hotPct, warmPct, initialized, maintainer>>

Lrus == {"hot", "warm", "cold"}

NewSegment == [arena |-> NewArena, lists |-> [q \in Lrus |-> NewList], used |-> 0, index |-> <<>>]

Init == /\ seg = NewSegment
        /\ capacity \in Capacities /\ hotPct \in Pcts /\ warmPct \in Pcts
        /\ initialized = FALSE /\ maintainer = TRUE /\ last = "other"

Limit(c) == c \div Segments         \* bytes_each_segment
HotLimit == (Limit(capacity) * hotPct) \div 100
WarmLimit == (Limit(capacity) * warmPct) \div 100

Without(f, k) == [x \in DOMAIN f \ {k} |-> f[x]]

AttachFront(s, q, n, space) ==
    LET r == LinkFront(s.arena, s.lists[q], n)
    IN [s EXCEPT !.arena = r.arena, !.lists[q] = [r.list EXCEPT !.used = @ + space],
                 !.used = @ + space]

Detach(s, q, n, space) ==
    LET r == Unlink(s.arena, s.lists[q], n)
    IN [s EXCEPT !.arena = r.arena, !.lists[q] = [r.list EXCEPT !.used = @ - space],
                 !.used = @ - space]

\* An entry leaves: evict_key, delete, and the old entry in put.
Dropped(s, k) ==
    LET e == s.index[k]
        d == Detach(s, e.lru, e.node, e.space)
    IN [d EXCEPT !.index = Without(@, k), !.arena = Release(@, e.node)]

TailKey(s, q) == s.arena.nodes[s.lists[q].tail].key
TailFlag(s, q) == s.index[TailKey(s, q)].flag
Empty(s, q) == s.lists[q].tail = Nil

\* The tail of one list becomes the head of another, or of the same one.
MoveTail(s, from, to, flag) ==
    LET k == TailKey(s, from)
        e == s.index[k]
        moved == AttachFront(Detach(s, from, e.node, e.space), to, e.node, e.space)
    IN [moved EXCEPT !.index[k].lru = to, !.index[k].flag = flag]

DrainBudget(s) == 4 * (s.lists["hot"].len + s.lists["warm"].len + s.lists["cold"].len) + 4

\* One round of evict_segment. A cold tail that was read goes back to warm, and
\* then, as when there is none, the hot or else the warm tail is shuffled. When
\* those are empty too force_evict_any_tail has nothing left to find.
EvictRound(s) ==
    IF ~Empty(s, "cold") /\ TailFlag(s, "cold") = "init" THEN Dropped(s, TailKey(s, "cold"))
    ELSE LET t == IF Empty(s, "cold") THEN s ELSE MoveTail(s, "cold", "warm", "active")
         IN CASE ~Empty(t, "hot") ->
                   IF TailFlag(t, "hot") # "init" THEN MoveTail(t, "hot", "warm", "active")
                   ELSE MoveTail(t, "hot", "cold", "init")
              [] Empty(t, "hot") /\ ~Empty(t, "warm") ->
                   IF TailFlag(t, "warm") = "active" THEN MoveTail(t, "warm", "warm", "fetched")
                   ELSE MoveTail(t, "warm", "cold", TailFlag(t, "warm"))
              [] OTHER -> t

RECURSIVE EvictLoop(_, _, _)
EvictLoop(s, limit, left) ==
    IF s.used <= limit \/ left = 0 \/ s.index = <<>> THEN s
    ELSE EvictLoop(EvictRound(s), limit, left - 1)

EvictSegment(s, limit) == EvictLoop(s, limit, DrainBudget(s) + 1)

\* Fault: a demoted entry keeps the flag of its last reads.
DemoteKeepingFlag(s, from) ==
    MoveTail(s, from, IF TailFlag(s, from) = "active" THEN "warm" ELSE "cold", TailFlag(s, from))

\* maintain_demote_tail: twice read goes to warm, anything else to cold.
DemoteTail(s, from) ==
    MoveTail(s, from, IF TailFlag(s, from) = "active" THEN "warm" ELSE "cold", "init")

RECURSIVE DemoteLoop(_, _, _, _)
DemoteLoop(s, from, limit, left) ==
    IF s.lists[from].used <= limit \/ left = 0 \/ Empty(s, from) THEN s
    ELSE DemoteLoop(DemoteTail(s, from), from, limit, left - 1)

\* maintain_cold_tail: only an entry read twice is spared.
MaintainColdTail(s) ==
    IF TailFlag(s, "cold") = "active" THEN MoveTail(s, "cold", "warm", "init")
    ELSE Dropped(s, TailKey(s, "cold"))

RECURSIVE ColdLoop(_, _, _)
ColdLoop(s, limit, left) ==
    IF s.used <= limit \/ left = 0 \/ Empty(s, "cold") THEN s
    ELSE ColdLoop(MaintainColdTail(s), limit, left - 1)

\* Hot to its share, warm to its share, then the whole segment from the cold end.
MaintainSegment(s) ==
    LET n == DrainBudget(s) + 1
        hot == DemoteLoop(s, "hot", HotLimit, n)
        warm == DemoteLoop(hot, "warm", WarmLimit, n)
    IN ColdLoop(warm, Limit(capacity), n)

-----------------------------------------------------------------------------
\* Init() of the policy.
Initialize == /\ ~initialized /\ initialized' = TRUE /\ last' = "other"
              /\ UNCHANGED <<seg, capacity, hotPct, warmPct, maintainer>>

\* The new entry replaces the old one at the hot end; it may be evicted at once.
Put(k, space) ==
    /\ initialized
    /\ LET old == IF k \in DOMAIN seg.index THEN Dropped(seg, k) ELSE seg
           n == NodeOf(old.arena)
           new == AttachFront([old EXCEPT !.arena = Alloc(@, k)], "hot", n, space)
           put == [new EXCEPT !.index = [x \in DOMAIN @ \cup {k} |->
                      IF x = k THEN [space |-> space, flag |-> "init", lru |-> "hot", node |-> n]
                      ELSE @[x]]]
           kept == IF maintainer THEN MaintainSegment(put) ELSE put
       IN seg' = EvictSegment(kept, Limit(capacity))
    /\ last' = "put"
    /\ UNCHANGED settings

\* update_cache_buffer: charged in place, where the entry is; no maintenance.
UpdateCacheBuffer(k, space) ==
    /\ k \in DOMAIN seg.index
    /\ LET e == seg.index[k]
           s == [seg EXCEPT !.index[k].space = space,
                            !.lists[e.lru].used = @ - e.space + space,
                            !.used = @ - e.space + space]
       IN seg' = EvictSegment(s, Limit(capacity))
    /\ last' = "drain"
    /\ UNCHANGED settings

\* A read moves the flag and nothing else.
Get(k) ==
    /\ k \in DOMAIN seg.index
    /\ seg' = [seg EXCEPT !.index[k].flag = IF @ = "init" THEN "fetched" ELSE "active"]
    /\ last' = "other"
    /\ UNCHANGED settings

Delete(k) == /\ k \in DOMAIN seg.index
             /\ seg' = Dropped(seg, k) /\ last' = "other"
             /\ UNCHANGED settings

SetCapacity(c) ==
    /\ capacity' = c
    /\ seg' = EvictSegment(seg, Limit(c))
    /\ last' = "drain"
    /\ UNCHANGED <<hotPct, warmPct, initialized, maintainer>>

RunLruMaintainerPass ==
    /\ initialized /\ maintainer
    /\ seg' = MaintainSegment(seg) /\ last' = "other"
    /\ UNCHANGED settings

\* The contents go; the policy stays initialized.
Reset == /\ seg' = NewSegment /\ last' = "other"
         /\ UNCHANGED settings

Configure(hot, warm, on) ==
    /\ hotPct' = hot /\ warmPct' = warm /\ maintainer' = on
    /\ last' = "other"
    /\ UNCHANGED <<seg, capacity, initialized>>

Next == \/ Initialize \/ RunLruMaintainerPass \/ Reset
        \/ \E k \in Keys : Get(k) \/ Delete(k)
        \/ \E k \in Keys, v \in Sizes : Put(k, v) \/ UpdateCacheBuffer(k, v)
        \/ \E c \in Capacities : SetCapacity(c)
        \/ \E h, w \in Pcts, on \in BOOLEAN : Configure(h, w, on)

Spec == Init /\ [][Next]_vars

-----------------------------------------------------------------------------
EntriesIn(q) == {k \in DOMAIN seg.index : seg.index[k].lru = q}
NodesOf(ks) == {seg.index[k].node : k \in ks}
SpaceOf(ks) == MapThenSumSet(LAMBDA k : seg.index[k].space, ks)

\* Lists, arena and index tell one story, whatever was moved between the lists:
\* each list is a chain of exactly the entries that claim it, in both directions,
\* with their number and bytes, and every other node is free once.
ListsMatchIndex ==
    /\ \A q \in Lrus : /\ ListOf(seg.arena, seg.lists[q], NodesOf(EntriesIn(q)))
                       /\ seg.lists[q].used = SpaceOf(EntriesIn(q))
    /\ seg.used = SpaceOf(DOMAIN seg.index)
    /\ \A k \in DOMAIN seg.index : seg.arena.nodes[seg.index[k].node].key = k
    /\ IsInjective(seg.arena.free)
    /\ ToSet(seg.arena.free) = DOMAIN seg.arena.nodes \ NodesOf(DOMAIN seg.index)

\* A put leaves the segment within its share of the capacity while the maintainer
\* runs, however often its entries were read.
PutFits == last = "put" /\ maintainer => seg.used <= Limit(capacity)

\* "four passes over the shard is more than enough for every entry to be demoted
\* and then evicted": every call that drains the segment leaves it within its share.
DrainFits == last \in {"put", "drain"} => seg.used <= Limit(capacity)
=============================================================================
