---------------------------- MODULE VictimChoice ----------------------------
(***************************************************************************)
(* Which entry a tier gives up: the replacement policies of CacheInner over *)
(* one tier's CacheKeyOrder. FIFO takes the oldest arrival. The other two  *)
(* weigh a window of the coldest entries: an expired one goes first; then, *)
(* when only a share of the tier counts as cold, the first entry not read  *)
(* twice (the memory tier moves the ones passed over to the warm end);     *)
(* otherwise entries compete in groups by routing slot. A window of pinned *)
(* entries widens to the tier. The SSD tier may take its scores from a     *)
(* frequency sketch, which also keeps it from the share rule.              *)
(*                                                                         *)
(* Reads count on the entry's metadata without the write lock, so between  *)
(* two evictions scores move as they please; hotness is an AtomicU32 whose *)
(* fetch_add wraps, HotnessLimit stands for its width. Hits stop at        *)
(* ProtectedHits (a bound: they too break ties) and count only where a     *)
(* choice reads them. Keys are integers, whose order breaks the last ties. *)
(* Values have length one. New entries arrive at the warm end (insertion   *)
(* spec 0; CacheKeyOrder has the other insertion points).                  *)
(***************************************************************************)
EXTENDS Integers, FiniteSets, Sequences, SequencesExt

CONSTANTS Keys,
          None,
          GroupOf,        \* the routing slot of a key, or a slot of its own
          Window,         \* EVICTION_CANDIDATE_WINDOW
          ProtectedHits,  \* SLRU_PROTECTED_HITS
          HotnessLimit,   \* hotness counts modulo this
          Setups,         \* [policy, share, tier, frequency] of a cache as it is built
          MaxPinned,      \* bound on the entries pinned at once
          MaxExpired,     \* bound on the expired entries not yet evicted
          MaxEpoch        \* ticks of the coarse clock

VARIABLES setup,           \* which policy, cold share and tier; frequency: the SSD sketch is on
          order,           \* what the policy walks: arrivals under FIFO, else access order
          hits, seen,      \* CacheEntryMeta
          hotness,         \* CacheEntryMeta's, or the sketch's estimate when that is scored
          pinned, expired, \* is_pinned, entry_expired
          clock
vars == <<setup, order, hits, hotness, seen, pinned, expired, clock>>

Hotnesses == 0 .. (HotnessLimit - 1)

Init ==
    /\ setup \in Setups
    /\ order = <<>>
    /\ hits = [k \in Keys |-> 0] /\ hotness = hits /\ seen = hits
    /\ pinned = {} /\ expired = {}
    /\ clock = 1

Resident == {order[i] : i \in 1 .. Len(order)}
Coldest(n) == SubSeq(order, 1, IF n < Len(order) THEN n ELSE Len(order))
Without(s, k) == SelectSeq(s, LAMBDA x : x # k)
Unpinned(s) == SelectSeq(s, LAMBDA x : x \notin pinned)

-----------------------------------------------------------------------------
(* Scores and groups.                                                      *)

\* eviction_score_of, and what the frequency mode puts in its place: the fields in
\* the order the comparison takes them.
Reads(k) == IF setup.frequency THEN hotness[k] ELSE hits[k]
Score(k, segmented) ==
    <<IF segmented /\ Reads(k) >= ProtectedHits THEN 1 ELSE 0,
      hotness[k], IF setup.frequency THEN 0 ELSE hits[k], seen[k]>>

\* The derived order of EvictionScore.
Lower(a, b) ==
    \E i \in 1 .. 4 : a[i] < b[i] /\ \A j \in 1 .. (i - 1) : a[j] = b[j]
AtMost(a, b) == a = b \/ Lower(a, b)
Larger(a, b) == IF a < b THEN b ELSE a
Smaller(a, b) == IF a < b THEN a ELSE b

\* SlotEvictionGroup::new
NewGroup(k, score) == [score |-> score, victim |-> k, victim_score |-> score]

\* Fault: one protected entry shelters its whole group.
SegmentSheltered(a, b) == Larger(a, b)

\* The segment a group is weighed in: the coldest any member is in, "because that
\* member is the one this group would give up".
SegmentOfBoth(a, b) == Smaller(a, b)

\* SlotEvictionGroup::observe: a group is as warm as its warmest member and in
\* the segment of its least protected one; its victim is its coldest member.
Observe(g, k, score) ==
    LET takes == Lower(score, g.victim_score) \/ (score = g.victim_score /\ k < g.victim)
    IN [score |-> <<SegmentOfBoth(g.score[1], score[1]), Larger(g.score[2], score[2]),
                    g.score[3] + score[3], Larger(g.score[4], score[4])>>,
        victim |-> IF takes THEN k ELSE g.victim,
        victim_score |-> IF takes THEN score ELSE g.victim_score]

\* The group of slot g among the candidates, members met in their order.
GroupAmong(candidates, g, segmented) ==
    LET members == SelectSeq(candidates, LAMBDA k : GroupOf[k] = g)
        meet(acc, k) == Observe(acc, k, Score(k, segmented))
    IN FoldLeft(meet, NewGroup(Head(members), Score(Head(members), segmented)), Tail(members))

\* The comparison of two groups, down to their victims' keys.
GroupLower(a, b) ==
    \/ Lower(a.score, b.score)
    \/ a.score = b.score /\ Lower(a.victim_score, b.victim_score)
    \/ a.score = b.score /\ a.victim_score = b.victim_score /\ a.victim < b.victim

\* select_eviction_victim: the victim of the lowest group. A wide scan keeps the
\* groups in a hash map and meets the members in access order; a bounded one
\* sorts the candidates first, which leaves them in an order of their own.
SelectEvictionVictim(candidates, segmented) ==
    LET open == Unpinned(candidates)
        groups == {GroupAmong(open, g, segmented) : g \in {GroupOf[open[i]] : i \in 1 .. Len(open)}}
    IN IF open = <<>> THEN None
       ELSE (CHOOSE g \in groups : \A h \in groups : g = h \/ GroupLower(g, h)).victim

-----------------------------------------------------------------------------
(* The choice.                                                             *)

\* memory_cold_candidate_count, for values of length one; the lower tiers always
\* walk a full window.
ColdCandidates ==
    LET budget == (Len(order) * setup.share) \div 100
    IN IF setup.share >= 100 \/ setup.tier # "memory" THEN Window
       ELSE Smaller(Window, Larger(1, Smaller(Len(order), budget)))

Picked(victim, promote) == [victim |-> victim, promote |-> promote]

\* The last two calls of select_windowed_eviction_victim.
Widened(candidates, segmented) ==
    LET windowed == SelectEvictionVictim(Coldest(candidates), segmented)
    IN IF windowed # None \/ Len(order) <= candidates THEN windowed
       ELSE SelectEvictionVictim(order, segmented)

\* select_windowed_eviction_victim
SelectWindowed(candidates, segmented) ==
    LET window == Coldest(candidates)
        gone == SelectSeq(window, LAMBDA k : k \in expired /\ k \notin pinned)
        open == Unpinned(window)
        readOnce == SelectSeq(open, LAMBDA k : hits[k] < ProtectedHits)
        shared == ~setup.frequency /\ setup.share < 100
        passed(k) == SubSeq(open, 1, (CHOOSE i \in 1 .. Len(open) : open[i] = k) - 1)
    IN IF gone # <<>> THEN Picked(Head(gone), <<>>)
       ELSE IF shared /\ readOnce # <<>> THEN Picked(Head(readOnce), passed(Head(readOnce)))
       ELSE IF shared /\ open # <<>> THEN Picked(Head(open), Tail(open))
       ELSE Picked(Widened(candidates, segmented), <<>>)

\* select_fifo_eviction_victim
SelectFifo ==
    LET open == Unpinned(order)
    IN Picked(IF open = <<>> THEN None ELSE Head(open), <<>>)

\* select_memory_eviction_victim, select_pmem_eviction_victim and
\* select_ssd_eviction_victim; only the first applies the promotions.
Choice ==
    LET picked == SelectWindowed(ColdCandidates, setup.policy = "Slru")
    IN IF setup.policy = "Fifo" THEN SelectFifo
       ELSE [picked EXCEPT !.promote = IF setup.tier = "memory" THEN @ ELSE <<>>]

-----------------------------------------------------------------------------
\* touch_access, which leaves the arrivals alone.
Touched(s, k) == IF setup.policy = "Fifo" THEN s ELSE Append(Without(s, k), k)

\* Scores as far as a choice reads them: FIFO reads none, and hits only where the
\* sketch does not stand in for them.
Scored(n) == IF setup.policy = "Fifo" THEN 0 ELSE n
Counted(n) == IF setup.frequency THEN 0 ELSE Scored(Smaller(n, ProtectedHits))

\* A value arrives, with the hotness of its kind or the one asked for; what is known
\* of the key from another tier, its hits and hotness, is carried over.
Insert(k, h, n) ==
    /\ k \notin Resident
    /\ order' = Append(order, k)
    /\ hits' = [hits EXCEPT ![k] = Counted(n)]
    /\ hotness' = [hotness EXCEPT ![k] = Scored(h)]
    /\ seen' = [seen EXCEPT ![k] = Scored(clock)]
    /\ UNCHANGED <<setup, pinned, expired, clock>>

\* The key is put again: a new life, and in memory the overwrite counts as an access.
Rewrite(k) ==
    /\ k \in Resident
    /\ seen' = [seen EXCEPT ![k] = Scored(clock)]
    /\ expired' = expired \ {k}
    /\ IF setup.tier = "memory"
       THEN /\ order' = Touched(order, k)
            /\ hotness' = [hotness EXCEPT ![k] = Scored((@ + 1) % HotnessLimit)]
       ELSE UNCHANGED <<order, hotness>>
    /\ UNCHANGED <<setup, hits, pinned, clock>>

\* A hit: record_known_hit_shared_occurrences_at or record_hit, and touch_access when
\* the entry has not been seen for a while (or, on the shared path, not at all).
Read(k, refresh) ==
    /\ k \in Resident
    /\ hits' = [hits EXCEPT ![k] = Counted(@ + 1)]
    /\ hotness' = IF setup.frequency THEN hotness
                  ELSE [hotness EXCEPT ![k] = Scored((@ + 1) % HotnessLimit)]
    /\ IF refresh
       THEN seen' = [seen EXCEPT ![k] = Scored(clock)] /\ order' = Touched(order, k)
       ELSE UNCHANGED <<seen, order>>
    /\ UNCHANGED <<setup, pinned, expired, clock>>

\* The sketch's estimate of a key moves: a sampled hit, an offer of the key, an aging
\* or the record of another key it shares its counters with (FrequencySketch).
Drift(k, h) ==
    /\ setup.frequency /\ k \in Resident
    /\ hotness' = [hotness EXCEPT ![k] = h]
    /\ UNCHANGED <<setup, order, hits, seen, pinned, expired, clock>>

TogglePin(k) ==
    /\ k \in Resident
    /\ pinned' = IF k \in pinned THEN pinned \ {k} ELSE pinned \cup {k}
    /\ Cardinality(pinned') <= MaxPinned
    /\ UNCHANGED <<setup, order, hits, hotness, seen, expired, clock>>

Expire(k) ==
    /\ k \in Resident /\ Cardinality(expired) < MaxExpired
    /\ expired' = expired \cup {k}
    /\ UNCHANGED <<setup, order, hits, hotness, seen, pinned, clock>>

Tick ==
    /\ clock < MaxEpoch /\ clock' = clock + 1
    /\ UNCHANGED <<setup, order, hits, hotness, seen, pinned, expired>>

\* One round of evict_memory_to_capacity_since, apply_cold_tail_promotions included;
\* the loops of the other tiers take their victims the same way.
Evict ==
    /\ order # <<>>
    /\ \E picked \in {Choice} :
          LET victim == picked.victim
              promoted == FoldLeft(LAMBDA s, k : Touched(s, k), order, picked.promote)
          IN /\ victim # None
             /\ order' = Without(promoted, victim)
             /\ hits' = [hits EXCEPT ![victim] = 0]
             /\ hotness' = [hotness EXCEPT ![victim] = 0]
             /\ seen' = [seen EXCEPT ![victim] = 0]
             /\ expired' = expired \ {victim}
    /\ UNCHANGED <<setup, pinned, clock>>

Next ==
    \/ \E k \in Keys, h \in Hotnesses, n \in 0 .. ProtectedHits : Insert(k, h, n)
    \/ \E k \in Keys : Rewrite(k) \/ TogglePin(k) \/ Expire(k)
    \/ \E k \in Keys, refresh \in BOOLEAN : Read(k, refresh)
    \/ \E k \in Keys, h \in Hotnesses : Drift(k, h)
    \/ Tick
    \/ Evict

Spec == Init /\ [][Next]_vars

-----------------------------------------------------------------------------
(* What a choice owes, whatever was read, rewritten, pinned or expired before. *)

\* The candidates of a scan that may be given up.
Open(candidates) == {candidates[i] : i \in 1 .. Len(candidates)} \ pinned

\* How warm a slot's open candidates are together.
Warmth(slotted) ==
    CHOOSE h \in {hotness[k] : k \in slotted} : \A k \in slotted : hotness[k] <= h

\* What select_eviction_victim owes for any candidates. The order in which a scan
\* meets them makes no difference, so its bounded and its wide form choose alike;
\* under the segmented policy an entry read twice goes only when every candidate was
\* ("a burst of entries seen once cannot displace the set that has been seen twice
\* however hot the burst looks"), also out of a slot that holds both; without
\* segments no slot is given up while another one's warmest entry is cooler; and
\* within its slot the victim is a coldest one.
ScanIsSound(candidates, segmented) ==
    LET open == Open(candidates)
        slot(k) == {j \in open : GroupOf[j] = GroupOf[k]}
        victim == SelectEvictionVictim(candidates, segmented)
    IN open # {} =>
          /\ victim = SelectEvictionVictim(Reverse(candidates), segmented)
          /\ segmented /\ Reads(victim) >= ProtectedHits =>
                \A k \in open : Reads(k) >= ProtectedHits
          /\ ~segmented => \A k \in open : Warmth(slot(victim)) <= Warmth(slot(k))
          /\ \A k \in slot(victim) : AtMost(Score(victim, segmented), Score(k, segmented))

\* A victim is found exactly when some entry is not pinned, also when the whole window
\* is, and it is not pinned itself; an expired candidate goes before a live one; under
\* the segmented policy, and where only a share counts as cold, a candidate read twice
\* goes only when all of them were; and a scan of the whole tier is sound (a scan of a
\* window is one of a smaller tier).
ChoiceIsSound ==
    LET victim == Choice.victim
        window == Open(Coldest(ColdCandidates))
        segmented == setup.policy = "Slru"
        sparing == segmented \/ (setup.share < 100 /\ ~setup.frequency)
    IN /\ (victim = None) <=> (Resident \subseteq pinned)
       /\ victim # None => victim \in Resident \ pinned
       /\ setup.policy # "Fifo" =>
             /\ IF window \cap expired # {} THEN victim \in expired
                ELSE sparing /\ victim \in window /\ Reads(victim) >= ProtectedHits =>
                        \A k \in window : Reads(k) >= ProtectedHits
             /\ ScanIsSound(order, segmented)
=============================================================================
