----------------------------- MODULE ShardHealth -----------------------------
(***************************************************************************)
(* What a sharded cache says about itself: the statistics of its shards,   *)
(* read one shard after the other while the shards go on counting, folded  *)
(* into one total, and the health report judged from the total.            *)
(*                                                                         *)
(* The statistics are those the report looks at; of a counter kept per     *)
(* tier (hits) or per cause (backpressure) the sum is kept, since only     *)
(* sums are read.                                                          *)
(***************************************************************************)
EXTENDS Integers, Sequences, FiniteSets, FiniteSetsExt

CONSTANTS
    ShardCount,     \* the number of shards
    Shares,         \* shares the write budget of a shard may have come to, out of Scale
    Scale,          \* WRITE_BUDGET_SCALE
    FloorShare,     \* WRITE_BUDGET_FLOOR_SHARE
    Latencies,      \* the microseconds a read may take
    MinRequests,    \* HEALTH_MIN_REQUESTS
    Window,         \* EVICTION_CANDIDATE_WINDOW
    MaxEvents       \* bound on what the shards count

VARIABLES
    stats,      \* per shard, its statistics
    taken,      \* the shards' statistics as they were read
    total,      \* the fold of what was read
    events      \* how much the shards have counted

vars == <<stats, taken, total, events>>

Shards == 1 .. ShardCount

Reads == {"hits", "misses", "expired_reads", "access_order_refreshes"}
Evictions == {"memory_evictions", "eviction_pinned_skips", "eviction_sampled_groups"}
Troubles == {"refill_failures", "expired_delete_failures", "eviction_oversize",
             "ssd_oversize_rejections", "ssd_write_budget_rejections", "backpressure"}
Admissions == {"memory_admission_accepted", "memory_admission_rejected"}
Budget == {"target", "observed"}
Counters == Reads \cup Evictions \cup Troubles \cup Admissions \cup Budget

Default == [count |-> [c \in Counters |-> 0], share |-> 0,
            latency |-> [count |-> 0, total |-> 0, max |-> 0]]

Init ==
    /\ \E share \in [Shards -> Shares] :
          stats = [s \in Shards |-> [Default EXCEPT !.share = share[s]]]
    /\ taken = << >>
    /\ total = Default
    /\ events = 0

Larger(a, b) == IF a > b THEN a ELSE b
Smaller(a, b) == IF a < b THEN a ELSE b
Percent(part, whole) == IF whole = 0 THEN 0 ELSE (part * 100) \div whole
Average(sum, count) == IF count = 0 THEN 0 ELSE sum \div count

(***************************************************************************)
(* Folding.  A count adds up, a high-water mark stays a maximum, and the   *)
(* share of the write budget is the tightest shard's.                      *)
(***************************************************************************)

FoldLatency(sum, shard) ==
    [count |-> sum.count + shard.count, total |-> sum.total + shard.total,
     max |-> Larger(sum.max, shard.max)]

\* Fault: a counter that reaches the list of fields and is added nowhere.
FoldForgetting(sum, shard) ==
    [count |-> [c \in Counters |-> sum.count[c]
                                   + IF c = "backpressure" THEN 0 ELSE shard.count[c]],
     share |-> sum.share,
     latency |-> FoldLatency(sum.latency, shard.latency)]

Fold(sum, shard) ==
    [count |-> [c \in Counters |-> sum.count[c] + shard.count[c]],
     share |-> sum.share,
     latency |-> FoldLatency(sum.latency, shard.latency)]

\* Carried in an Option: a running minimum cannot start at zero.
Tightest(sofar, first, share) == IF first THEN share ELSE Smaller(sofar, share)

\* latency_metrics_report of the sharded cache does not fold the statistics: it
\* weighs the shards' own averages, which are rounded down already.
ShardedLatency ==
    LET Avg(s) == Average(taken[s].latency.total, taken[s].latency.count)
        count == MapThenSumSet(LAMBDA s : taken[s].latency.count, DOMAIN taken)
        sum == MapThenSumSet(LAMBDA s : taken[s].latency.count * Avg(s), DOMAIN taken)
    IN  [count |-> count, avg |-> Average(sum, count),
         max |-> Max({0} \cup {taken[s].latency.max : s \in DOMAIN taken})]

(***************************************************************************)
(* The health report: its findings, each with its severity.                *)
(***************************************************************************)

Info == 1
Warning == 2
Critical == 3

Finding(id, severity) == [id |-> id, severity |-> severity]

\* Findings about something that should never have happened, at any volume.
TroubleFindings(st) ==
    LET n == st.count
        Of(id, severity, counter) == IF n[counter] > 0 THEN {Finding(id, severity)} ELSE {}
        throttled == Percent(st.share, Scale)
    IN  Of("refill_failures", Critical, "refill_failures")
        \cup Of("expiry_could_not_delete_durable_copy", Critical, "expired_delete_failures")
        \cup Of("values_larger_than_tier", Warning, "eviction_oversize")
        \cup Of("values_larger_than_ssd_block", Warning, "ssd_oversize_rejections")
        \cup Of("writeback_backpressure", Warning, "backpressure")
        \cup (IF n["ssd_write_budget_rejections"] > 0 /\ st.share < Scale
              THEN {Finding("ssd_write_budget_throttling",
                            IF throttled < 50 THEN Warning ELSE Info)}
              ELSE {})

\* Findings that compare two counters, whatever the volume.
ComparedFindings(st) ==
    LET n == st.count
    IN  (IF n["eviction_pinned_skips"] > n["memory_evictions"]
         THEN {Finding("pinned_entries_block_eviction", Critical)} ELSE {})
        \cup (IF n["target"] > 0 /\ n["observed"] > n["target"] /\ st.share <= FloorShare
              THEN {Finding("ssd_write_budget_cannot_be_met", Warning)} ELSE {})

\* Findings about rates, once there are enough requests to speak of a rate.
RateFindings(st) ==
    LET n == st.count
        requests == n["hits"] + n["misses"]
        offered == n["memory_admission_accepted"] + n["memory_admission_rejected"]
        If(holds, id) == IF holds THEN {Finding(id, Warning)} ELSE {}
    IN  IF requests < MinRequests THEN {} ELSE
            If(Percent(n["hits"], requests) < 50 /\ n["memory_evictions"] > 0,
               "hit_rate_below_floor")
            \cup If(n["hits"] > 0 /\ Percent(n["access_order_refreshes"], n["hits"]) > 25,
                    "reads_escalate_to_exclusive")
            \cup If(Percent(n["expired_reads"], requests) > 20,
                    "time_to_live_shorter_than_reuse")
            \cup If(Percent(n["memory_admission_rejected"], offered) > 10,
                    "memory_admission_rejecting")
            \cup If(n["memory_evictions"] > 0
                      /\ n["eviction_sampled_groups"] \div n["memory_evictions"] > Window,
                    "eviction_falls_back_to_full_scan")

HealthFindings(st) == TroubleFindings(st) \cup ComparedFindings(st) \cup RateFindings(st)

Healthy(st) == \A f \in HealthFindings(st) : f.severity # Critical

(***************************************************************************)
(* The shards count; a caller reads them one by one.                       *)
(***************************************************************************)

Count(s, c) ==
    /\ events < MaxEvents
    /\ events' = events + 1
    /\ stats' = [stats EXCEPT ![s].count[c] = @ + 1]
    /\ UNCHANGED <<taken, total>>

Latency(s) ==
    /\ events < MaxEvents
    /\ events' = events + 1
    /\ \E micros \in Latencies :
          stats' = [stats EXCEPT ![s].latency = [count |-> @.count + 1,
                                                 total |-> @.total + micros,
                                                 max |-> Larger(@.max, micros)]]
    /\ UNCHANGED <<taken, total>>

ReadShard ==
    LET s == Len(taken) + 1
    IN  /\ s <= ShardCount
        /\ taken' = Append(taken, stats[s])
        /\ total' = [Fold(total, stats[s]) EXCEPT
                        !.share = Tightest(total.share, s = 1, stats[s].share)]
        /\ UNCHANGED <<stats, events>>

StartAgain ==
    /\ Len(taken) = ShardCount
    /\ taken' = << >>
    /\ total' = Default
    /\ UNCHANGED <<stats, events>>

Next ==
    \/ \E s \in Shards, c \in Counters : Count(s, c)
    \/ \E s \in Shards : Latency(s)
    \/ ReadShard
    \/ StartAgain

Spec == Init /\ [][Next]_vars

(***************************************************************************)
(* No alarm is lost on the way up: what a shard's own report finds to have *)
(* happened, the whole cache's report finds, and at least as severely; it  *)
(* is healthy only if no shard has met such a critical finding; and it     *)
(* invents none.  The average latency lies between the shards' averages.   *)
(* Findings about rates and comparisons may average out, and do.           *)
(***************************************************************************)
AlarmsReachTheTop ==
    Len(taken) = ShardCount =>
        /\ \A s \in Shards : \A f \in TroubleFindings(taken[s]) :
              \E g \in HealthFindings(total) : g.id = f.id /\ g.severity >= f.severity
        /\ Healthy(total) =>
              \A s \in Shards : \A f \in TroubleFindings(taken[s]) : f.severity # Critical
        /\ \A g \in TroubleFindings(total) :
              \/ g.id = "ssd_write_budget_throttling"
              \/ \E s \in Shards : g \in TroubleFindings(taken[s])
        /\ LET averages == {Average(taken[s].latency.total, taken[s].latency.count) :
                                s \in {t \in Shards : taken[t].latency.count > 0}}
           IN  averages # {} => /\ ShardedLatency.avg >= Min(averages)
                                /\ ShardedLatency.avg <= Max(averages)
                                /\ ShardedLatency.max = total.latency.max
=============================================================================
