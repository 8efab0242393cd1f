----------------------------- MODULE ConfigCheck -----------------------------
(***************************************************************************)
(* Checking a configuration before a cache is built from it, alone or      *)
(* split into shards, and the cache that comes out: which tiers it has,    *)
(* which values a shard of it can take, whether it recovers what an        *)
(* earlier run left behind.  Names of policies and placements are reduced  *)
(* to whether they are recognised.                                         *)
(***************************************************************************)
EXTENDS Integers, FiniteSets, FiniteSetsExt

CONSTANTS
    Capacities,     \* capacities a tier may be given
    ShardCounts,    \* numbers of shards asked for
    LargestValue    \* per tier, the largest block the tiering policy admits

Tiers == {"dram", "pmem", "ssd"}
Durable == {"pmem", "ssd"}

VARIABLES
    options,    \* what the caller asks for
    findings,   \* what the last check said
    built       \* the shards of the cache that was built, or none

vars == <<options, findings, built>>

Options == [capacity: [Tiers -> Capacities], paths: [Durable -> BOOLEAN],
            recover: BOOLEAN, durable: [Durable -> BOOLEAN], named: BOOLEAN]

Init ==
    /\ options \in Options
    /\ findings = {}
    /\ built = << >>

Finding(id, severity, tier) == [id |-> id, severity |-> severity, tier |-> tier]
If(holds, id, severity, tier) == IF holds THEN {Finding(id, severity, tier)} ELSE {}

(***************************************************************************)
(* The checks.                                                             *)
(***************************************************************************)

\* What is wrong with the tiers and their paths.
ValidateTiers(o) ==
    LET cap == o.capacity
        temporary == cap["ssd"] > 0 /\ ~o.paths["ssd"]
    IN  If(\A t \in Tiers : cap[t] = 0, "no_tier_has_capacity", "critical", "dram")
        \cup If(temporary, "ssd_tier_is_temporary", "info", "ssd")
        \cup If(temporary /\ o.recover, "recovery_expected_from_a_temporary_tier", "critical", "ssd")
        \cup If(cap["pmem"] > 0 /\ ~o.paths["pmem"], "pmem_tier_is_unreachable", "info", "pmem")
        \cup UNION {If(o.recover /\ ~o.durable[t] /\ cap[t] > 0,
                       "recovery_expects_durability_that_is_off", "warning", t) : t \in Durable}
        \cup UNION {If(cap[t] = 0 /\ o.paths[t], "path_without_capacity", "warning", t) : t \in Durable}

\* A name nobody recognises is replaced by the default, with a warning.
ValidateNames(o) == If(~o.named, "name_not_recognised", "warning", "dram")

Validate(o) == ValidateTiers(o) \cup ValidateNames(o)

SplitCapacity(total, n, index) ==
    total \div n + (IF index < total % n THEN 1 ELSE 0)

\* Fault: the first shard's slice, which has the remainder, is looked at.
ValidateFirstSlice(o, n) ==
    LET PerShard(t) == SplitCapacity(o.capacity[t], n, 0)
    IN  Validate(o) \cup
        (IF n = 1 THEN {} ELSE UNION {
            If(o.capacity[t] > 0 /\ PerShard(t) = 0, "tier_has_fewer_bytes_than_shards", "warning", t)
            \cup If(PerShard(t) > 0 /\ PerShard(t) < LargestValue[t],
                    "sharded_tier_refuses_values_it_has_room_for", "warning", t) : t \in Tiers})

ValidateForShards(o, n) ==
    LET PerShard(t) == o.capacity[t] \div n
    IN  Validate(o) \cup
        (IF n = 1 THEN {} ELSE UNION {
            If(o.capacity[t] > 0 /\ PerShard(t) = 0, "tier_has_fewer_bytes_than_shards", "warning", t)
            \cup If(PerShard(t) > 0 /\ PerShard(t) < LargestValue[t],
                    "sharded_tier_refuses_values_it_has_room_for", "warning", t) : t \in Tiers})

CriticalFindings(found) == {f \in found : f.severity = "critical"}

(***************************************************************************)
(* Building.                                                               *)
(***************************************************************************)

\* One shard is configured as a cache of its own: a slice of every tier, and
\* directories of its own below the given ones, or below a temporary one.
OptionsForShard(o, n, index) ==
    [o EXCEPT !.capacity = [t \in Tiers |-> SplitCapacity(o.capacity[t], n, index)],
              !.paths["ssd"] = TRUE]

Build(o) == [capacity |-> o.capacity, recovers |-> o.recover, recovered |-> FALSE]

\* with_options never fails: what the check refuses, or what cannot be
\* recovered, is built without recovery.
BuildAnyway(o, readable) ==
    IF CriticalFindings(Validate(o)) = {} /\ (o.recover => readable)
    THEN [Build(o) EXCEPT !.recovered = o.recover]
    ELSE [Build(o) EXCEPT !.recovers = FALSE]

TryWithOptions ==
    /\ findings' = Validate(options)
    /\ \/ /\ CriticalFindings(findings') # {}
          /\ built' = << >>
       \/ /\ CriticalFindings(findings') = {}
          /\ \E readable \in BOOLEAN :
                built' = IF options.recover /\ ~readable THEN << >>
                         ELSE << [Build(options) EXCEPT !.recovered = options.recover] >>
    /\ UNCHANGED options

TryShardedWithOptions(n) ==
    /\ findings' = ValidateForShards(options, n)
    /\ \/ /\ CriticalFindings(findings') # {}
          /\ built' = << >>
       \/ /\ CriticalFindings(findings') = {}
          /\ \E readable \in [1 .. n -> BOOLEAN] :
                built' = [i \in 1 .. n |-> BuildAnyway(OptionsForShard(options, n, i - 1), readable[i])]
    /\ UNCHANGED options

Next ==
    \/ TryWithOptions
    \/ \E n \in ShardCounts : TryShardedWithOptions(n)

Spec == Init /\ [][Next]_vars

(***************************************************************************)
(* A refusal is foretold: a shard turns away values that the same tier,    *)
(* undivided, would take exactly when the check said so for that tier; and *)
(* a cache that passed the check can hold something.                       *)
(***************************************************************************)
Takes(capacity, t, size) == size <= LargestValue[t] /\ size <= capacity

RefusalsForetold ==
    built # << >> =>
        /\ \A t \in Tiers :
              (\E size \in 1 .. Max(Capacities) :
                   /\ Takes(options.capacity[t], t, size)
                   /\ \E i \in DOMAIN built : ~Takes(built[i].capacity[t], t, size))
              <=> \E f \in findings :
                      /\ f.tier = t
                      /\ f.id \in {"tier_has_fewer_bytes_than_shards",
                                   "sharded_tier_refuses_values_it_has_room_for"}
        /\ \E i \in DOMAIN built, t \in Tiers : built[i].capacity[t] > 0
=============================================================================
