---------------------------- MODULE LatencyStats ----------------------------
(***************************************************************************)
(* The latency histograms of a cache and the percentiles reported from     *)
(* them.                                                                   *)
(*                                                                         *)
(* A read counts itself with relaxed atomics, after it has given the       *)
(* cache's lock back: the bucket, then the total, then the maximum.        *)
(* Statistics are read under the shared lock, bucket by bucket, while      *)
(* reads go on counting, so what is reported never was the histogram of    *)
(* one moment.  Puts, write-backs, evictions and compactions count         *)
(* themselves under the exclusive lock, and a reset holds it too.          *)
(***************************************************************************)
EXTENDS Integers, Sequences, Functions, FiniteSets, FiniteSetsExt

CONSTANTS
    Observers,      \* reads that record their latency
    Latencies,      \* the microseconds a call may take
    Bounds,         \* upper bounds of all buckets but the last
    MaxSamples      \* bound on recorded latencies

VARIABLES
    hist,       \* the latency of reads, updated with atomics
    locked,     \* the latency of puts, updated under the lock
    observer,   \* per observer, its latency, its samples, its next update
    reader,     \* the call of stats in progress
    taken,      \* what the last call of stats returned, or none
    recorded    \* the latencies ever recorded

vars == <<hist, locked, observer, reader, taken, recorded>>

Last == Len(Bounds) + 1
Buckets == 1 .. Last

EmptyHistogram == [count |-> [b \in Buckets |-> 0], total |-> 0, max |-> 0]
Idle == [micros |-> 0, samples |-> 0, todo |-> "none"]
NotReading == [at |-> "none", bucket |-> 1, samples |-> 0, hist |-> EmptyHistogram]

Init ==
    /\ hist = EmptyHistogram
    /\ locked = EmptyHistogram
    /\ observer = [o \in Observers |-> Idle]
    /\ reader = NotReading
    /\ taken = {}
    /\ recorded = 0

Samples(h) == SumFunction(h.count)

\* The bucket a latency is counted in.
BucketOf(micros) == Min({b \in Buckets : b = Last \/ micros <= Bounds[b]})

Larger(a, b) == IF a > b THEN a ELSE b

\* The exclusive lock keeps the reader of the statistics out, not the observers.
Exclusive == reader = NotReading

(***************************************************************************)
(* Counting.                                                               *)
(***************************************************************************)

\* A read, or a batch of n keys (observe_many_with_total), counts its bucket.
ObserveBucket(o) ==
    /\ observer[o] = Idle
    /\ \E micros \in Latencies, n \in 1 .. 2 :
          /\ recorded + n <= MaxSamples
          /\ recorded' = recorded + n
          /\ hist' = [hist EXCEPT !.count[BucketOf(micros)] = @ + n]
          /\ observer' = [observer EXCEPT ![o] = [micros |-> micros, samples |-> n,
                                                  todo |-> "total"]]
    /\ UNCHANGED <<locked, reader, taken>>

ObserveTotal(o) ==
    /\ observer[o].todo = "total"
    /\ hist' = [hist EXCEPT !.total = @ + observer[o].micros * observer[o].samples]
    /\ observer' = [observer EXCEPT ![o].todo = "max"]
    /\ UNCHANGED <<locked, reader, taken, recorded>>

\* The maximum is compared and then raised with fetch_max, which never lowers
\* it, so the two are one step.
ObserveMax(o) ==
    /\ observer[o].todo = "max"
    /\ hist' = [hist EXCEPT !.max = Larger(@, observer[o].micros)]
    /\ observer' = [observer EXCEPT ![o] = Idle]
    /\ UNCHANGED <<locked, reader, taken, recorded>>

\* A put, a write-back, an eviction or a compaction.
RecordLocked ==
    /\ Exclusive
    /\ recorded < MaxSamples
    /\ recorded' = recorded + 1
    /\ \E micros \in Latencies :
          locked' = [locked EXCEPT !.count[BucketOf(micros)] = @ + 1,
                                   !.total = @ + micros,
                                   !.max = Larger(@, micros)]
    /\ UNCHANGED <<hist, observer, reader, taken>>

\* Clearing the cache with its statistics.  The atomics are stored one by one, the
\* buckets last; an observer that comes between leaves what it leaves when it comes
\* around the whole reset: a total and a maximum without a sample.
ResetStats ==
    /\ Exclusive
    /\ hist' = EmptyHistogram
    /\ locked' = EmptyHistogram
    /\ UNCHANGED <<observer, reader, taken, recorded>>

(***************************************************************************)
(* The report.                                                             *)
(***************************************************************************)

Average(total, count) == IF count = 0 THEN 0 ELSE total \div count

UpTo(h, b) == SumFunctionOnSet(h.count, 1 .. b)

\* Fault: the maximum is taken for the last bucket as it was read.
PercentileAsRead(samples, h, pct) ==
    LET rank == (samples * pct + 99) \div 100
        reached == {b \in 1 .. Last - 1 : rank <= UpTo(h, b)}
    IN  CASE samples = 0 -> 0
          [] samples # 0 /\ reached # {} -> Bounds[Min(reached)]
          [] OTHER -> h.max

Percentile(samples, h, pct) ==
    LET rank == (samples * pct + 99) \div 100
        reached == {b \in 1 .. Last - 1 : rank <= UpTo(h, b)}
    IN  CASE samples = 0 -> 0
          [] samples # 0 /\ reached # {} -> Bounds[Min(reached)]
          [] samples # 0 /\ reached = {} /\ h.count[Last] > 0 -> Larger(h.max, Bounds[Last - 1] + 1)
          [] OTHER -> h.max

LatencyReport(samples, h) ==
    [count |-> samples, avg |-> Average(h.total, samples), max |-> h.max,
     p50 |-> Percentile(samples, h, 50), p95 |-> Percentile(samples, h, 95),
     p99 |-> Percentile(samples, h, 99)]

(***************************************************************************)
(* Reading: the sum of the buckets first, then the total and the maximum,  *)
(* then the buckets again.                                                 *)
(***************************************************************************)

StartStats ==
    /\ reader = NotReading
    /\ reader' = [NotReading EXCEPT !.at = "samples"]
    /\ taken' = {}
    /\ UNCHANGED <<hist, locked, observer, recorded>>

ReadSamples ==
    LET b == reader.bucket
    IN  /\ reader.at = "samples"
        /\ reader' = [reader EXCEPT !.samples = @ + hist.count[b],
                                    !.bucket = IF b = Last THEN 1 ELSE b + 1,
                                    !.at = IF b = Last THEN "total" ELSE @]
        /\ UNCHANGED <<hist, locked, observer, taken, recorded>>

ReadTotal ==
    /\ reader.at = "total"
    /\ reader' = [reader EXCEPT !.hist.total = hist.total, !.at = "max"]
    /\ UNCHANGED <<hist, locked, observer, taken, recorded>>

ReadMax ==
    /\ reader.at = "max"
    /\ reader' = [reader EXCEPT !.hist.max = hist.max, !.at = "buckets"]
    /\ UNCHANGED <<hist, locked, observer, taken, recorded>>

\* The last bucket completes the statistics, the put latency with them, and gives
\* the shared lock back.
ReadBucket ==
    LET b == reader.bucket
        now == [reader.hist EXCEPT !.count[b] = hist.count[b]]
    IN  /\ reader.at = "buckets"
        /\ \/ /\ b < Last
              /\ reader' = [reader EXCEPT !.hist = now, !.bucket = b + 1]
              /\ UNCHANGED taken
           \/ /\ b = Last
              /\ taken' = {LatencyReport(reader.samples, now),
                           LatencyReport(Samples(locked), locked)}
              /\ reader' = NotReading
        /\ UNCHANGED <<hist, locked, observer, recorded>>

-----------------------------------------------------------------------------

Next ==
    \/ \E o \in Observers : ObserveBucket(o) \/ ObserveTotal(o) \/ ObserveMax(o)
    \/ RecordLocked
    \/ ResetStats
    \/ StartStats
    \/ ReadSamples
    \/ ReadTotal
    \/ ReadMax
    \/ ReadBucket

Spec == Init /\ [][Next]_vars

(***************************************************************************)
(* Percentiles are in order and none is zero once something was sampled,   *)
(* however the reads and the reader interleave: the sum is read before the *)
(* buckets, which only grow, so the rank is found in a bucket, and a       *)
(* maximum read before the sample that raises it is lifted to the lower    *)
(* end of the last bucket.                                                 *)
(***************************************************************************)
PercentilesOrdered ==
    \A r \in taken :
        /\ r.p50 <= r.p95
        /\ r.p95 <= r.p99
        /\ r.count > 0 => r.p50 > 0
=============================================================================
