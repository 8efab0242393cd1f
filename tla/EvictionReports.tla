-------------------------- MODULE EvictionReports --------------------------
(***************************************************************************)
(* What an eviction tells its listeners. Under the write lock an eviction   *)
(* queues a record (for the eviction callback) and its tier (for the metric *)
(* callback); a call that is about to return takes both queues and the      *)
(* callbacks under the lock, and calls the callbacks outside it. An atomic  *)
(* flag says whether there is anyone to tell. Records are numbered.         *)
(***************************************************************************)
EXTENDS Integers, Sequences, FiniteSets, SequencesExt

CONSTANTS Drainers,     \* threads that drain
          TierNames,
          MaxEvictions  \* bound

VARIABLES listener,     \* which callbacks are registered, and the handler's switch
          registered,   \* eviction_callbacks_registered
          pending, pendingTiers,
          hand,         \* hand[d]: what a drain has taken
          told,         \* told[n]: times record n was delivered
          counts,       \* counts[t]: evictions of a tier reported to the metric callback
          due,          \* due[t]: evictions of a tier since the metric callback was there,
                        \* less those discarded when it was cleared or the cache emptied
          evictions

vars == <<listener, registered, pending, pendingTiers, hand, told, counts, due, evictions>>

Nothing == [records |-> <<>>, tiers |-> <<>>]
Of(t, tiers) == Len(SelectSeq(tiers, LAMBDA x : x = t))

Init == /\ listener = [callback |-> FALSE, metric |-> FALSE, enabled |-> TRUE]
        /\ registered = FALSE /\ pending = <<>> /\ pendingTiers = <<>>
        /\ hand = [d \in Drainers |-> Nothing]
        /\ told = [n \in 1..MaxEvictions |-> 0]
        /\ counts = [t \in TierNames |-> 0] /\ due = counts
        /\ evictions = 0

\* record_eviction: the metric counts whether or not the handler is enabled.
RecordEviction(t) ==
    /\ evictions < MaxEvictions /\ evictions' = evictions + 1
    /\ pendingTiers' = IF listener.metric THEN Append(pendingTiers, t) ELSE pendingTiers
    /\ due' = IF listener.metric THEN [due EXCEPT ![t] = @ + 1] ELSE due
    /\ pending' = IF listener.enabled /\ listener.callback THEN Append(pending, evictions') ELSE pending
    /\ UNCHANGED <<listener, registered, hand, told, counts>>

\* What is due once the queued tiers are discarded.
DueUnqueued == [t \in TierNames |-> due[t] - Of(t, pendingTiers)]

Listening(l) == l.callback \/ l.metric

SetCallback(on) ==
    /\ listener.callback # on
    /\ listener' = [listener EXCEPT !.callback = on]
    /\ pending' = IF on THEN pending ELSE <<>>
    /\ registered' = Listening(listener')
    /\ UNCHANGED <<pendingTiers, hand, told, counts, due, evictions>>

\* Fault: clearing the metric callback leaves its queue.
SetMetricKeepingQueue(on) ==
    /\ listener.metric # on
    /\ listener' = [listener EXCEPT !.metric = on]
    /\ registered' = Listening(listener')
    /\ UNCHANGED <<pendingTiers, due, pending, hand, told, counts, evictions>>

SetMetricCallback(on) ==
    /\ listener.metric # on
    /\ listener' = [listener EXCEPT !.metric = on]
    /\ pendingTiers' = IF on THEN pendingTiers ELSE <<>>
    /\ due' = IF on THEN due ELSE DueUnqueued
    /\ registered' = Listening(listener')
    /\ UNCHANGED <<pending, hand, told, counts, evictions>>

SetHandlerEnabled(on) ==
    /\ listener.enabled # on
    /\ listener' = [listener EXCEPT !.enabled = on]
    /\ pending' = IF on THEN pending ELSE <<>>
    /\ UNCHANGED <<registered, pendingTiers, hand, told, counts, due, evictions>>

\* clear_all_locked, called by remove_all and reset: both queues are emptied unreported,
\* whoever is registered.
ClearAll ==
    /\ pending # <<>> \/ pendingTiers # <<>>
    /\ pending' = <<>> /\ pendingTiers' = <<>>
    /\ due' = DueUnqueued
    /\ UNCHANGED <<listener, registered, hand, told, counts, evictions>>

\* drain_eviction_records: nothing is taken unless the flag says so. Both queues are
\* emptied, also the one whose callback is not there.
Drain(d) ==
    /\ hand[d] = Nothing /\ registered /\ (pending # <<>> \/ pendingTiers # <<>>)
    /\ hand' = [hand EXCEPT ![d] = [records |-> IF listener.callback THEN pending ELSE <<>>,
                                    tiers |-> IF listener.metric THEN pendingTiers ELSE <<>>]]
    /\ pending' = <<>> /\ pendingTiers' = <<>>
    /\ UNCHANGED <<listener, registered, told, counts, due, evictions>>

\* Outside the lock: each tier's count in one call, then each record.
CallMetric(d) ==
    /\ hand[d].tiers # <<>>
    /\ LET t == Head(hand[d].tiers)
       IN /\ counts' = [counts EXCEPT ![t] = @ + Of(t, hand[d].tiers)]
          /\ hand' = [hand EXCEPT ![d].tiers = SelectSeq(@, LAMBDA x : x # t)]
    /\ UNCHANGED <<listener, registered, pending, pendingTiers, told, due, evictions>>

CallBack(d) ==
    /\ hand[d].tiers = <<>> /\ hand[d].records # <<>>
    /\ told' = [told EXCEPT ![Head(hand[d].records)] = @ + 1]
    /\ hand' = [hand EXCEPT ![d].records = Tail(@)]
    /\ UNCHANGED <<listener, registered, pending, pendingTiers, counts, due, evictions>>

Next == \/ \E t \in TierNames : RecordEviction(t)
        \/ \E on \in BOOLEAN : SetCallback(on) \/ SetMetricCallback(on) \/ SetHandlerEnabled(on)
        \/ ClearAll
        \/ \E d \in Drainers : Drain(d) \/ CallMetric(d) \/ CallBack(d)

Spec == Init /\ [][Next]_vars

InHand(t) == LET held == [d \in Drainers |-> Of(t, hand[d].tiers)]
             IN FoldFunctionOnSet(+, 0, held, Drainers)

\* No eviction is reported twice or while it is still queued, whichever drains overlap;
\* the metric callback is told of every eviction that happened while it was registered,
\* but for those still queued when it was cleared or the cache was emptied (remove_all and
\* reset discard the queues with the callbacks registered); and nothing waits in a queue
\* that the flag says is empty, where no drain would find it.
ReportsAddUp ==
    /\ \A n \in 1..MaxEvictions :
          told[n] + Cardinality({i \in DOMAIN pending : pending[i] = n})
                  + Cardinality({d \in Drainers : n \in ToSet(hand[d].records)}) <= 1
    /\ \A t \in TierNames : counts[t] + InHand(t) + Of(t, pendingTiers) = due[t]
    /\ pending # <<>> \/ pendingTiers # <<>> => registered
=============================================================================
