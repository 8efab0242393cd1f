-------------------------- MODULE FrequencySketch --------------------------
(***************************************************************************)
(* FrequencySketch: saturating counters, several per key, and a window that *)
(* ages them by halving. record runs under the cache's read lock, so        *)
(* threads record at once; every counter and the window are separate        *)
(* atomics, and `aging` is the flag that lets one thread age.               *)
(***************************************************************************)
EXTENDS Integers, FiniteSets

CONSTANTS Names,        \* the keys
          PositionsOf,  \* PositionsOf[k] \subseteq Slots: the hashes of a key
          Slots,        \* 1..width
          Recorders,    \* threads
          Top,          \* u8::MAX
          WindowLimit,  \* max_window
          MaxRecords    \* bound on the calls of record

VARIABLES counters, window, aging,
          at,           \* what each thread is about to do
          since,        \* since[k]: records of k begun and ended since the last aging
          begun

vars == <<counters, window, aging, at, since, begun>>

Idle == [pc |-> "idle"]
Lowest(S) == CHOOSE x \in S : \A y \in S : x <= y

Init == /\ counters = [s \in Slots |-> 0] /\ window = 0 /\ aging = FALSE
        /\ at = [t \in Recorders |-> Idle]
        /\ since = [k \in Names |-> 0]
        /\ begun = 0

\* record: the positions are computed, then each is added to in turn.
Record(t, k) ==
    /\ at[t].pc = "idle" /\ begun < MaxRecords
    /\ begun' = begun + 1
    /\ at' = [at EXCEPT ![t] = [pc |-> "add", key |-> k, left |-> PositionsOf[k], whole |-> ~aging]]
    /\ UNCHANGED <<counters, window, aging, since>>

\* Fault: the counter wraps.
AddedWrapping(c) == (c + 1) % (Top + 1)
Added(c) == IF c = Top THEN c ELSE c + 1

Add(t) ==
    /\ at[t].pc = "add" /\ at[t].left # {}
    /\ LET s == Lowest(at[t].left)
       IN /\ counters' = [counters EXCEPT ![s] = Added(@)]
          /\ at' = [at EXCEPT ![t].left = @ \ {s}]
    /\ UNCHANGED <<window, aging, since, begun>>

\* The window counts the record, then is read again: another thread may have aged it.
Count(t) ==
    /\ at[t].pc = "add" /\ at[t].left = {}
    /\ window' = window + 1
    /\ since' = [since EXCEPT ![at[t].key] = IF at[t].whole THEN @ + 1 ELSE @]
    /\ at' = [at EXCEPT ![t] = [pc |-> "check"]]
    /\ UNCHANGED <<counters, aging, begun>>

Check(t) ==
    /\ at[t].pc = "check"
    /\ at' = [at EXCEPT ![t] = IF window >= WindowLimit THEN [pc |-> "claim"] ELSE Idle]
    /\ UNCHANGED <<counters, window, aging, since, begun>>

\* decay: only one thread ages; the others return.
Claim(t) ==
    /\ at[t].pc = "claim"
    /\ at' = [at EXCEPT ![t] = IF aging THEN Idle ELSE [pc |-> "recheck"]]
    /\ aging' = TRUE
    /\ UNCHANGED <<counters, window, since, begun>>

\* Records under way when the counters are halved may lose part of themselves.
BeginPass(t) ==
    /\ since' = [k \in Names |-> 0]
    /\ at' = [u \in Recorders |-> IF u = t THEN [pc |-> "halve", left |-> Slots]
                                  ELSE IF at[u].pc = "add" THEN [at[u] EXCEPT !.whole = FALSE]
                                  ELSE at[u]]

\* Fault: a thread that saw a full window ages it although another just did.
RecheckNothing(t) ==
    /\ at[t].pc = "recheck"
    /\ BeginPass(t)
    /\ UNCHANGED <<counters, window, aging, begun>>

Recheck(t) ==
    /\ at[t].pc = "recheck"
    /\ UNCHANGED <<counters, window, begun>>
    /\ IF window < WindowLimit
       THEN aging' = FALSE /\ at' = [at EXCEPT ![t] = Idle] /\ UNCHANGED since
       ELSE BeginPass(t) /\ UNCHANGED aging

Halve(t) ==
    /\ at[t].pc = "halve" /\ at[t].left # {}
    /\ LET s == Lowest(at[t].left)
       IN /\ counters' = [counters EXCEPT ![s] = @ \div 2]
          /\ at' = [at EXCEPT ![t].left = @ \ {s}]
    /\ UNCHANGED <<window, aging, since, begun>>

HalveWindow(t) ==
    /\ at[t].pc = "halve" /\ at[t].left = {}
    /\ window' = window \div 2
    /\ at' = [at EXCEPT ![t] = [pc |-> "release"]]
    /\ UNCHANGED <<counters, aging, since, begun>>

Release(t) ==
    /\ at[t].pc = "release"
    /\ aging' = FALSE
    /\ at' = [at EXCEPT ![t] = Idle]
    /\ UNCHANGED <<counters, window, since, begun>>

Step(t) == \/ Add(t) \/ Count(t) \/ Check(t) \/ Claim(t) \/ Recheck(t)
           \/ Halve(t) \/ HalveWindow(t) \/ Release(t)

Next == \E t \in Recorders : Step(t) \/ \E k \in Names : Record(t, k)

Spec == Init /\ [][Next]_vars

Estimate(k) == Lowest({counters[s] : s \in PositionsOf[k]})

\* An estimate is never below what was recorded since the last aging, up to where the
\* counters saturate; and whoever ages them, however many threads found the window
\* full at once, finds it still full.
SketchNeverUnderstates ==
    /\ \A k \in Names : Estimate(k) >= IF since[k] > Top THEN Top ELSE since[k]
    /\ \A t \in Recorders : at[t].pc = "halve" => window >= WindowLimit
=============================================================================
