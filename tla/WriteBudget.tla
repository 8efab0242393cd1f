---------------------------- MODULE WriteBudget ----------------------------
(***************************************************************************)
(* SsdWriteBudget: the share of keys admitted to the SSD, moved after every *)
(* window by what the window wrote. Keys are chosen by their hash, a number *)
(* below Scale here. Time counts windows; nothing rolls a window but a call. *)
(* Blocks have lengths, one key's not always the same. Between the          *)
(* admission of a block and its charge the block is written, and the window *)
(* may end meanwhile.                                                       *)
(***************************************************************************)
EXTENDS Integers, FiniteSets

CONSTANTS Scale,       \* WRITE_BUDGET_SCALE
          StepUp,      \* WRITE_BUDGET_MAX_STEP_UP
          Targets,     \* bytes per window; 0 is unlimited
          Lengths,     \* the bytes of a block
          MaxBytes,    \* bound on the bytes of one window
          MaxAge       \* bound on the windows that pass without a call

VARIABLES budget,
          pending,     \* hash of the block being written, or Scale
          asked,       \* hashes asked about in this window
          foreign,     \* this window wrote what it did not admit, or a key twice
          overshot     \* what the window before was allowed, when it was asked about every
                       \* key, wrote nothing foreign, and exceeded that; else 0

vars == <<budget, pending, asked, foreign, overshot>>

NotStarted == -1
Hashes == 0..(Scale - 1)

Unlimited == [disabled |-> FALSE, target |-> 0, share |-> Scale, bytes |-> 0, age |-> NotStarted]

Init == /\ budget \in {[Unlimited EXCEPT !.target = t] : t \in Targets}
        /\ pending = Scale /\ asked = {} /\ foreign = FALSE /\ overshot = 0

AtMost(x, bound) == IF x > bound THEN bound ELSE x
AtLeast(x, bound) == IF x < bound THEN bound ELSE x

Allowed(b) == b.target * b.age

\* Fault: a bounded step down as well, however far the window went over.
NextShareByStep(b) ==
    IF b.bytes <= Allowed(b) THEN AtMost(AtLeast(b.share * StepUp, 1), Scale)
    ELSE AtLeast(b.share \div StepUp, 1)

\* Up by a bounded step; down in proportion to the overrun, never to zero.
NextShare(b) ==
    IF b.bytes <= Allowed(b) THEN AtMost(AtLeast(b.share * StepUp, 1), Scale)
    ELSE AtLeast((b.share * Allowed(b)) \div b.bytes, 1)

WindowEnded == budget.age > 0

\* roll_window.
Rolled == CASE budget.age = NotStarted -> [budget EXCEPT !.age = 0]
            [] budget.age = 0 -> budget
            [] OTHER -> [budget EXCEPT !.share = NextShare(budget), !.bytes = 0, !.age = 0]

\* What the properties remember of the window, when a call rolls it.
WindowHistory ==
    IF WindowEnded
    THEN overshot' = IF asked = Hashes /\ ~foreign /\ budget.bytes > Allowed(budget)
                     THEN Allowed(budget) ELSE 0
    ELSE UNCHANGED overshot

\* ssd_write_budget_admits; the block that is admitted is then written.
Admits(h) ==
    /\ pending = Scale
    /\ IF budget.disabled \/ budget.target = 0
       THEN /\ pending' = (IF budget.disabled THEN Scale ELSE h)
            /\ UNCHANGED <<budget, asked, foreign, overshot>>
       ELSE /\ budget' = Rolled
            /\ pending' = (IF budget'.share >= Scale \/ h < budget'.share THEN h ELSE Scale)
            /\ asked' = (IF WindowEnded THEN {} ELSE asked) \cup {h}
            /\ foreign' = (IF WindowEnded THEN FALSE ELSE foreign \/ h \in asked)
            /\ WindowHistory

\* record_written, with a target set.
RecordWritten(length) == [Rolled EXCEPT !.bytes = @ + length]

\* charge_ssd_write, of the block just written, or of a reclaim or a recovery.
Charge(reclaim, length) ==
    /\ reclaim \/ pending # Scale
    /\ pending' = (IF reclaim THEN pending ELSE Scale)
    /\ IF budget.target = 0
       THEN UNCHANGED <<budget, asked, foreign, overshot>>
       ELSE /\ RecordWritten(length).bytes <= MaxBytes
            /\ budget' = RecordWritten(length)
            /\ asked' = IF WindowEnded THEN {} ELSE asked
            /\ foreign' = (reclaim \/ WindowEnded \/ foreign)
            /\ WindowHistory

\* set_target_bytes_per_sec: an unchanged target changes nothing; a new one starts over
\* with the share as it is, unless admission was disabled or the target is unlimited.
Targeted(b, t) ==
    IF t = b.target /\ ~b.disabled THEN b
    ELSE [Unlimited EXCEPT !.target = t, !.share = IF b.disabled \/ t = 0 THEN Scale ELSE b.share]

SetTarget(t) ==
    /\ Targeted(budget, t) # budget
    /\ budget' = Targeted(budget, t)
    /\ asked' = {} /\ foreign' = TRUE /\ overshot' = 0
    /\ UNCHANGED pending

\* disable_admission.
Disabled(b) == [Targeted(b, 0) EXCEPT !.disabled = TRUE, !.share = 0]

\* A shard whose part of the whole cache's target is zero.
DisableAdmission ==
    /\ ~budget.disabled
    /\ budget' = Disabled(budget)
    /\ asked' = {} /\ foreign' = TRUE /\ overshot' = 0
    /\ UNCHANGED pending

\* A window passes.
WindowPasses ==
    /\ budget.age \in 0..(MaxAge - 1)
    /\ budget' = [budget EXCEPT !.age = @ + 1]
    /\ UNCHANGED <<pending, asked, foreign, overshot>>

Next == \/ \E h \in Hashes : Admits(h)
        \/ \E reclaim \in BOOLEAN, length \in Lengths : Charge(reclaim, length)
        \/ \E t \in Targets : SetTarget(t)
        \/ DisableAdmission \/ WindowPasses

Spec == Init /\ [][Next]_vars

Longest == CHOOSE n \in Lengths : \A m \in Lengths : m <= n
Shortest == CHOOSE n \in Lengths : \A m \in Lengths : n <= m

\* One cut answers an overrun, up to what lengths can do to it. Keys are chosen by
\* their hash and not by their length, so when a window in which every key was offered
\* once has written more than it was allowed, the next one writes at most that allowance
\* times the longest block over the shortest (or the one block that is always let in),
\* however long the window was that overran and whatever was refused. And the share
\* never shuts the tier for good unless admission was disabled, in which case nothing
\* is admitted (roll_window, admits_with_hash, disable_admission).
OverrunsAreCut ==
    /\ overshot > 0 /\ ~foreign =>
          budget.bytes * Shortest <= AtLeast(overshot, Shortest) * Longest
    /\ IF budget.disabled THEN budget.share = 0 ELSE budget.share \in 1..Scale
    /\ budget.target = 0 /\ ~budget.disabled => budget.share = Scale
=============================================================================
