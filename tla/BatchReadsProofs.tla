-------------------------- MODULE BatchReadsProofs --------------------------
(***************************************************************************)
(* The proof that the reads of MultiLayerCache taken section by section    *)
(* answer with values that were current during the call, and that no       *)
(* section installs a copy a read should not find.                         *)
(*                                                                         *)
(* A section of a read only ever moves copies, except for the refill after *)
(* an SSD read; and what that installs the journal has vouched for. What   *)
(* makes the argument work across sections is the clock: a call compares   *)
(* deadlines with the time it began, so a key that it once found alive it  *)
(* finds alive to its end, or not at all (Followed).                       *)
(***************************************************************************)
EXTENDS BatchReads, TLAPS

Sections == {"first", "scan", "split", "exclusive", "drop", "expired", "promote", "pin",
             "ssdOnly", "pmem", "ssd", "blocks", "returned"}

\* The sections at whose beginning the keys still to be read are known to be
\* alive by the call's clock.
Sure == {"first", "exclusive", "drop", "ssdOnly", "pmem", "ssd", "blocks"}

Tier == [Keys -> Values \cup {None}]

CallRecords == [op: Singles \cup Many, at: Sections, batch: Batches, left: SUBSET Keys,
                answer: Tier, lapsed: SUBSET Keys, late: SUBSET Keys, lost: SUBSET Keys]

Typed ==
    /\ memory \in Tier /\ pmem \in Tier /\ ssd \in Tier /\ expired \in SUBSET Keys
    /\ stale \in [Readers -> SUBSET Keys]
    /\ allowed \in [Keys -> SUBSET Values]
    /\ seen \in [Readers -> [Keys -> SUBSET Values]]
    /\ call \in [Readers -> CallRecords \cup {Idle}]
    /\ \A r \in Readers : call[r].op \in Singles => Len(call[r].batch) = 1

\* What is known of the call of r: whatever was allowed since it began, and every
\* copy of a key that is alive by its clock, is in seen; a key it took for
\* expired that is not any more has no copies.
Followed(r) ==
    /\ \A k \in Keys : allowed[k] \subseteq seen[r][k]
    /\ \A k \in Keys : ~ TooOld(r, k) => Copies(k) \subseteq seen[r][k]
    /\ \A k \in Keys : call[r].answer[k] \in seen[r][k] \cup {None}
    /\ \A k \in call[r].lapsed \ expired : Copies(k) = {}
    /\ call[r].at \in Sure => \A k \in call[r].left : ~ TooOld(r, k)
    /\ call[r].at \in {"ssdOnly", "pmem"} => call[r].batch[1] \in call[r].left

\* A block that was read and not overtaken is still what a refill may install.
Vouched(r) ==
    call[r].at = "blocks" =>
        \A k \in call[r].left \ stale[r] : call[r].answer[k] # None =>
            /\ k \notin expired => call[r].answer[k] \in allowed[k]
            /\ \A q \in Readers : Active(q) => k \notin call[q].lapsed \ expired

Current ==
    /\ Typed
    /\ \A k \in Keys \ expired : Copies(k) \subseteq allowed[k]
    /\ \A r \in Readers : Active(r) => Followed(r) /\ Vouched(r)

-----------------------------------------------------------------------------
(* What a section does.                                                    *)

\* The call of r goes on in another section, with answers from what is there.
Moved(r) ==
    /\ call' \in [Readers -> CallRecords \cup {Idle}]
    /\ \A q \in Readers \ {r} : call'[q] = call[q]
    /\ call'[r] \in CallRecords
    /\ call'[r].op = call[r].op /\ call'[r].batch = call[r].batch
    /\ call'[r].lapsed = call[r].lapsed
    /\ \A k \in Keys : \/ call'[r].answer[k] \in {None, call[r].answer[k]}
                       \/ ~ TooOld(r, k) /\ call'[r].answer[k] \in Copies(k) \cup {None}
    /\ call'[r].at # "blocks"
    /\ call'[r].at \in Sure => \A k \in call'[r].left : ~ TooOld(r, k)
    /\ call'[r].at \in {"ssdOnly", "pmem"} => call'[r].batch[1] \in call'[r].left

\* Copies move between tiers or go; of a key whose expiry is forgotten all go.
Lowered ==
    \E old \in SUBSET Keys :
        /\ memory' \in Tier /\ pmem' \in Tier /\ ssd' \in Tier
        /\ expired' = expired \ old
        /\ \A k \in Keys : Copies(k)' \subseteq IF k \in old THEN {} ELSE Copies(k)
        /\ stale' \in [Readers -> SUBSET Keys]
        /\ \A q \in Readers : stale[q] \cup old \subseteq stale'[q]

\* The call ends.
Ended(r) ==
    /\ call' = [call EXCEPT ![r] = Idle]
    /\ seen' = [seen EXCEPT ![r] = [k \in Keys |-> {}]]
    /\ UNCHANGED <<tiers, stale, allowed>>

\* The four kinds of section.
Effect(r) ==
    \/ Ended(r)
    \/ Moved(r) /\ Lowered /\ UNCHANGED history
    \/ call[r].at = "ssd" /\ ReadSsdBlocks(r) /\ started
    \/ Moved(r) /\ call[r].at = "blocks" /\ RefillSsd(r, call[r].left) /\ UNCHANGED history

-----------------------------------------------------------------------------
(* What the operators shared by the sections do.                           *)

LEMMA CallFields ==
    ASSUME NEW c \in CallRecords
    PROVE  /\ c.op \in Singles \cup Many /\ c.at \in Sections /\ c.batch \in Batches
           /\ c.left \in SUBSET Keys /\ c.answer \in [Keys -> Values \cup {None}]
           /\ c.lapsed \in SUBSET Keys
           /\ c.late \in SUBSET Keys /\ c.lost \in SUBSET Keys
  BY DEF CallRecords, Tier

LEMMA IdleFields ==
    /\ Idle.op = "idle" /\ Idle.at = "idle" /\ Idle.op \notin Singles
  BY DEF Idle, Singles

\* An active call is a full record.
LEMMA ActiveCall ==
    ASSUME Typed, NEW r \in Readers, call[r].at # "idle"
    PROVE  /\ call[r] \in CallRecords
           /\ Wanted(r) \in SUBSET Keys
           /\ call[r].op \in Singles => call[r].batch[1] \in Keys /\ Wanted(r) = {call[r].batch[1]}
  <1>1. call[r] \in CallRecords  BY IdleFields DEF Typed
  <1>2. call[r].batch \in Seq(Keys)  BY <1>1, CallFields, ReadsAssumption
  <1>3. Wanted(r) \in SUBSET Keys  BY <1>2 DEF Wanted
  <1>4. ASSUME call[r].op \in Singles
        PROVE  call[r].batch[1] \in Keys /\ Wanted(r) = {call[r].batch[1]}
    <2>1. Len(call[r].batch) = 1  BY <1>4 DEF Typed
    <2>2. DOMAIN call[r].batch = {1}  BY <1>2, <2>1
    <2> QED BY <1>2, <2>1, <2>2 DEF Wanted
  <1> QED BY <1>1, <1>3, <1>4

\* The keys a section takes for expired.
LEMMA LapsedKeys ==
    ASSUME NEW r, NEW ks
    PROVE  /\ Lapsed(r, ks) \subseteq ks
           /\ \A k \in ks : k \in Lapsed(r, ks) <=> TooOld(r, k)
  BY DEF Lapsed

LEMMA AboveKeys ==
    ASSUME Typed, NEW ks \in SUBSET Keys
    PROVE  /\ InMemory(ks) \in SUBSET ks /\ InPmem(ks) \in SUBSET ks
           /\ \A k \in Keys : /\ Upper(k) \in Copies(k) \cup {None}
                              /\ Upper(k) \in Values \cup {None}
           /\ [k \in Keys |-> Upper(k)] \in Tier
           /\ \A k \in InPmem(ks) : pmem[k] \in Copies(k)
  BY DEF Typed, InMemory, InPmem, Upper, Copies, Tier

\* Answers from a function whose values are copies.
LEMMA AnsweredFrom ==
    ASSUME Typed, NEW r \in Readers, call[r] \in CallRecords, NEW ks, NEW f \in Tier,
           \A k \in ks \cap Keys : ~ TooOld(r, k) /\ f[k] \in Copies(k) \cup {None}
    PROVE  /\ Answered(r, ks, f) \in Tier
           /\ \A k \in Keys : \/ Answered(r, ks, f)[k] \in {None, call[r].answer[k]}
                              \/ ~ TooOld(r, k) /\ Answered(r, ks, f)[k] \in Copies(k) \cup {None}
  <1>1. call[r].answer \in [Keys -> Values \cup {None}]  BY CallFields
  <1> QED BY <1>1 DEF Answered, Tier

\* A tier's own values are copies.
LEMMA TierCopies ==
    ASSUME Typed
    PROVE  \A k \in Keys : /\ memory[k] \in Copies(k) \cup {None}
                           /\ pmem[k] \in Copies(k) \cup {None}
                           /\ ssd[k] \in Copies(k) \cup {None}
  BY DEF Copies

\* The call of r goes on as c.
LEMMA Goes ==
    ASSUME Typed, NEW r \in Readers, NEW c \in CallRecords, call' = [call EXCEPT ![r] = c],
           c.op = call[r].op, c.batch = call[r].batch, c.lapsed = call[r].lapsed,
           \A k \in Keys : \/ c.answer[k] \in {None, call[r].answer[k]}
                           \/ ~ TooOld(r, k) /\ c.answer[k] \in Copies(k) \cup {None},
           c.at # "blocks",
           c.at \in Sure => \A k \in c.left : ~ TooOld(r, k),
           c.at \in {"ssdOnly", "pmem"} => c.batch[1] \in c.left
    PROVE  Moved(r)
  <1>1. call \in [Readers -> CallRecords \cup {Idle}]  BY DEF Typed
  <1>2. /\ call' \in [Readers -> CallRecords \cup {Idle}] /\ call'[r] = c
        /\ \A q \in Readers \ {r} : call'[q] = call[q]
    BY <1>1
  <1> QED BY <1>2 DEF Moved

LEMMA ToGoes ==
    ASSUME Typed, NEW r \in Readers, call[r] \in CallRecords,
           NEW at \in Sections, NEW left \in SUBSET Keys, NEW answer \in Tier,
           To(r, at, left, answer),
           \A k \in Keys : \/ answer[k] \in {None, call[r].answer[k]}
                           \/ ~ TooOld(r, k) /\ answer[k] \in Copies(k) \cup {None},
           at # "blocks",
           at \in Sure => \A k \in left : ~ TooOld(r, k),
           at \in {"ssdOnly", "pmem"} => call[r].batch[1] \in left
    PROVE  Moved(r) /\ UNCHANGED seen
  <1> DEFINE c == [call[r] EXCEPT !.at = at, !.left = left, !.answer = answer]
  <1>2. /\ c \in CallRecords /\ c.op = call[r].op /\ c.batch = call[r].batch
        /\ c.lapsed = call[r].lapsed /\ c.at = at /\ c.left = left /\ c.answer = answer
    BY CallFields DEF CallRecords
  <1>3. call' = [call EXCEPT ![r] = c]  BY DEF To, Typed
  <1> HIDE DEF c
  <1>4. Moved(r)  BY <1>2, <1>3, Goes
  <1> QED BY <1>4 DEF To

\* Nothing moves.
LEMMA StaysLowered ==
    ASSUME Typed, UNCHANGED <<tiers, stale>>
    PROVE  Lowered
  <1>1. \A k \in Keys : Copies(k)' = Copies(k)  BY DEF Copies, tiers
  <1>2. expired' = expired \ {}  BY DEF tiers
  <1>3. memory' \in Tier /\ pmem' \in Tier /\ ssd' \in Tier  BY DEF Typed, tiers
  <1>4. /\ stale' \in [Readers -> SUBSET Keys]
        /\ \A q \in Readers : stale[q] \cup {} \subseteq stale'[q]
    BY DEF Typed, tiers
  <1>5. {} \in SUBSET Keys  OBVIOUS
  <1> QED BY <1>1, <1>2, <1>3, <1>4, <1>5 DEF Lowered

\* Expired entries go, and some keys get a copy of what they have in a tier.
LEMMA SettleLowers ==
    ASSUME Typed, NEW old \in SUBSET Keys, NEW up \in SUBSET Keys, NEW f,
           \A k \in up : k \notin old /\ f[k] \in Copies(k) \cup {None},
           Settle(old, up, f)
    PROVE  Lowered
  <1>1. memory' \in Tier /\ pmem' \in Tier /\ ssd' \in Tier
    BY DEF Settle, Typed, Tier, Copies
  <1>2. \A k \in Keys : Copies(k)' \subseteq IF k \in old THEN {} ELSE Copies(k)
    BY DEF Settle, Copies
  <1>3. stale' \in [Readers -> SUBSET Keys] /\ \A q \in Readers : stale[q] \cup old \subseteq stale'[q]
    BY DEF Settle, Noted, Typed
  <1>4. expired' = expired \ old  BY DEF Settle
  <1> QED BY <1>1, <1>2, <1>3, <1>4 DEF Lowered

LEMMA RefusedEnds ==
    ASSUME NEW r \in Readers, Refused(r)
    PROVE  Ended(r)
  BY DEF Refused, Ended

\* A section that changes no tier.
LEMMA QuietEffect ==
    ASSUME Typed, NEW r \in Readers, Moved(r), UNCHANGED <<tiers, stale>>, UNCHANGED history
    PROVE  Effect(r)
  BY StaysLowered DEF Effect

\* The last section after an SSD read, when it refills.
LEMMA FinishEffect ==
    ASSUME Current, NEW r \in Readers, call[r].at = "blocks",
           To(r, "returned", {}, call[r].answer), RefillSsd(r, call[r].left), UNCHANGED allowed
    PROVE  Effect(r)
  <1>1. Typed /\ call[r] \in CallRecords  BY ActiveCall DEF Current
  <1>2. call[r].answer \in Tier  BY <1>1, CallFields DEF Tier
  <1>3. Moved(r) /\ UNCHANGED seen  BY <1>1, <1>2, ToGoes DEF Sections, Sure
  <1> QED BY <1>3 DEF Effect, history

\* The section under the write lock in which the late keys of a batch are looked
\* up again (get_batch_into and acquire_batch).
LookedUpAgain(r) ==
    LET old == Lapsed(r, call[r].late)
        above == (InMemory(call[r].late) \cup InPmem(call[r].late)) \ old
        copies == InPmem(call[r].late) \ old
        left == call[r].left \cup (call[r].late \ (old \cup above))
    IN /\ call[r].at = "exclusive"
       /\ To(r, IF left = {} THEN "returned" ELSE "ssd", left,
             Answered(r, above, [k \in Keys |-> Upper(k)]))
       /\ \E up \in SUBSET copies : Settle(old, up, pmem)
       /\ UNCHANGED allowed

LEMMA LookedUpEffect ==
    ASSUME Current, NEW r \in Readers, LookedUpAgain(r)
    PROVE  Effect(r)
  <1> USE DEF Sections
  <1>0. Typed /\ call[r].at = "exclusive"  BY DEF Current, LookedUpAgain
  <1>1. call[r] \in CallRecords  BY <1>0, ActiveCall
  <1>2. call[r].left \in SUBSET Keys /\ call[r].late \in SUBSET Keys  BY <1>1, CallFields
  <1> DEFINE ks == call[r].late
             old == Lapsed(r, ks)
             above == (InMemory(ks) \cup InPmem(ks)) \ old
             left == call[r].left \cup (ks \ (old \cup above))
             upper == [k \in Keys |-> Upper(k)]
             answer == Answered(r, above, upper)
             at == IF left = {} THEN "returned" ELSE "ssd"
  <1>3. To(r, at, left, answer) /\ UNCHANGED allowed  BY DEF LookedUpAgain
  <1>4. PICK up \in SUBSET (InPmem(ks) \ old) : Settle(old, up, pmem)  BY DEF LookedUpAgain
  <1>5. \A k \in ks : k \in old <=> TooOld(r, k)  BY LapsedKeys
  <1>6. InMemory(ks) \in SUBSET ks /\ InPmem(ks) \in SUBSET ks
    BY <1>0, <1>2, AboveKeys
  <1>7. upper \in Tier /\ \A k \in Keys : upper[k] \in Copies(k) \cup {None}
    BY <1>0, <1>2, AboveKeys
  <1>8. \A k \in call[r].left : ~ TooOld(r, k)
    BY <1>0 DEF Current, Active, Followed, Sure
  <1>9. above \in SUBSET ks /\ \A k \in above : ~ TooOld(r, k)  BY <1>5, <1>6
  <1>10. left \in SUBSET Keys /\ \A k \in left : ~ TooOld(r, k)  BY <1>2, <1>5, <1>8
  <1>11. at \in Sections /\ at # "blocks" /\ at \notin {"ssdOnly", "pmem"}  OBVIOUS
  <1> HIDE DEF above, left, upper, at
  <1>12. /\ answer \in Tier
         /\ \A k \in Keys : \/ answer[k] \in {None, call[r].answer[k]}
                            \/ ~ TooOld(r, k) /\ answer[k] \in Copies(k) \cup {None}
    BY <1>0, <1>1, <1>7, <1>9, AnsweredFrom
  <1> HIDE DEF answer
  <1>13. Moved(r) /\ UNCHANGED seen
    BY <1>0, <1>1, <1>3, <1>10, <1>11, <1>12, ToGoes
  <1>14. \A k \in up : k \notin old /\ pmem[k] \in Copies(k) \cup {None}
    BY <1>0, <1>2, <1>6, TierCopies
  <1>15. old \in SUBSET Keys /\ up \in SUBSET Keys  BY <1>2, <1>6, LapsedKeys
  <1>16. Lowered  BY <1>0, <1>4, <1>14, <1>15, SettleLowers
  <1> QED BY <1>3, <1>13, <1>16 DEF Effect, history

-----------------------------------------------------------------------------
(* The sections, one by one.                                               *)

LEMMA SharedSections ==
    ASSUME Current, NEW r \in Readers,
           ReadSsd(r) \/ DropExpired(r) \/ DropExpiredOfBatch(r) \/ Return(r)
    PROVE  Effect(r)
  <1> USE DEF Sections
  <1>0. Typed  BY DEF Current
  <1>1. call[r].at # "idle" /\ call[r] \in CallRecords
    BY <1>0, ActiveCall DEF ReadSsd, DropExpired, DropExpiredOfBatch, Return
  <1>2. call[r].left \in SUBSET Keys /\ call[r].late \in SUBSET Keys
        /\ call[r].answer \in [Keys -> Values \cup {None}]
    BY <1>1, CallFields
  <1>3. Nothing \in Tier /\ \A k \in Keys : Nothing[k] = None  BY DEF Nothing, Tier
  <1>4. CASE ReadSsd(r)
    <2>1. CASE started  BY <1>4, <2>1 DEF ReadSsd, Effect
    <2>2. CASE ~ started  BY <1>4, <2>2, RefusedEnds DEF ReadSsd, ReadSsdBlocks, Effect
    <2> QED BY <2>1, <2>2
  <1>5. CASE DropExpired(r)
    <2>1. To(r, "returned", {}, Nothing) /\ UNCHANGED allowed  BY <1>5 DEF DropExpired
    <2>2. Moved(r) /\ UNCHANGED seen  BY <1>0, <1>1, <1>3, <2>1, ToGoes DEF Sure
    <2>3. Settle(Lapsed(r, call[r].left), {}, memory)  BY <1>5 DEF DropExpired
    <2>4. Lowered  BY <1>0, <1>2, <2>3, LapsedKeys, SettleLowers
    <2> QED BY <2>1, <2>2, <2>4 DEF Effect, history
  <1>6. CASE DropExpiredOfBatch(r)
    <2> DEFINE at == IF call[r].left = {} THEN "returned" ELSE "ssd"
    <2>1. To(r, at, call[r].left, call[r].answer) /\ UNCHANGED allowed  BY <1>6 DEF DropExpiredOfBatch
    <2>2. \A k \in call[r].left : ~ TooOld(r, k)
      BY <1>6 DEF DropExpiredOfBatch, Current, Active, Followed, Sure
    <2>3. Moved(r) /\ UNCHANGED seen  BY <1>0, <1>1, <1>2, <2>1, <2>2, ToGoes DEF Tier
    <2>4. Settle(Lapsed(r, call[r].late), {}, memory)  BY <1>6 DEF DropExpiredOfBatch
    <2>5. Lowered  BY <1>0, <1>2, <2>4, LapsedKeys, SettleLowers
    <2> QED BY <2>1, <2>3, <2>5 DEF Effect, history
  <1>7. CASE Return(r)  BY <1>7 DEF Return, Ended, Effect
  <1> QED BY <1>4, <1>5, <1>6, <1>7

LEMMA GetSharedSections ==
    ASSUME Current, NEW r \in Readers,
           \/ TryGetSharedResidentBatch(r) \/ GetSharedScan(r) \/ GetSharedExclusive(r)
           \/ GetSharedFinish(r)
    PROVE  Effect(r)
  <1> USE DEF Sections
  <1>0. Typed  BY DEF Current
  <1>1. call[r].at # "idle"
    BY DEF TryGetSharedResidentBatch, GetSharedScan, GetSharedExclusive, GetSharedFinish, InSection
  <1>2. call[r] \in CallRecords /\ Wanted(r) \in SUBSET Keys  BY <1>0, <1>1, ActiveCall
  <1>3. call[r].left \in SUBSET Keys /\ call[r].late \in SUBSET Keys
        /\ call[r].answer \in [Keys -> Values \cup {None}]
    BY <1>2, CallFields
  <1>4. Nothing \in Tier /\ \A k \in Keys : Nothing[k] = None  BY DEF Nothing, Tier
  <1> DEFINE ks == Wanted(r)
  <1>5. InMemory(ks) \in SUBSET ks /\ InPmem(ks) \in SUBSET ks
    BY <1>0, <1>2, AboveKeys
  <1>6. \A k \in Keys : Upper(k) \in Copies(k) \cup {None} /\ Upper(k) \in Values \cup {None}
    BY <1>0, <1>2, AboveKeys
  <1>7. CASE TryGetSharedResidentBatch(r)
    <2>1. CASE ~ started  BY <1>7, <2>1, RefusedEnds DEF TryGetSharedResidentBatch, Effect
    <2>2. CASE started
      <3> DEFINE got == [k \in Keys |-> IF k \in ks THEN Upper(k) ELSE None]
      <3>1. UNCHANGED <<tiers, stale>> /\ UNCHANGED allowed
        BY <1>7, <2>2 DEF TryGetSharedResidentBatch
      <3>2. \/ Lapsed(r, ks) = {} /\ To(r, "returned", {}, got)
            \/ To(r, "scan", ks, Nothing)
        BY <1>7, <2>2 DEF TryGetSharedResidentBatch
      <3>3. CASE Lapsed(r, ks) = {} /\ To(r, "returned", {}, got)
        <4>1. \A k \in ks : ~ TooOld(r, k)  BY <3>3, LapsedKeys
        <4>2. got \in Tier /\ \A k \in Keys : \/ got[k] = None
                                              \/ ~ TooOld(r, k) /\ got[k] \in Copies(k) \cup {None}
          BY <1>6, <4>1 DEF Tier
        <4> HIDE DEF got
        <4>3. Moved(r) /\ UNCHANGED seen  BY <1>0, <1>2, <3>3, <4>2, ToGoes DEF Sure
        <4> QED BY <1>0, <3>1, <4>3, QuietEffect DEF history
      <3>4. CASE To(r, "scan", ks, Nothing)
        <4>1. Moved(r) /\ UNCHANGED seen  BY <1>0, <1>2, <1>4, <3>4, ToGoes DEF Sure
        <4> QED BY <1>0, <3>1, <4>1, QuietEffect DEF history
      <3> QED BY <3>2, <3>3, <3>4
    <2> QED BY <2>1, <2>2
  <1>8. CASE GetSharedScan(r)
    <2>1. CASE ~ started  BY <1>8, <2>1, RefusedEnds DEF GetSharedScan, Effect
    <2>2. CASE started
      <3> DEFINE old == Lapsed(r, ks)
                 above == (InMemory(ks) \cup InPmem(ks)) \ old
                 late == old \cup IF PmemRefills THEN InPmem(ks) \ old ELSE {}
                 left == ks \ (old \cup above)
                 answer == [k \in Keys |-> IF k \in above THEN Upper(k) ELSE None]
                 at == IF late # {} THEN "exclusive" ELSE IF left # {} THEN "ssd" ELSE "returned"
      <3>1. UNCHANGED <<tiers, stale>> /\ UNCHANGED history
        BY <1>8, <2>2 DEF GetSharedScan
      <3>2. call' = [call EXCEPT ![r].late = late, ![r].left = left, ![r].answer = answer, ![r].at = at]
        BY <1>8, <2>2 DEF GetSharedScan
      <3>3. \A k \in ks : k \in old <=> TooOld(r, k)  BY LapsedKeys
      <3>4. late \in SUBSET Keys /\ left \in SUBSET Keys /\ above \in SUBSET ks
        BY <1>2, <1>5, LapsedKeys
      <3>5. answer \in Tier /\ \A k \in Keys : \/ answer[k] \in {None, call[r].answer[k]}
                                               \/ ~ TooOld(r, k) /\ answer[k] \in Copies(k) \cup {None}
        BY <1>6, <3>3, <3>4 DEF Tier
      <3>6. \A k \in left : ~ TooOld(r, k)  BY <3>3
      <3>7. at \in Sections /\ at # "blocks" /\ at \notin {"ssdOnly", "pmem"}  OBVIOUS
      <3> HIDE DEF late, left, answer, at
      <3> DEFINE c == [call[r] EXCEPT !.at = at, !.left = left, !.answer = answer, !.late = late]
      <3>8. call' = [call EXCEPT ![r] = c]  BY <1>0, <1>2, <3>2 DEF Typed, CallRecords
      <3>9. Moved(r)
        <4>1. /\ c \in CallRecords /\ c.op = call[r].op /\ c.batch = call[r].batch
              /\ c.lapsed = call[r].lapsed /\ c.at = at /\ c.left = left /\ c.answer = answer
          BY <1>2, <3>4, <3>5, <3>7, CallFields DEF CallRecords
        <4> HIDE DEF c
        <4> QED BY <1>0, <3>5, <3>6, <3>7, <3>8, <4>1, Goes
      <3> QED BY <1>0, <3>1, <3>9, QuietEffect
    <2> QED BY <2>1, <2>2
  <1>9. CASE GetSharedExclusive(r)
    <2>1. CASE ~ started  BY <1>9, <2>1, RefusedEnds DEF GetSharedExclusive, Effect
    <2>2. CASE started
      <3> DEFINE old == Lapsed(r, call[r].late)
                 at == IF call[r].left # {} THEN "ssd" ELSE "returned"
      <3>1. To(r, at, call[r].left, call[r].answer) /\ UNCHANGED allowed
        BY <1>9, <2>2 DEF GetSharedExclusive
      <3>2. PICK up \in SUBSET {k \in call[r].late : /\ call[r].answer[k] # None
                                                    /\ Promotable(k, call[r].answer[k])} :
               Settle(old, up, call[r].answer)
        BY <1>9, <2>2 DEF GetSharedExclusive
      <3>3. \A k \in call[r].left : ~ TooOld(r, k)
        BY <1>9 DEF GetSharedExclusive, InSection, Current, Active, Followed, Sure
      <3>4. Moved(r) /\ UNCHANGED seen
        BY <1>0, <1>2, <1>3, <3>1, <3>3, ToGoes DEF Tier
      <3>5. \A k \in up : k \notin old /\ call[r].answer[k] \in Copies(k) \cup {None}
        BY <1>3, LapsedKeys, TierCopies, <1>0 DEF Promotable, TooOld
      <3>6. old \in SUBSET Keys /\ up \in SUBSET Keys  BY <1>3, LapsedKeys
      <3>7. Lowered  BY <1>0, <3>2, <3>5, <3>6, SettleLowers
      <3> QED BY <3>1, <3>4, <3>7 DEF Effect, history
    <2> QED BY <2>1, <2>2
  <1>10. CASE GetSharedFinish(r)
    <2>1. CASE ~ started  BY <1>10, <2>1, RefusedEnds DEF GetSharedFinish, Effect
    <2>2. CASE started
      <3>1. /\ To(r, "returned", {}, call[r].answer) /\ RefillSsd(r, call[r].left)
            /\ UNCHANGED allowed /\ call[r].at = "blocks"
        BY <1>10, <2>2 DEF GetSharedFinish, InSection
      <3> QED BY <3>1, FinishEffect
    <2> QED BY <2>1, <2>2
  <1> QED BY <1>7, <1>8, <1>9, <1>10
LEMMA GetBatchSections ==
    ASSUME Current, NEW r \in Readers,
           \/ TryGetMemoryBatch(r) \/ GetBatchScan(r) \/ GetBatchSplit(r) \/ GetBatchExclusive(r)
           \/ GetBatchFinish(r)
    PROVE  Effect(r)
  <1> USE DEF Sections
  <1>0. Typed  BY DEF Current
  <1>1. call[r].at # "idle"
    BY DEF TryGetMemoryBatch, GetBatchScan, GetBatchSplit, GetBatchExclusive, GetBatchFinish, InSection
  <1>2. call[r] \in CallRecords /\ Wanted(r) \in SUBSET Keys  BY <1>0, <1>1, ActiveCall
  <1>3. call[r].left \in SUBSET Keys /\ call[r].late \in SUBSET Keys
        /\ call[r].answer \in [Keys -> Values \cup {None}]
    BY <1>2, CallFields
  <1>4. Nothing \in Tier /\ \A k \in Keys : Nothing[k] = None  BY DEF Nothing, Tier
  <1>5. memory \in Tier /\ \A k \in Keys : memory[k] \in Copies(k) \cup {None}
    BY <1>0, TierCopies DEF Typed
  <1>6. [k \in Keys |-> Upper(k)] \in Tier /\ \A k \in Keys : Upper(k) \in Copies(k) \cup {None}
    BY <1>0, <1>2, AboveKeys
  <1>7. CASE TryGetMemoryBatch(r)
    <2>1. CASE ~ started  BY <1>7, <2>1, RefusedEnds DEF TryGetMemoryBatch, Effect
    <2>2. CASE started
      <3>1. UNCHANGED <<tiers, stale>> /\ UNCHANGED allowed
        BY <1>7, <2>2 DEF TryGetMemoryBatch
      <3>2. \/ Lapsed(r, Wanted(r)) = {} /\ To(r, "returned", {}, Answered(r, Wanted(r), memory))
            \/ To(r, "scan", Wanted(r), Nothing)
        BY <1>7, <2>2 DEF TryGetMemoryBatch
      <3>3. CASE Lapsed(r, Wanted(r)) = {} /\ To(r, "returned", {}, Answered(r, Wanted(r), memory))
        <4>1. \A k \in Wanted(r) : ~ TooOld(r, k)  BY <3>3, LapsedKeys
        <4>2. /\ Answered(r, Wanted(r), memory) \in Tier
              /\ \A k \in Keys :
                   \/ Answered(r, Wanted(r), memory)[k] \in {None, call[r].answer[k]}
                   \/ /\ ~ TooOld(r, k)
                      /\ Answered(r, Wanted(r), memory)[k] \in Copies(k) \cup {None}
          BY <1>0, <1>2, <1>5, <4>1, AnsweredFrom
        <4>3. Moved(r) /\ UNCHANGED seen  BY <1>0, <1>2, <3>3, <4>2, ToGoes DEF Sure
        <4> QED BY <1>0, <3>1, <4>3, QuietEffect DEF history
      <3>4. CASE To(r, "scan", Wanted(r), Nothing)
        <4>1. Moved(r) /\ UNCHANGED seen  BY <1>0, <1>2, <1>4, <3>4, ToGoes DEF Sure
        <4> QED BY <1>0, <3>1, <4>1, QuietEffect DEF history
      <3> QED BY <3>2, <3>3, <3>4
    <2> QED BY <2>1, <2>2
  <1>8. CASE GetBatchScan(r)
    <2>1. CASE ~ started  BY <1>8, <2>1, RefusedEnds DEF GetBatchScan, Effect
    <2>2. CASE started
      <3> DEFINE hits == InMemory(Wanted(r)) \ Lapsed(r, Wanted(r))
                 left == Wanted(r) \ hits
                 answer == Answered(r, hits, memory)
                 at == IF left = {} THEN "returned" ELSE "split"
      <3>1. UNCHANGED <<tiers, stale>> /\ UNCHANGED allowed /\ To(r, at, left, answer)
        BY <1>8, <2>2 DEF GetBatchScan
      <3>2. \A k \in hits : ~ TooOld(r, k)
        BY <1>0, <1>2, AboveKeys, LapsedKeys
      <3>3. left \in SUBSET Keys /\ at \in Sections /\ at # "blocks" /\ at \notin Sure
        BY <1>2 DEF Sure
      <3> HIDE DEF hits, left, at
      <3>4. /\ answer \in Tier
            /\ \A k \in Keys : \/ answer[k] \in {None, call[r].answer[k]}
                               \/ ~ TooOld(r, k) /\ answer[k] \in Copies(k) \cup {None}
        BY <1>0, <1>2, <1>5, <3>2, AnsweredFrom
      <3> HIDE DEF answer
      <3>5. Moved(r) /\ UNCHANGED seen  BY <1>0, <1>2, <3>1, <3>3, <3>4, ToGoes DEF Sure
      <3> QED BY <1>0, <3>1, <3>5, QuietEffect DEF history
    <2> QED BY <2>1, <2>2
  <1>9. CASE GetBatchSplit(r)
    <2>1. CASE ~ started  BY <1>9, <2>1, RefusedEnds DEF GetBatchSplit, Effect
    <2>2. CASE started
      <3> DEFINE ks == call[r].left
                 late == Lapsed(r, ks) \cup InMemory(ks) \cup InPmem(ks)
                 left == ks \ late
                 at == IF late # {} THEN "exclusive" ELSE "ssd"
      <3>1. UNCHANGED <<tiers, stale>> /\ UNCHANGED history
        BY <1>9, <2>2 DEF GetBatchSplit
      <3>2. call' = [call EXCEPT ![r].late = late, ![r].left = left, ![r].at = at]
        BY <1>9, <2>2 DEF GetBatchSplit
      <3>3. late \in SUBSET Keys /\ left \in SUBSET Keys  BY <1>0, <1>3, AboveKeys, LapsedKeys
      <3>4. \A k \in left : ~ TooOld(r, k)  BY LapsedKeys
      <3>5. at \in Sections /\ at # "blocks" /\ at \notin {"ssdOnly", "pmem"}  OBVIOUS
      <3> HIDE DEF late, left, at
      <3> DEFINE c == [call[r] EXCEPT !.late = late, !.left = left, !.at = at]
      <3>6. call' = [call EXCEPT ![r] = c]  BY <1>0, <1>2, <3>2 DEF Typed, CallRecords
      <3>7. /\ c \in CallRecords /\ c.op = call[r].op /\ c.batch = call[r].batch
            /\ c.lapsed = call[r].lapsed /\ c.at = at /\ c.left = left /\ c.answer = call[r].answer
        BY <1>2, <3>3, <3>5, CallFields DEF CallRecords
      <3> HIDE DEF c
      <3>8. Moved(r)  BY <1>0, <3>4, <3>5, <3>6, <3>7, Goes
      <3> QED BY <1>0, <3>1, <3>8, QuietEffect
    <2> QED BY <2>1, <2>2
  <1>10. CASE GetBatchExclusive(r)
    <2>1. CASE ~ started  BY <1>10, <2>1, RefusedEnds DEF GetBatchExclusive, Effect
    <2>2. CASE started
      <3>1. LookedUpAgain(r)  BY <1>10, <2>2 DEF GetBatchExclusive, InSection, LookedUpAgain
      <3> QED BY <3>1, <1>1, LookedUpEffect
    <2> QED BY <2>1, <2>2
  <1>11. CASE GetBatchFinish(r)
    <2>1. CASE ~ started  BY <1>11, <2>1, RefusedEnds DEF GetBatchFinish, Effect
    <2>2. CASE started
      <3>1. /\ To(r, "returned", {}, call[r].answer) /\ RefillSsd(r, call[r].left)
            /\ UNCHANGED allowed /\ call[r].at = "blocks"
        BY <1>11, <2>2 DEF GetBatchFinish, InSection
      <3> QED BY <3>1, FinishEffect
    <2> QED BY <2>1, <2>2
  <1> QED BY <1>7, <1>8, <1>9, <1>10, <1>11
\* A section that reads, and puts off nothing.
LEMMA AnswerEffect ==
    ASSUME Current, NEW r \in Readers, call[r].at # "idle",
           NEW at \in Sections, NEW left \in SUBSET Keys, NEW ks \in SUBSET Keys, NEW f \in Tier,
           To(r, at, left, Answered(r, ks, f)), UNCHANGED <<tiers, stale>>, UNCHANGED allowed,
           \A k \in ks : ~ TooOld(r, k) /\ f[k] \in Copies(k) \cup {None},
           at # "blocks", at \in Sure => \A k \in left : ~ TooOld(r, k),
           at \notin {"ssdOnly", "pmem"}
    PROVE  Effect(r)
  <1>1. Typed /\ call[r] \in CallRecords  BY ActiveCall DEF Current
  <1> DEFINE answer == Answered(r, ks, f)
  <1>2. /\ answer \in Tier
        /\ \A k \in Keys : \/ answer[k] \in {None, call[r].answer[k]}
                           \/ ~ TooOld(r, k) /\ answer[k] \in Copies(k) \cup {None}
    BY <1>1, AnsweredFrom
  <1>3. To(r, at, left, answer)  OBVIOUS
  <1> HIDE DEF answer
  <1>4. Moved(r) /\ UNCHANGED seen  BY <1>1, <1>2, <1>3, ToGoes
  <1> QED BY <1>1, <1>4, QuietEffect DEF history

\* A section that only goes on.
LEMMA EmptyEffect ==
    ASSUME Current, NEW r \in Readers, call[r].at # "idle",
           NEW at \in Sections, NEW left \in SUBSET Keys,
           To(r, at, left, Nothing), UNCHANGED <<tiers, stale>>, UNCHANGED allowed,
           at # "blocks", at \in Sure => \A k \in left : ~ TooOld(r, k),
           at \in {"ssdOnly", "pmem"} => call[r].batch[1] \in left
    PROVE  Effect(r)
  <1>1. Typed /\ call[r] \in CallRecords  BY ActiveCall DEF Current
  <1>2. Nothing \in Tier /\ \A k \in Keys : Nothing[k] = None  BY DEF Nothing, Tier
  <1>3. Moved(r) /\ UNCHANGED seen  BY <1>1, <1>2, ToGoes
  <1> QED BY <1>1, <1>3, QuietEffect DEF history

\* A section that keeps its answer.
LEMMA KeptEffect ==
    ASSUME Current, NEW r \in Readers, call[r].at # "idle",
           To(r, "returned", {}, call[r].answer), UNCHANGED <<tiers, stale>>, UNCHANGED allowed
    PROVE  Effect(r)
  <1>1. Typed /\ call[r] \in CallRecords  BY ActiveCall DEF Current
  <1>2. call[r].answer \in Tier  BY <1>1, CallFields DEF Tier
  <1>3. Moved(r) /\ UNCHANGED seen  BY <1>1, <1>2, ToGoes DEF Sections, Sure
  <1> QED BY <1>1, <1>3, QuietEffect DEF history

LEMMA SingleSections ==
    ASSUME Current, NEW r \in Readers,
           \/ GetWithTier(r) \/ PromoteProbe(r) \/ GetWithTierFinish(r)
           \/ GetNoPromotion(r) \/ GetNoPromotionFinish(r)
    PROVE  Effect(r)
  <1> USE DEF Sections
  <1>0. Typed  BY DEF Current
  <1>1. call[r].at # "idle"
    BY DEF GetWithTier, PromoteProbe, GetWithTierFinish, GetNoPromotion, GetNoPromotionFinish, InSection
  <1>2. call[r] \in CallRecords /\ Wanted(r) \in SUBSET Keys  BY <1>0, <1>1, ActiveCall
  <1>3. call[r].answer \in Tier  BY <1>2, CallFields DEF Tier
  <1> DEFINE upper == [k \in Keys |-> Upper(k)]
             k1 == call[r].batch[1]
  <1>4. upper \in Tier /\ \A k \in Keys : upper[k] \in Copies(k) \cup {None}
    BY <1>0, <1>2, AboveKeys
  <1>5. CASE GetWithTier(r)
    <2>1. CASE ~ started  BY <1>5, <2>1, RefusedEnds DEF GetWithTier, Effect
    <2>2. CASE started
      <3>1. k1 \in Keys  BY <1>0, <1>1, <1>5, ActiveCall DEF GetWithTier, InSection, Singles
      <3>2. UNCHANGED <<tiers, stale>> /\ UNCHANGED allowed  BY <1>5, <2>2 DEF GetWithTier
      <3> DEFINE at == IF InMemory({k1}) = {} THEN "promote" ELSE "returned"
      <3>3. \/ To(r, "expired", {k1}, Nothing)
            \/ ~ TooOld(r, k1) /\ To(r, "ssd", {k1}, Nothing)
            \/ ~ TooOld(r, k1) /\ To(r, at, {}, Answered(r, {k1}, upper))
        BY <1>5, <2>2 DEF GetWithTier
      <3>4. at \in Sections /\ at # "blocks" /\ at \notin Sure  BY DEF Sure
      <3> HIDE DEF upper, k1, at
      <3>5. CASE To(r, "expired", {k1}, Nothing)
        BY <1>1, <3>1, <3>2, <3>5, EmptyEffect DEF Sure
      <3>6. CASE ~ TooOld(r, k1) /\ To(r, "ssd", {k1}, Nothing)
        BY <1>1, <3>1, <3>2, <3>6, EmptyEffect
      <3>7. CASE ~ TooOld(r, k1) /\ To(r, at, {}, Answered(r, {k1}, upper))
        <4>1. {k1} \in SUBSET Keys /\ \A k \in {k1} : ~ TooOld(r, k) /\ upper[k] \in Copies(k) \cup {None}
          BY <1>4, <3>1, <3>7
        <4> QED BY <1>1, <1>4, <3>2, <3>4, <3>7, <4>1, AnswerEffect DEF Sure
      <3> QED BY <3>3, <3>5, <3>6, <3>7
    <2> QED BY <2>1, <2>2
  <1>6. CASE PromoteProbe(r)
    <2>1. k1 \in Keys  BY <1>0, <1>1, <1>6, ActiveCall DEF PromoteProbe, InSection, Singles
    <2>2. To(r, "returned", {}, call[r].answer) /\ UNCHANGED allowed  BY <1>6 DEF PromoteProbe
    <2>3. Moved(r) /\ UNCHANGED seen  BY <1>0, <1>2, <1>3, <2>2, ToGoes DEF Sure
    <2>4. PICK up \in SUBSET (IF PmemRefills /\ Promotable(k1, call[r].answer[k1]) THEN {k1} ELSE {}) :
             Settle({}, up, call[r].answer)
      BY <1>6 DEF PromoteProbe
    <2>5. \A k \in up : k \notin {} /\ call[r].answer[k] \in Copies(k) \cup {None}
      BY <1>0, <2>1, TierCopies DEF Promotable
    <2>6. {} \in SUBSET Keys /\ up \in SUBSET Keys  BY <2>1
    <2>7. Lowered  BY <1>0, <2>4, <2>5, <2>6, SettleLowers
    <2> QED BY <2>2, <2>3, <2>7 DEF Effect, history
  <1>7. CASE GetWithTierFinish(r)
    BY <1>7, FinishEffect DEF GetWithTierFinish, InSection
  <1>8. CASE GetNoPromotion(r)
    <2>1. CASE ~ started  BY <1>8, <2>1, RefusedEnds DEF GetNoPromotion, Effect
    <2>2. CASE started
      <3> DEFINE ks == Wanted(r) \ Lapsed(r, Wanted(r))
                 above == {k \in ks : /\ Upper(k) # None
                                      /\ ssdOnly => call[r].op = "get_no_promotion"}
                 left == ks \ above
                 at == IF ks = above THEN "returned" ELSE "ssd"
      <3>1. /\ To(r, at, left, Answered(r, above, upper))
            /\ UNCHANGED <<tiers, stale>> /\ UNCHANGED allowed
        BY <1>8, <2>2 DEF GetNoPromotion
      <3>2. ks \in SUBSET Keys /\ \A k \in ks : ~ TooOld(r, k)  BY <1>2, LapsedKeys
      <3>3. above \in SUBSET Keys /\ left \in SUBSET Keys /\ \A k \in left : ~ TooOld(r, k)
        BY <3>2
      <3>4. \A k \in above : ~ TooOld(r, k) /\ upper[k] \in Copies(k) \cup {None}
        BY <1>4, <3>2
      <3>5. at \in Sections /\ at # "blocks" /\ at \notin {"ssdOnly", "pmem"}  OBVIOUS
      <3> HIDE DEF upper, ks, above, left, at
      <3> QED BY <1>1, <1>4, <3>1, <3>3, <3>4, <3>5, AnswerEffect
    <2> QED BY <2>1, <2>2
  <1>9. CASE GetNoPromotionFinish(r)
    BY <1>1, <1>9, KeptEffect DEF GetNoPromotionFinish
  <1> QED BY <1>5, <1>6, <1>7, <1>8, <1>9

LEMMA AcquireSections ==
    ASSUME Current, NEW r \in Readers,
           Acquire(r) \/ AcquirePin(r) \/ AcquireSsdOnly(r) \/ AcquirePmem(r) \/ AcquireFinish(r)
    PROVE  Effect(r)
  <1> USE DEF Sections
  <1>0. Typed  BY DEF Current
  <1>1. call[r].at # "idle"
    BY DEF Acquire, AcquirePin, AcquireSsdOnly, AcquirePmem, AcquireFinish, InSection
  <1>2. call[r] \in CallRecords  BY <1>0, <1>1, ActiveCall
  <1> DEFINE k1 == call[r].batch[1]
  <1>3. k1 \in Keys
    BY <1>0, <1>1, ActiveCall
       DEF Acquire, AcquirePin, AcquireSsdOnly, AcquirePmem, AcquireFinish, InSection, Singles
  <1>4. memory \in Tier /\ pmem \in Tier /\ ssd \in Tier  BY <1>0 DEF Typed
  <1>5. call[r].at \in {"ssdOnly", "pmem"} => ~ TooOld(r, k1)
    BY <1>1 DEF Current, Active, Followed, Sure
  <1> HIDE DEF k1
  <1>6. {k1} \in SUBSET Keys  BY <1>3
  <1>7. /\ memory[k1] \in Copies(k1) \cup {None} /\ pmem[k1] \in Copies(k1) \cup {None}
        /\ ssd[k1] \in Copies(k1) \cup {None}
    BY <1>0, <1>3, TierCopies
  <1>8. CASE Acquire(r)
    <2>1. CASE ~ started  BY <1>8, <2>1, RefusedEnds DEF Acquire, Effect
    <2>2. CASE started
      <3>1. UNCHANGED <<tiers, stale>> /\ UNCHANGED allowed  BY <1>8, <2>2 DEF Acquire
      <3>2. \/ To(r, "expired", {k1}, Nothing)
            \/ ~ TooOld(r, k1) /\ To(r, "pin", {}, Answered(r, {k1}, memory))
            \/ ~ TooOld(r, k1) /\ To(r, "ssdOnly", {k1}, Nothing)
        BY <1>8, <2>2 DEF Acquire, k1
      <3>3. CASE To(r, "expired", {k1}, Nothing)
        BY <1>1, <1>6, <3>1, <3>3, EmptyEffect DEF Sure
      <3>4. CASE ~ TooOld(r, k1) /\ To(r, "pin", {}, Answered(r, {k1}, memory))
        BY <1>1, <1>4, <1>6, <1>7, <3>1, <3>4, AnswerEffect DEF Sure
      <3>5. CASE ~ TooOld(r, k1) /\ To(r, "ssdOnly", {k1}, Nothing)
        <4>1. call[r].batch[1] \in {k1}  BY DEF k1
        <4> QED BY <1>1, <1>6, <3>1, <3>5, <4>1, EmptyEffect
      <3> QED BY <3>2, <3>3, <3>4, <3>5
    <2> QED BY <2>1, <2>2
  <1>9. CASE AcquirePin(r)
    BY <1>1, <1>9, KeptEffect DEF AcquirePin, tiers
  <1>10. CASE AcquireSsdOnly(r)
    <2>1. CASE ~ started  BY <1>10, <2>1, RefusedEnds DEF AcquireSsdOnly, Effect
    <2>2. CASE started
      <3>1. UNCHANGED <<tiers, stale>> /\ UNCHANGED allowed  BY <1>10, <2>2 DEF AcquireSsdOnly
      <3>2. ~ TooOld(r, k1)  BY <1>5, <1>10 DEF AcquireSsdOnly, InSection
      <3>3. \/ To(r, "returned", {}, Answered(r, {k1}, ssd))
            \/ To(r, "pmem", {k1}, Nothing)
        BY <1>10, <2>2 DEF AcquireSsdOnly, k1
      <3>4. CASE To(r, "returned", {}, Answered(r, {k1}, ssd))
        BY <1>1, <1>4, <1>6, <1>7, <3>1, <3>2, <3>4, AnswerEffect DEF Sure
      <3>5. CASE To(r, "pmem", {k1}, Nothing)
        <4>1. call[r].batch[1] \in {k1}  BY DEF k1
        <4> QED BY <1>1, <1>6, <3>1, <3>2, <3>5, <4>1, EmptyEffect
      <3> QED BY <3>3, <3>4, <3>5
    <2> QED BY <2>1, <2>2
  <1>11. CASE AcquirePmem(r)
    <2>1. CASE ~ started  BY <1>11, <2>1, RefusedEnds DEF AcquirePmem, Effect
    <2>2. CASE started /\ pmem[k1] = None
      <3>1. ~ TooOld(r, k1)  BY <1>5, <1>11 DEF AcquirePmem, InSection
      <3>2. /\ To(r, "ssd", {k1}, Nothing)
            /\ UNCHANGED <<tiers, stale>> /\ UNCHANGED allowed
        BY <1>11, <2>2 DEF AcquirePmem, k1
      <3> QED BY <1>1, <1>6, <3>1, <3>2, EmptyEffect
    <2>3. CASE started /\ pmem[k1] # None
      <3>1. ~ TooOld(r, k1)  BY <1>5, <1>11 DEF AcquirePmem, InSection
      <3> DEFINE answer == Answered(r, {k1}, pmem)
      <3>2. To(r, "returned", {}, answer) /\ UNCHANGED allowed  BY <1>11, <2>3 DEF AcquirePmem, k1
      <3>3. PICK up \in SUBSET {k1} : Settle({}, up, pmem)  BY <1>11, <2>3 DEF AcquirePmem, k1
      <3>4. /\ answer \in Tier
            /\ \A k \in Keys : \/ answer[k] \in {None, call[r].answer[k]}
                               \/ ~ TooOld(r, k) /\ answer[k] \in Copies(k) \cup {None}
        BY <1>0, <1>2, <1>4, <1>7, <3>1, AnsweredFrom
      <3> HIDE DEF answer
      <3>5. Moved(r) /\ UNCHANGED seen  BY <1>0, <1>2, <3>2, <3>4, ToGoes DEF Sure
      <3>6. \A k \in up : k \notin {} /\ pmem[k] \in Copies(k) \cup {None}  BY <1>7
      <3>7. Lowered  BY <1>0, <1>6, <3>3, <3>6, SettleLowers
      <3> QED BY <3>2, <3>5, <3>7 DEF Effect, history
    <2> QED BY <2>1, <2>2, <2>3
  <1>12. CASE AcquireFinish(r)
    BY <1>12, FinishEffect DEF AcquireFinish, InSection
  <1> QED BY <1>8, <1>9, <1>10, <1>11, <1>12
LEMMA AcquireNoPromotionSections ==
    ASSUME Current, NEW r \in Readers, AcquireNoPromotion(r) \/ AcquireNoPromotionFinish(r)
    PROVE  Effect(r)
  <1> USE DEF Sections
  <1>0. Typed  BY DEF Current
  <1>1. call[r].at # "idle"  BY DEF AcquireNoPromotion, AcquireNoPromotionFinish
  <1>2. call[r] \in CallRecords /\ Wanted(r) \in SUBSET Keys  BY <1>0, <1>1, ActiveCall
  <1>3. CASE AcquireNoPromotion(r)
    <2>1. CASE ~ started  BY <1>3, <2>1, RefusedEnds DEF AcquireNoPromotion, Effect
    <2>2. CASE started
      <3> DEFINE old == Lapsed(r, Wanted(r))
                 single == call[r].op = "acquire_no_promotion"
                 above == {k \in Wanted(r) \ old : Upper(k) # None /\ (ssdOnly => single)}
                 rest == Wanted(r) \ (old \cup above)
                 left == IF single /\ old # {} THEN old ELSE rest
                 upper == [k \in Keys |-> Upper(k)]
                 answer == Answered(r, above, upper)
                 at == IF old # {} THEN IF single THEN "expired" ELSE "drop"
                       ELSE IF rest # {} THEN "ssd" ELSE "returned"
                 c == [call[r] EXCEPT !.late = old, !.left = left, !.answer = answer, !.at = at]
      <3>1. UNCHANGED <<tiers, stale>> /\ UNCHANGED history
        BY <1>3, <2>2 DEF AcquireNoPromotion
      <3>2. call' = [call EXCEPT ![r].late = old, ![r].left = left, ![r].answer = answer, ![r].at = at]
        BY <1>3, <2>2 DEF AcquireNoPromotion
      <3>3. old \in SUBSET Keys /\ \A k \in Wanted(r) \ old : ~ TooOld(r, k)  BY <1>2, LapsedKeys
      <3>4. above \in SUBSET Keys /\ left \in SUBSET Keys /\ \A k \in above : ~ TooOld(r, k)
        BY <1>2, <3>3
      <3>5. upper \in Tier /\ \A k \in Keys : upper[k] \in Copies(k) \cup {None}
        BY <1>0, <1>2, AboveKeys
      <3>6. at \in Sure => \A k \in left : ~ TooOld(r, k)  BY <3>3 DEF Sure
      <3>7. at \in Sections /\ at # "blocks" /\ at \notin {"ssdOnly", "pmem"}  OBVIOUS
      <3> HIDE DEF old, above, left, at, upper
      <3>8. /\ answer \in Tier
            /\ \A k \in Keys : \/ answer[k] \in {None, call[r].answer[k]}
                               \/ ~ TooOld(r, k) /\ answer[k] \in Copies(k) \cup {None}
        BY <1>0, <1>2, <3>4, <3>5, AnsweredFrom
      <3> HIDE DEF answer
      <3>9. call' = [call EXCEPT ![r] = c]  BY <1>0, <1>2, <3>2 DEF Typed, CallRecords
      <3>10. /\ c \in CallRecords /\ c.op = call[r].op /\ c.batch = call[r].batch
             /\ c.lapsed = call[r].lapsed /\ c.at = at /\ c.left = left /\ c.answer = answer
        BY <1>2, <3>3, <3>4, <3>7, <3>8, CallFields DEF CallRecords
      <3> HIDE DEF c
      <3>11. Moved(r)  BY <1>0, <3>6, <3>7, <3>8, <3>9, <3>10, Goes
      <3> QED BY <1>0, <3>1, <3>11, QuietEffect
    <2> QED BY <2>1, <2>2
  <1>4. CASE AcquireNoPromotionFinish(r)
    <2>1. \/ Refused(r)
          \/ /\ To(r, "returned", {}, call[r].answer)
             /\ UNCHANGED <<tiers, stale>> /\ UNCHANGED allowed
      BY <1>4 DEF AcquireNoPromotionFinish
    <2> QED BY <1>1, <2>1, RefusedEnds, KeptEffect DEF Effect
  <1> QED BY <1>3, <1>4

LEMMA AcquireBatchSections ==
    ASSUME Current, NEW r \in Readers,
           \/ AcquireBatchSsdOnly(r) \/ AcquireBatchScan(r) \/ AcquireBatchSplit(r)
           \/ AcquireBatchExclusive(r) \/ AcquireBatchFinish(r)
    PROVE  Effect(r)
  <1> USE DEF Sections
  <1>0. Typed  BY DEF Current
  <1>1. call[r].at # "idle"
    BY DEF AcquireBatchSsdOnly, AcquireBatchScan, AcquireBatchSplit, AcquireBatchExclusive,
           AcquireBatchFinish, InSection
  <1>2. call[r] \in CallRecords /\ Wanted(r) \in SUBSET Keys  BY <1>0, <1>1, ActiveCall
  <1>3. call[r].left \in SUBSET Keys /\ call[r].late \in SUBSET Keys /\ call[r].answer \in Tier
    BY <1>2, CallFields DEF Tier
  <1>4. memory \in Tier /\ ssd \in Tier /\ \A k \in Keys : /\ memory[k] \in Copies(k) \cup {None}
                                                           /\ ssd[k] \in Copies(k) \cup {None}
    BY <1>0, TierCopies DEF Typed
  <1>5. CASE AcquireBatchSsdOnly(r)
    <2>1. CASE ssdOnly /\ ~ started  BY <1>5, <2>1, RefusedEnds DEF AcquireBatchSsdOnly, Effect
    <2>2. CASE ssdOnly /\ started
      <3> DEFINE old == Lapsed(r, Wanted(r))
                 hits == {k \in Wanted(r) \ old : ssd[k] # None}
                 answer == Answered(r, hits, ssd)
                 at == IF old = {} THEN "returned" ELSE "drop"
                 left == call[r].left
                 c == [call[r] EXCEPT !.late = old, !.left = left, !.answer = answer, !.at = at]
      <3>1. UNCHANGED <<tiers, stale>> /\ UNCHANGED history
        BY <1>5, <2>2 DEF AcquireBatchSsdOnly
      <3>2. call' = [call EXCEPT ![r].late = old, ![r].answer = answer, ![r].at = at]
        BY <1>5, <2>2 DEF AcquireBatchSsdOnly
      <3>3. old \in SUBSET Keys /\ hits \in SUBSET Keys /\ \A k \in hits : ~ TooOld(r, k)
        BY <1>2, LapsedKeys
      <3>4. \A k \in left : ~ TooOld(r, k)
        BY <1>5 DEF AcquireBatchSsdOnly, InSection, Current, Active, Followed, Sure
      <3>5. at \in Sections /\ at # "blocks" /\ at \notin {"ssdOnly", "pmem"}  OBVIOUS
      <3> HIDE DEF old, hits, at
      <3>6. /\ answer \in Tier
            /\ \A k \in Keys : \/ answer[k] \in {None, call[r].answer[k]}
                               \/ ~ TooOld(r, k) /\ answer[k] \in Copies(k) \cup {None}
        BY <1>0, <1>2, <1>4, <3>3, AnsweredFrom
      <3> HIDE DEF answer
      <3>7. call' = [call EXCEPT ![r] = c]  BY <1>0, <1>2, <3>2 DEF Typed, CallRecords
      <3>8. /\ c \in CallRecords /\ c.op = call[r].op /\ c.batch = call[r].batch
            /\ c.lapsed = call[r].lapsed /\ c.at = at /\ c.left = left /\ c.answer = answer
        BY <1>2, <1>3, <3>3, <3>5, <3>6, CallFields DEF CallRecords
      <3> HIDE DEF c, left
      <3>9. Moved(r)  BY <1>0, <3>4, <3>5, <3>6, <3>7, <3>8, Goes
      <3> QED BY <1>0, <3>1, <3>9, QuietEffect
    <2>3. CASE ~ ssdOnly
      <3> DEFINE c == [call[r] EXCEPT !.at = "scan"]
      <3>1. UNCHANGED <<tiers, stale>> /\ UNCHANGED history
        BY <1>5, <2>3 DEF AcquireBatchSsdOnly
      <3>2. call' = [call EXCEPT ![r] = c]
        BY <1>0, <1>2, <1>5, <2>3 DEF AcquireBatchSsdOnly, Typed
      <3>3. /\ c \in CallRecords /\ c.op = call[r].op /\ c.batch = call[r].batch
            /\ c.lapsed = call[r].lapsed /\ c.at = "scan" /\ c.answer = call[r].answer
        BY <1>2, CallFields DEF CallRecords
      <3> HIDE DEF c
      <3>4. Moved(r)  BY <1>0, <3>2, <3>3, Goes DEF Sure
      <3> QED BY <1>0, <3>1, <3>4, QuietEffect
    <2> QED BY <2>1, <2>2, <2>3
  <1>6. CASE AcquireBatchScan(r)
    <2>1. CASE ~ started  BY <1>6, <2>1, RefusedEnds DEF AcquireBatchScan, Effect
    <2>2. CASE started
      <3> DEFINE hits == InMemory(Wanted(r)) \ Lapsed(r, Wanted(r))
                 left == Wanted(r) \ hits
      <3>1. /\ To(r, "split", left, Answered(r, hits, memory))
            /\ UNCHANGED <<tiers, stale>> /\ UNCHANGED allowed
        BY <1>6, <2>2 DEF AcquireBatchScan
      <3>2. /\ hits \in SUBSET Keys /\ left \in SUBSET Keys
            /\ \A k \in hits : ~ TooOld(r, k) /\ memory[k] \in Copies(k) \cup {None}
        BY <1>0, <1>2, <1>4, AboveKeys, LapsedKeys
      <3> HIDE DEF hits, left
      <3> QED BY <1>1, <1>4, <3>1, <3>2, AnswerEffect DEF Sure
    <2> QED BY <2>1, <2>2
  <1>7. CASE AcquireBatchSplit(r)
    <2>1. CASE ~ started  BY <1>7, <2>1, RefusedEnds DEF AcquireBatchSplit, Effect
    <2>2. CASE started
      <3> DEFINE ks == call[r].left
                 late == Lapsed(r, ks) \cup {k \in ks : Upper(k) # None}
                 left == ks \ late
                 answer == call[r].answer
                 at == IF late # {} THEN "exclusive" ELSE IF ks # {} THEN "ssd" ELSE "returned"
                 c == [call[r] EXCEPT !.late = late, !.left = left, !.answer = answer, !.at = at]
      <3>1. UNCHANGED <<tiers, stale>> /\ UNCHANGED history
        BY <1>7, <2>2 DEF AcquireBatchSplit
      <3>2. call' = [call EXCEPT ![r].late = late, ![r].left = left, ![r].at = at]
        BY <1>7, <2>2 DEF AcquireBatchSplit
      <3>3. late \in SUBSET Keys /\ left \in SUBSET Keys /\ \A k \in left : ~ TooOld(r, k)
        BY <1>3, LapsedKeys
      <3>4. at \in Sections /\ at # "blocks" /\ at \notin {"ssdOnly", "pmem"}  OBVIOUS
      <3> HIDE DEF late, left, at
      <3>5. call' = [call EXCEPT ![r] = c]  BY <1>0, <1>2, <3>2 DEF Typed, CallRecords
      <3>6. /\ c \in CallRecords /\ c.op = call[r].op /\ c.batch = call[r].batch
            /\ c.lapsed = call[r].lapsed /\ c.at = at /\ c.left = left /\ c.answer = answer
        BY <1>2, <1>3, <3>3, <3>4, CallFields DEF CallRecords
      <3> HIDE DEF c
      <3>7. Moved(r)  BY <1>0, <3>3, <3>4, <3>5, <3>6, Goes
      <3> QED BY <1>0, <3>1, <3>7, QuietEffect
    <2> QED BY <2>1, <2>2
  <1>8. CASE AcquireBatchExclusive(r)
    <2>1. CASE ~ started  BY <1>8, <2>1, RefusedEnds DEF AcquireBatchExclusive, Effect
    <2>2. CASE started
      <3>1. LookedUpAgain(r)  BY <1>8, <2>2 DEF AcquireBatchExclusive, InSection, LookedUpAgain
      <3> QED BY <3>1, LookedUpEffect
    <2> QED BY <2>1, <2>2
  <1>9. CASE AcquireBatchFinish(r)
    <2>1. CASE ~ started  BY <1>9, <2>1, RefusedEnds DEF AcquireBatchFinish, Effect
    <2>2. CASE started
      <3>1. /\ To(r, "returned", {}, call[r].answer) /\ RefillSsd(r, call[r].left)
            /\ UNCHANGED allowed /\ call[r].at = "blocks"
        BY <1>9, <2>2 DEF AcquireBatchFinish, InSection
      <3> QED BY <3>1, FinishEffect
    <2> QED BY <2>1, <2>2
  <1> QED BY <1>5, <1>6, <1>7, <1>8, <1>9

\* Every section of every read is one of the four kinds.
LEMMA SectionEffect ==
    ASSUME Current, NEW r \in Readers, Section(r)
    PROVE  Effect(r)
  BY SharedSections, GetSharedSections, GetBatchSections, SingleSections, AcquireSections,
     AcquireNoPromotionSections, AcquireBatchSections
     DEF Section
-----------------------------------------------------------------------------
(* What a step preserves, kind by kind.                                    *)

\* Calls that go on have the clock they had.
SameClocks == \A q \in Readers : call'[q].at # "idle" =>
                  call[q].at # "idle" /\ call'[q].lapsed = call[q].lapsed

LEMMA CopiesNotNone == \A k \in Keys : None \notin Copies(k)
  BY DEF Copies

\* Copies that go or move leave what a tier holds of a live key allowed.
LEMMA LoweredAllowed ==
    ASSUME Current, Lowered, UNCHANGED allowed
    PROVE  \A k \in Keys \ expired' : Copies(k)' \subseteq allowed'[k]
  <1>1. PICK old \in SUBSET Keys :
          /\ expired' = expired \ old
          /\ \A k \in Keys : Copies(k)' \subseteq IF k \in old THEN {} ELSE Copies(k)
    BY DEF Lowered
  <1>2. \A k \in Keys \ expired : Copies(k) \subseteq allowed[k]  BY DEF Current
  <1> QED BY <1>1, <1>2

\* A call that stays where it is while copies go or move.
LEMMA LoweredOther ==
    ASSUME Current, Lowered, UNCHANGED allowed, SameClocks,
           NEW q \in Readers, call'[q] = call[q], call[q].at # "idle", seen'[q] = seen[q]
    PROVE  Followed(q)' /\ Vouched(q)'
  <1>1. PICK old \in SUBSET Keys :
          /\ expired' = expired \ old
          /\ \A k \in Keys : Copies(k)' \subseteq IF k \in old THEN {} ELSE Copies(k)
          /\ \A p \in Readers : stale[p] \cup old \subseteq stale'[p]
    BY DEF Lowered
  <1>2. Followed(q) /\ Vouched(q)  BY DEF Current, Active
  <1>3. call[q] \in CallRecords  BY ActiveCall DEF Current
  <1>4. call[q].left \in SUBSET Keys /\ call[q].lapsed \in SUBSET Keys  BY <1>3, CallFields
  <1>5. \A k \in Keys : ~ TooOld(q, k)' => Copies(k)' \subseteq seen[q][k]
    BY <1>1, <1>2 DEF Followed, TooOld
  <1>6. \A k \in call'[q].lapsed \ expired' : Copies(k)' = {}
    BY <1>1, <1>2, <1>4 DEF Followed
  <1>7. call'[q].at \in Sure => \A k \in call'[q].left : ~ TooOld(q, k)'
    BY <1>1, <1>2 DEF Followed, TooOld
  <1>8. Followed(q)'
    BY <1>2, <1>5, <1>6, <1>7 DEF Followed
  <1>9. Vouched(q)'
    <2> SUFFICES ASSUME call[q].at = "blocks", NEW k \in call[q].left \ stale'[q],
                        call[q].answer[k] # None
                 PROVE  /\ k \notin expired' => call[q].answer[k] \in allowed[k]
                        /\ \A p \in Readers : call'[p].at # "idle" => k \notin call'[p].lapsed \ expired'
      BY DEF Vouched, Active
    <2>1. k \notin stale[q] /\ k \notin old  BY <1>1
    <2>2. /\ k \notin expired => call[q].answer[k] \in allowed[k]
          /\ \A p \in Readers : call[p].at # "idle" => k \notin call[p].lapsed \ expired
      BY <1>2, <2>1 DEF Vouched, Active
    <2> QED BY <1>1, <2>1, <2>2 DEF SameClocks
  <1> QED BY <1>8, <1>9

\* The call that moves on.
LEMMA LoweredMover ==
    ASSUME Current, Lowered, UNCHANGED history, NEW r \in Readers, call[r].at # "idle", Moved(r)
    PROVE  Followed(r)' /\ Vouched(r)'
  <1>1. PICK old \in SUBSET Keys :
          /\ expired' = expired \ old
          /\ \A k \in Keys : Copies(k)' \subseteq IF k \in old THEN {} ELSE Copies(k)
    BY DEF Lowered
  <1>2. Followed(r)  BY DEF Current, Active
  <1>3. call[r] \in CallRecords  BY ActiveCall DEF Current
  <1>4. call[r].lapsed \in SUBSET Keys  BY <1>3, CallFields
  <1>5. call'[r].lapsed = call[r].lapsed  BY DEF Moved
  <1>6. \A k \in Keys : ~ TooOld(r, k)' => Copies(k)' \subseteq seen'[r][k]
    BY <1>1, <1>2, <1>5 DEF Followed, TooOld, history
  <1>7. \A k \in call'[r].lapsed \ expired' : Copies(k)' = {}
    BY <1>1, <1>2, <1>4, <1>5 DEF Followed
  <1>8. \A k \in Keys : call'[r].answer[k] \in seen'[r][k] \cup {None}
    BY <1>2 DEF Followed, Moved, history
  <1>9. call'[r].at \in Sure => \A k \in call'[r].left : ~ TooOld(r, k)'
    BY <1>1, <1>5 DEF Moved, TooOld
  <1>10. \A k \in Keys : allowed'[k] \subseteq seen'[r][k]  BY <1>2 DEF Followed, history
  <1>11. Followed(r)'  BY <1>6, <1>7, <1>8, <1>9, <1>10 DEF Followed, Moved
  <1>12. Vouched(r)'  BY DEF Vouched, Moved
  <1> QED BY <1>11, <1>12

\* Types, for a call that moves.
LEMMA MovedTypes ==
    ASSUME Typed, NEW r \in Readers, Moved(r),
           memory' \in Tier, pmem' \in Tier, ssd' \in Tier, expired' \in SUBSET Keys,
           stale' \in [Readers -> SUBSET Keys], UNCHANGED history
    PROVE  Typed'
  <1>1. \A q \in Readers : call'[q].op \in Singles => Len(call'[q].batch) = 1
    BY DEF Moved, Typed
  <1> QED BY <1>1 DEF Typed, Moved, history

LEMMA MovedClocks ==
    ASSUME NEW r \in Readers, call[r].at # "idle", Moved(r)
    PROVE  SameClocks
  BY DEF SameClocks, Moved

LEMMA MovesKeep ==
    ASSUME Current, NEW r \in Readers, call[r].at # "idle", Moved(r), Lowered, UNCHANGED history
    PROVE  Current'
  <1>1. /\ memory' \in Tier /\ pmem' \in Tier /\ ssd' \in Tier /\ expired' \in SUBSET Keys
        /\ stale' \in [Readers -> SUBSET Keys]
    BY DEF Lowered, Current, Typed
  <1>2. Typed'  BY <1>1, MovedTypes DEF Current
  <1>3. \A k \in Keys \ expired' : Copies(k)' \subseteq allowed'[k]
    BY LoweredAllowed DEF history
  <1>4. SameClocks  BY MovedClocks
  <1>5. ASSUME NEW q \in Readers, call'[q].at # "idle" PROVE Followed(q)' /\ Vouched(q)'
    <2>1. CASE q = r  BY <2>1, LoweredMover
    <2>2. CASE q # r
      <3>1. call'[q] = call[q] /\ seen'[q] = seen[q] /\ UNCHANGED allowed
        BY <2>2 DEF Moved, history
      <3> QED BY <1>4, <1>5, <3>1, LoweredOther
    <2> QED BY <2>1, <2>2
  <1> QED BY <1>2, <1>3, <1>5 DEF Current, Active

LEMMA EndedKeeps ==
    ASSUME Current, NEW r \in Readers, Ended(r)
    PROVE  Current'
  <1>1. Typed /\ call \in [Readers -> CallRecords \cup {Idle}]  BY DEF Current, Typed
  <1>2. /\ call' \in [Readers -> CallRecords \cup {Idle}] /\ call'[r] = Idle
        /\ \A q \in Readers \ {r} : call'[q] = call[q]
    BY <1>1 DEF Ended
  <1>3. /\ seen' \in [Readers -> [Keys -> SUBSET Values]]
        /\ \A q \in Readers \ {r} : seen'[q] = seen[q]
    BY DEF Ended, Current, Typed
  <1>4. UNCHANGED <<tiers, stale>> /\ UNCHANGED allowed  BY DEF Ended
  <1>5. Typed'
    <2>1. \A q \in Readers : call'[q].op \in Singles => Len(call'[q].batch) = 1
      BY <1>1, <1>2, IdleFields DEF Typed
    <2> QED BY <1>1, <1>2, <1>3, <1>4, <2>1 DEF Typed, tiers
  <1>6. Lowered  BY <1>1, <1>4, StaysLowered
  <1>7. SameClocks  BY <1>2, IdleFields DEF SameClocks
  <1>8. ASSUME NEW q \in Readers, call'[q].at # "idle" PROVE Followed(q)' /\ Vouched(q)'
    <2>1. q # r  BY <1>2, <1>8, IdleFields
    <2> QED BY <1>2, <1>3, <1>4, <1>6, <1>7, <1>8, <2>1, LoweredOther
  <1> QED BY <1>4, <1>5, <1>6, <1>8, LoweredAllowed DEF Current, Active
\* A call that nothing happens to.
LEMMA Undisturbed ==
    ASSUME Current, UNCHANGED <<tiers, allowed>>, SameClocks,
           NEW q \in Readers, call'[q] = call[q], call[q].at # "idle", seen'[q] = seen[q],
           stale'[q] = stale[q]
    PROVE  Followed(q)' /\ Vouched(q)'
  <1>1. Followed(q) /\ Vouched(q)  BY DEF Current, Active
  <1>2. \A k \in Keys : Copies(k)' = Copies(k)  BY DEF Copies, tiers
  <1>3. expired' = expired  BY DEF tiers
  <1>4. call[q].left \in SUBSET Keys /\ call[q].lapsed \in SUBSET Keys
    BY ActiveCall, CallFields DEF Current
  <1>5. Followed(q)'  BY <1>1, <1>2, <1>3, <1>4 DEF Followed, TooOld
  <1>6. Vouched(q)'  BY <1>1, <1>3 DEF Vouched, Active, SameClocks
  <1> QED BY <1>5, <1>6

\* The SSD read: what it finds is what a refill may install, for now.
LEMMA ReadSsdKeeps ==
    ASSUME Current, NEW r \in Readers, call[r].at = "ssd", ReadSsdBlocks(r), started
    PROVE  Current'
  <1>0. Typed  BY DEF Current
  <1>1. call[r] \in CallRecords  BY <1>0, ActiveCall
  <1>2. /\ call[r].left \in SUBSET Keys /\ call[r].lapsed \in SUBSET Keys
        /\ call[r].answer \in [Keys -> Values \cup {None}]
    BY <1>1, CallFields
  <1>3. Followed(r)  BY DEF Current, Active
  <1> DEFINE answer == Answered(r, call[r].left, ssd)
             c == [call[r] EXCEPT !.at = "blocks", !.left = call[r].left, !.answer = answer]
  <1>4. /\ UNCHANGED <<tiers, allowed>> /\ UNCHANGED seen
        /\ stale' = [stale EXCEPT ![r] = {}]
    BY DEF ReadSsdBlocks, To
  <1>5. call' = [call EXCEPT ![r] = c]  BY <1>0 DEF ReadSsdBlocks, To, Typed
  <1>6. ssd \in [Keys -> Values \cup {None}]  BY <1>0 DEF Typed, Tier
  <1>7. /\ answer \in Tier
        /\ \A k \in call[r].left : answer[k] = ssd[k]
        /\ \A k \in Keys \ call[r].left : answer[k] = call[r].answer[k]
    BY <1>2, <1>6 DEF Answered, Tier
  <1> HIDE DEF answer
  <1>8. /\ c \in CallRecords /\ c.op = call[r].op /\ c.batch = call[r].batch
        /\ c.lapsed = call[r].lapsed /\ c.at = "blocks" /\ c.left = call[r].left /\ c.answer = answer
    BY <1>1, <1>7, CallFields DEF CallRecords, Sections
  <1> HIDE DEF c
  <1>9. /\ call' \in [Readers -> CallRecords \cup {Idle}] /\ call'[r] = c
        /\ \A q \in Readers \ {r} : call'[q] = call[q]
    BY <1>0, <1>5, <1>8 DEF Typed
  <1>10. Typed'
    <2>1. \A q \in Readers : call'[q].op \in Singles => Len(call'[q].batch) = 1
      BY <1>0, <1>8, <1>9 DEF Typed
    <2> QED BY <1>0, <1>4, <1>9, <2>1 DEF Typed, tiers
  <1>11. \A k \in Keys : Copies(k)' = Copies(k)  BY <1>4 DEF Copies, tiers
  <1>12. expired' = expired  BY <1>4 DEF tiers
  <1>13. \A k \in Keys \ expired' : Copies(k)' \subseteq allowed'[k]
    BY <1>4, <1>11, <1>12 DEF Current
  <1>14. SameClocks  BY <1>8, <1>9 DEF SameClocks
  <1>15. Followed(r)'
    <2>1. \A k \in call[r].left : ~ TooOld(r, k)  BY <1>3 DEF Followed, Sure
    <2>2. \A k \in Keys : answer[k] \in seen[r][k] \cup {None}
      <3> SUFFICES ASSUME NEW k \in Keys PROVE answer[k] \in seen[r][k] \cup {None}  OBVIOUS
      <3>1. CASE k \in call[r].left
        <4>1. Copies(k) \subseteq seen[r][k]  BY <1>3, <2>1, <3>1 DEF Followed
        <4>2. answer[k] \in Copies(k) \cup {None}  BY <1>0, <1>7, <3>1, TierCopies
        <4> QED BY <4>1, <4>2
      <3>2. CASE k \notin call[r].left  BY <1>3, <1>7, <3>2 DEF Followed
      <3> QED BY <3>1, <3>2
    <2> QED BY <1>2, <1>3, <1>4, <1>8, <1>9, <1>11, <1>12, <2>1, <2>2 DEF Followed, TooOld
  <1>16. Vouched(r)'
    <2> SUFFICES ASSUME NEW k \in call[r].left, answer[k] # None
                 PROVE  /\ k \notin expired => answer[k] \in allowed[k]
                        /\ \A p \in Readers : call'[p].at # "idle" => k \notin call'[p].lapsed \ expired
      BY <1>4, <1>8, <1>9, <1>12 DEF Vouched, Active
    <2>1. answer[k] \in Copies(k)  BY <1>0, <1>2, <1>7, TierCopies
    <2>2. k \notin expired => answer[k] \in allowed[k]  BY <1>2, <2>1 DEF Current
    <2>3. \A p \in Readers : call[p].at # "idle" => k \notin call[p].lapsed \ expired
      BY <2>1 DEF Current, Active, Followed
    <2> QED BY <1>14, <2>2, <2>3 DEF SameClocks
  <1>17. ASSUME NEW q \in Readers, call'[q].at # "idle" PROVE Followed(q)' /\ Vouched(q)'
    <2>1. CASE q = r  BY <1>15, <1>16, <2>1
    <2>2. CASE q # r
      <3>1. stale'[q] = stale[q] /\ call'[q] = call[q] /\ seen'[q] = seen[q]
        BY <1>0, <1>4, <1>9, <2>2 DEF Typed
      <3> QED BY <1>4, <1>14, <1>17, <3>1, Undisturbed
    <2> QED BY <2>1, <2>2
  <1> QED BY <1>10, <1>13, <1>17 DEF Current, Active

\* The refill: what it adds is allowed, and no call took its key for expired.
LEMMA RefillAdds ==
    ASSUME Current, NEW r \in Readers, call[r].at = "blocks", RefillSsd(r, call[r].left)
    PROVE  /\ memory' \in Tier /\ pmem' \in Tier /\ ssd' \in Tier
           /\ expired' = expired
           /\ stale' \in [Readers -> SUBSET Keys] /\ \A q \in Readers : stale[q] \subseteq stale'[q]
           /\ \A k \in Keys :
                \/ Copies(k)' = Copies(k)
                \/ /\ Copies(k)' \subseteq Copies(k) \cup allowed[k] /\ k \notin expired
                   /\ \A q \in Readers : call[q].at # "idle" => k \notin call[q].lapsed
  <1>0. Typed  BY DEF Current
  <1>1. call[r] \in CallRecords  BY <1>0, ActiveCall
  <1>2. call[r].left \in SUBSET Keys /\ call[r].answer \in [Keys -> Values \cup {None}]
    BY <1>1, CallFields
  <1>3. Vouched(r)  BY DEF Current, Active
  <1> DEFINE fit == {k \in call[r].left \ stale[r] :
                       /\ call[r].answer[k] # None /\ ~ ssdOnly /\ started
                       /\ memory[k] = None /\ pmem[k] = None /\ k \notin expired}
  <1>4. PICK up \in SUBSET fit, mid \in SUBSET fit, quiet \in BOOLEAN :
          /\ memory' = [k \in Keys |-> IF k \in up THEN call[r].answer[k] ELSE memory[k]]
          /\ pmem' = [k \in Keys |-> IF k \in mid THEN call[r].answer[k] ELSE pmem[k]]
          /\ Noted(IF quiet THEN mid ELSE up \cup mid)
          /\ UNCHANGED <<ssd, expired>>
    BY DEF RefillSsd
  <1>5. \A k \in fit : /\ call[r].answer[k] \in allowed[k] /\ k \notin expired
                       /\ \A q \in Readers : call[q].at # "idle" => k \notin call[q].lapsed
    BY <1>3 DEF Vouched, Active
  <1>6. up \in SUBSET Keys /\ mid \in SUBSET Keys  BY <1>2
  <1>7. memory' \in Tier /\ pmem' \in Tier /\ ssd' \in Tier
    BY <1>0, <1>2, <1>4 DEF Typed, Tier
  <1>8. stale' \in [Readers -> SUBSET Keys] /\ \A q \in Readers : stale[q] \subseteq stale'[q]
    BY <1>0, <1>4, <1>6 DEF Noted, Typed
  <1>9. ASSUME NEW k \in Keys
        PROVE  \/ Copies(k)' = Copies(k)
               \/ /\ Copies(k)' \subseteq Copies(k) \cup allowed[k] /\ k \notin expired
                  /\ \A q \in Readers : call[q].at # "idle" => k \notin call[q].lapsed
    <2>1. CASE k \in up \cup mid
      <3>1. Copies(k)' \subseteq Copies(k) \cup {call[r].answer[k]}  BY <1>4, <2>1 DEF Copies
      <3> QED BY <1>5, <2>1, <3>1
    <2>2. CASE k \notin up \cup mid  BY <1>4, <2>2 DEF Copies
    <2> QED BY <2>1, <2>2
  <1> QED BY <1>4, <1>7, <1>8, <1>9

LEMMA RefillKeeps ==
    ASSUME Current, NEW r \in Readers, Moved(r), call[r].at = "blocks",
           RefillSsd(r, call[r].left), UNCHANGED history
    PROVE  Current'
  <1>0. Typed  BY DEF Current
  <1>1. /\ memory' \in Tier /\ pmem' \in Tier /\ ssd' \in Tier
        /\ expired' = expired
        /\ stale' \in [Readers -> SUBSET Keys] /\ \A q \in Readers : stale[q] \subseteq stale'[q]
    BY RefillAdds
  <1>2. \A k \in Keys :
          \/ Copies(k)' = Copies(k)
          \/ /\ Copies(k)' \subseteq Copies(k) \cup allowed[k] /\ k \notin expired
             /\ \A q \in Readers : call[q].at # "idle" => k \notin call[q].lapsed
    BY RefillAdds
  <1>3. Typed'
    <2>1. expired' \in SUBSET Keys  BY <1>0, <1>1 DEF Typed
    <2> QED BY <1>0, <1>1, <2>1, MovedTypes
  <1>4. \A k \in Keys \ expired' : Copies(k)' \subseteq allowed'[k]
    BY <1>1, <1>2 DEF Current, history
  <1>5. SameClocks  BY MovedClocks
  <1>6. ASSUME NEW q \in Readers, call'[q].at # "idle" PROVE Followed(q)' /\ Vouched(q)'
    <2>1. call[q].at # "idle" /\ call'[q].lapsed = call[q].lapsed  BY <1>5, <1>6 DEF SameClocks
    <2>2. Followed(q) /\ Vouched(q)  BY <2>1 DEF Current, Active
    <2>3. call[q].lapsed \in SUBSET Keys  BY <1>0, <2>1, ActiveCall, CallFields
    <2>4. \A k \in Keys : TooOld(q, k)' <=> TooOld(q, k)  BY <1>1, <2>1 DEF TooOld
    <2>5. \A k \in Keys : ~ TooOld(q, k)' => Copies(k)' \subseteq seen'[q][k]
      BY <1>2, <2>2, <2>4 DEF Followed, history
    <2>6. \A k \in call'[q].lapsed \ expired' : Copies(k)' = {}
      BY <1>1, <1>2, <2>1, <2>2, <2>3 DEF Followed
    <2>7. \A k \in Keys : allowed'[k] \subseteq seen'[q][k]  BY <2>2 DEF Followed, history
    <2>8. CASE q = r
      <3>1. \A k \in Keys : call'[r].answer[k] \in seen'[r][k] \cup {None}
        BY <2>2, <2>8 DEF Followed, Moved, history
      <3>2. call'[r].left \in SUBSET Keys  BY CallFields DEF Moved
      <3>3. Followed(r)'
        BY <2>4, <2>5, <2>6, <2>7, <2>8, <3>1, <3>2 DEF Followed, Moved
      <3> QED BY <2>8, <3>3 DEF Vouched, Moved
    <2>9. CASE q # r
      <3>1. call'[q] = call[q]  BY <2>9 DEF Moved
      <3>2. call[q].left \in SUBSET Keys  BY <1>0, <2>1, ActiveCall, CallFields
      <3>3. Followed(q)'
        BY <2>2, <2>4, <2>5, <2>6, <2>7, <3>1, <3>2 DEF Followed, history
      <3>4. Vouched(q)'  BY <1>1, <1>5, <2>2, <3>1 DEF Vouched, Active, SameClocks, history
      <3> QED BY <3>3, <3>4
    <2> QED BY <2>8, <2>9
  <1> QED BY <1>3, <1>4, <1>6 DEF Current, Active
LEMMA EffectKeeps ==
    ASSUME Current, NEW r \in Readers, call[r].at # "idle", Effect(r)
    PROVE  Current'
  BY MovesKeep, EndedKeeps, ReadSsdKeeps, RefillKeeps DEF Effect

\* Sections are taken by calls that are under way.
LEMMA SectionOfACall ==
    ASSUME NEW r \in Readers, Section(r)
    PROVE  call[r].at # "idle"
  BY DEF Section, InSection,
     ReadSsd, DropExpired, DropExpiredOfBatch, Return,
     TryGetSharedResidentBatch, GetSharedScan, GetSharedExclusive, GetSharedFinish,
     TryGetMemoryBatch, GetBatchScan, GetBatchSplit, GetBatchExclusive, GetBatchFinish,
     GetWithTier, PromoteProbe, GetWithTierFinish, GetNoPromotion, GetNoPromotionFinish,
     Acquire, AcquirePin, AcquireSsdOnly, AcquirePmem, AcquireFinish,
     AcquireNoPromotion, AcquireNoPromotionFinish,
     AcquireBatchSsdOnly, AcquireBatchScan, AcquireBatchSplit, AcquireBatchExclusive,
     AcquireBatchFinish

LEMMA BeginKeeps ==
    ASSUME Current, NEW r \in Readers, NEW op \in Singles \cup Many, NEW batch \in Batches,
           Begin(r, op, batch)
    PROVE  Current'
  <1>0. Typed  BY DEF Current
  <1> DEFINE c == [op |-> op, at |-> "first", batch |-> batch, left |-> {}, answer |-> Nothing,
                   lapsed |-> expired, late |-> {}, lost |-> {}]
  <1>1. /\ call' = [call EXCEPT ![r] = c] /\ seen' = [seen EXCEPT ![r] = allowed]
        /\ UNCHANGED <<tiers, stale, allowed>>
        /\ op \in Singles => Len(batch) = 1
        /\ call[r].at = "idle"
    BY DEF Begin
  <1>2. Nothing \in Tier /\ \A k \in Keys : Nothing[k] = None  BY DEF Nothing, Tier
  <1>3. /\ c \in CallRecords /\ c.op = op /\ c.batch = batch /\ c.lapsed = expired
        /\ c.at = "first" /\ c.left = {} /\ c.answer = Nothing
    BY <1>0, <1>2 DEF CallRecords, Sections, Typed
  <1> HIDE DEF c
  <1>4. /\ call' \in [Readers -> CallRecords \cup {Idle}] /\ call'[r] = c
        /\ \A q \in Readers \ {r} : call'[q] = call[q]
    BY <1>0, <1>1, <1>3 DEF Typed
  <1>5. /\ seen' \in [Readers -> [Keys -> SUBSET Values]] /\ seen'[r] = allowed
        /\ \A q \in Readers \ {r} : seen'[q] = seen[q]
    BY <1>0, <1>1 DEF Typed
  <1>6. Typed'
    <2>1. \A q \in Readers : call'[q].op \in Singles => Len(call'[q].batch) = 1
      BY <1>0, <1>1, <1>3, <1>4 DEF Typed
    <2> QED BY <1>0, <1>1, <1>4, <1>5, <2>1 DEF Typed, tiers
  <1>7. /\ \A k \in Keys : Copies(k)' = Copies(k)
        /\ expired' = expired
    BY <1>1 DEF Copies, tiers
  <1>8. \A k \in Keys \ expired : Copies(k) \subseteq allowed[k]  BY DEF Current
  <1>9. Followed(r)' /\ Vouched(r)'
    BY <1>1, <1>2, <1>3, <1>4, <1>5, <1>7, <1>8 DEF Followed, Vouched, TooOld
  <1>10. ASSUME NEW q \in Readers \ {r}, call'[q].at # "idle" PROVE Followed(q)' /\ Vouched(q)'
    <2>1. call'[q] = call[q] /\ seen'[q] = seen[q] /\ stale'[q] = stale[q]
      BY <1>1, <1>4, <1>5
    <2>2. Followed(q) /\ Vouched(q)  BY <1>10, <2>1 DEF Current, Active
    <2>3. call[q].left \in SUBSET Keys /\ call[q].lapsed \in SUBSET Keys
      BY <1>0, <1>10, <2>1, ActiveCall, CallFields
    <2>4. Followed(q)'  BY <1>1, <1>7, <2>1, <2>2, <2>3 DEF Followed, TooOld
    <2>5. Vouched(q)'  BY <1>1, <1>3, <1>4, <1>7, <2>1, <2>2 DEF Vouched, Active
    <2> QED BY <2>4, <2>5
  <1> QED BY <1>1, <1>6, <1>7, <1>8, <1>9, <1>10 DEF Current, Active

\* A write or a removal of k that leaves vs to be found.
Rewritten(k, vs) ==
    /\ memory' \in Tier /\ pmem' \in Tier /\ ssd' \in Tier
    /\ Copies(k)' \subseteq vs
    /\ \A j \in Keys \ {k} : Copies(j)' = Copies(j)
    /\ expired' = expired \ {k}
    /\ Noted({k}) /\ Allow(k, vs)
    /\ call' \in [Readers -> CallRecords \cup {Idle}]
    /\ \A q \in Readers :
          /\ call'[q].at = call[q].at /\ call'[q].op = call[q].op
          /\ call[q].at = "idle" => call'[q] = call[q]
          /\ call[q].at # "idle" =>
                /\ call'[q].batch = call[q].batch /\ call'[q].left = call[q].left
                /\ call'[q].answer = call[q].answer /\ call'[q].lapsed = call[q].lapsed \ {k}

LEMMA RewrittenKeeps ==
    ASSUME Current, NEW k \in Keys, NEW vs \in SUBSET Values, Rewritten(k, vs)
    PROVE  Current'
  <1>0. Typed  BY DEF Current
  <1>1. /\ allowed' \in [Keys -> SUBSET Values] /\ allowed'[k] = vs
        /\ \A j \in Keys \ {k} : allowed'[j] = allowed[j]
    BY <1>0 DEF Rewritten, Allow, Typed
  <1>2. /\ seen' \in [Readers -> [Keys -> SUBSET Values]]
        /\ \A q \in Readers : call[q].at # "idle" =>
              /\ seen'[q][k] = seen[q][k] \cup vs
              /\ \A j \in Keys \ {k} : seen'[q][j] = seen[q][j]
    BY <1>0 DEF Rewritten, Allow, Typed, Active
  <1>3. /\ stale' \in [Readers -> SUBSET Keys]
        /\ \A q \in Readers : stale'[q] = stale[q] \cup {k}
    BY <1>0 DEF Rewritten, Noted, Typed
  <1>4. Typed'
    <2>1. \A q \in Readers : call'[q].op \in Singles => Len(call'[q].batch) = 1
      <3> SUFFICES ASSUME NEW q \in Readers, call'[q].op \in Singles PROVE Len(call'[q].batch) = 1
        OBVIOUS
      <3>1. call[q].op \in Singles  BY DEF Rewritten
      <3>2. Len(call[q].batch) = 1  BY <1>0, <3>1 DEF Typed
      <3> QED BY <3>2 DEF Rewritten
    <2>2. expired' \in SUBSET Keys  BY <1>0 DEF Rewritten, Typed
    <2> QED BY <1>1, <1>2, <1>3, <2>1, <2>2 DEF Typed, Rewritten
  <1>5. \A j \in Keys \ expired' : Copies(j)' \subseteq allowed'[j]
    BY <1>1 DEF Rewritten, Current
  <1>6. ASSUME NEW q \in Readers, call'[q].at # "idle" PROVE Followed(q)' /\ Vouched(q)'
    <2>1. /\ call[q].at # "idle" /\ call'[q].at = call[q].at /\ call'[q].batch = call[q].batch
          /\ call'[q].left = call[q].left /\ call'[q].answer = call[q].answer
          /\ call'[q].lapsed = call[q].lapsed \ {k}
      BY <1>6 DEF Rewritten
    <2>2. Followed(q) /\ Vouched(q)  BY <2>1 DEF Current, Active
    <2>3. call[q].left \in SUBSET Keys /\ call[q].lapsed \in SUBSET Keys
      BY <1>0, <2>1, ActiveCall, CallFields
    <2>4. ~ TooOld(q, k)' /\ \A j \in Keys \ {k} : TooOld(q, j)' <=> TooOld(q, j)
      BY <2>1 DEF TooOld, Rewritten
    <2>5. \A j \in Keys : allowed'[j] \subseteq seen'[q][j]
      BY <1>1, <1>2, <2>1, <2>2 DEF Followed
    <2>6. \A j \in Keys : ~ TooOld(q, j)' => Copies(j)' \subseteq seen'[q][j]
      BY <1>2, <2>1, <2>2, <2>4 DEF Followed, Rewritten
    <2>7. \A j \in Keys : call'[q].answer[j] \in seen'[q][j] \cup {None}
      BY <1>2, <2>1, <2>2 DEF Followed
    <2>8. \A j \in call'[q].lapsed \ expired' : Copies(j)' = {}
      BY <2>1, <2>2, <2>3 DEF Followed, Rewritten
    <2>9. call'[q].at \in Sure => \A j \in call'[q].left : ~ TooOld(q, j)'
      BY <2>1, <2>2, <2>3, <2>4 DEF Followed
    <2>10. Followed(q)'  BY <2>1, <2>2, <2>5, <2>6, <2>7, <2>8, <2>9 DEF Followed
    <2>11. Vouched(q)'
      <3> SUFFICES ASSUME call[q].at = "blocks", NEW j \in call[q].left \ stale'[q],
                          call[q].answer[j] # None
                   PROVE  /\ j \notin expired' => call[q].answer[j] \in allowed'[j]
                          /\ \A p \in Readers : call'[p].at # "idle" =>
                                j \notin call'[p].lapsed \ expired'
        BY <2>1 DEF Vouched, Active
      <3>1. j # k /\ j \notin stale[q] /\ j \in Keys  BY <1>3, <2>3
      <3>2. /\ j \notin expired => call[q].answer[j] \in allowed[j]
            /\ \A p \in Readers : call[p].at # "idle" => j \notin call[p].lapsed \ expired
        BY <2>2, <3>1 DEF Vouched, Active
      <3> QED BY <1>1, <3>1, <3>2 DEF Rewritten
    <2> QED BY <2>10, <2>11
  <1> QED BY <1>4, <1>5, <1>6 DEF Current, Active

LEMMA PutKeeps ==
    ASSUME Current, NEW k \in Keys, NEW v \in Values, NEW where, Put(k, v, where)
    PROVE  Current'
  <1>0. Typed  BY DEF Current
  <1>1. memory' \in Tier /\ pmem' \in Tier /\ ssd' \in Tier  BY <1>0 DEF Put, Typed, Tier
  <1>2. Copies(k)' \subseteq {v} /\ \A j \in Keys \ {k} : Copies(j)' = Copies(j)
    BY <1>0 DEF Put, Typed, Tier, Copies
  <1>3. \A q \in Readers : call'[q] = IF call[q].at # "idle"
                                      THEN [call[q] EXCEPT !.lapsed = @ \ {k}] ELSE call[q]
    BY DEF Put, Renewed, Active
  <1>4. ASSUME NEW q \in Readers, call[q].at # "idle"
        PROVE  /\ call'[q] \in CallRecords /\ call'[q].at = call[q].at /\ call'[q].op = call[q].op
               /\ call'[q].batch = call[q].batch /\ call'[q].left = call[q].left
               /\ call'[q].answer = call[q].answer /\ call'[q].lapsed = call[q].lapsed \ {k}
    <2>1. call[q] \in CallRecords  BY <1>0, <1>4, ActiveCall
    <2> DEFINE lapsed == call[q].lapsed \ {k}
    <2>2. lapsed \in SUBSET Keys  BY <2>1, CallFields
    <2>3. call'[q] = [call[q] EXCEPT !.lapsed = lapsed]  BY <1>3, <1>4
    <2> HIDE DEF lapsed
    <2>4. /\ call'[q] \in CallRecords /\ call'[q].at = call[q].at /\ call'[q].op = call[q].op
          /\ call'[q].batch = call[q].batch /\ call'[q].left = call[q].left
          /\ call'[q].answer = call[q].answer /\ call'[q].lapsed = lapsed
      BY <2>1, <2>2, <2>3, CallFields DEF CallRecords
    <2> QED BY <2>4 DEF lapsed
  <1>5. call' \in [Readers -> CallRecords \cup {Idle}]
    <2>1. call' = [q \in Readers |-> call'[q]]  BY DEF Put, Renewed
    <2>2. \A q \in Readers : call[q].at = "idle" => call'[q] \in CallRecords \cup {Idle}
      BY <1>0, <1>3 DEF Typed
    <2> QED BY <1>4, <2>1, <2>2
  <1>6. expired' = expired \ {k} /\ Noted({k}) /\ Allow(k, {v})  BY DEF Put, Renewed
  <1>7. Rewritten(k, {v})  BY <1>1, <1>2, <1>3, <1>4, <1>5, <1>6 DEF Rewritten
  <1>8. {v} \in SUBSET Values  OBVIOUS
  <1> QED BY <1>7, <1>8, RewrittenKeeps

LEMMA InvalidateKeeps ==
    ASSUME Current, NEW k \in Keys, Invalidate(k)
    PROVE  Current'
  <1>0. Typed  BY DEF Current
  <1>1. memory' \in Tier /\ pmem' \in Tier /\ ssd' \in Tier  BY <1>0 DEF Invalidate, Typed, Tier
  <1>2. Copies(k)' \subseteq {} /\ \A j \in Keys \ {k} : Copies(j)' = Copies(j)
    BY <1>0 DEF Invalidate, Typed, Tier, Copies
  <1> DEFINE gone == {memory[k], pmem[k], ssd[k]} = {None}
  <1>3. \A q \in Readers :
           call'[q] = IF call[q].at = "idle" THEN call[q]
                      ELSE [call[q] EXCEPT !.lapsed = @ \ {k},
                                           !.lost = IF gone THEN @ \cup {k} ELSE @]
    BY DEF Invalidate, Active
  <1> HIDE DEF gone
  <1>4. ASSUME NEW q \in Readers, call[q].at # "idle"
        PROVE  /\ call'[q] \in CallRecords /\ call'[q].at = call[q].at /\ call'[q].op = call[q].op
               /\ call'[q].batch = call[q].batch /\ call'[q].left = call[q].left
               /\ call'[q].answer = call[q].answer /\ call'[q].lapsed = call[q].lapsed \ {k}
    <2>1. call[q] \in CallRecords  BY <1>0, <1>4, ActiveCall
    <2> DEFINE lapsed == call[q].lapsed \ {k}
               lost == IF gone THEN call[q].lost \cup {k} ELSE call[q].lost
    <2>2. lapsed \in SUBSET Keys /\ lost \in SUBSET Keys  BY <2>1, CallFields
    <2>3. call'[q] = [call[q] EXCEPT !.lapsed = lapsed, !.lost = lost]
      BY <1>3, <1>4, <2>1 DEF CallRecords
    <2> HIDE DEF lapsed, lost
    <2>4. /\ call'[q] \in CallRecords /\ call'[q].at = call[q].at /\ call'[q].op = call[q].op
          /\ call'[q].batch = call[q].batch /\ call'[q].left = call[q].left
          /\ call'[q].answer = call[q].answer /\ call'[q].lapsed = lapsed
      BY <2>1, <2>2, <2>3, CallFields DEF CallRecords
    <2> QED BY <2>4 DEF lapsed
  <1>5. call' \in [Readers -> CallRecords \cup {Idle}]
    <2>1. call' = [q \in Readers |-> call'[q]]  BY DEF Invalidate
    <2>2. \A q \in Readers : call[q].at = "idle" => call'[q] \in CallRecords \cup {Idle}
      BY <1>0, <1>3 DEF Typed
    <2> QED BY <1>4, <2>1, <2>2
  <1>6. expired' = expired \ {k} /\ Noted({k}) /\ Allow(k, {})  BY DEF Invalidate
  <1>7. Rewritten(k, {})  BY <1>1, <1>2, <1>3, <1>4, <1>5, <1>6 DEF Rewritten
  <1> QED BY <1>7, RewrittenKeeps

\* Copies go or move, and nothing happens to any call.
LEMMA LoweringKeeps ==
    ASSUME Current, Lowered, UNCHANGED call, UNCHANGED history
    PROVE  Current'
  <1>1. Typed'  BY DEF Lowered, Current, Typed, history
  <1>2. \A k \in Keys \ expired' : Copies(k)' \subseteq allowed'[k]
    BY LoweredAllowed DEF history
  <1>3. SameClocks  BY DEF SameClocks
  <1>4. ASSUME NEW q \in Readers, call'[q].at # "idle" PROVE Followed(q)' /\ Vouched(q)'
    BY <1>3, <1>4, LoweredOther DEF history
  <1> QED BY <1>1, <1>2, <1>4 DEF Current, Active

LEMMA EvictKeeps ==
    ASSUME Current, NEW k \in Keys, NEW below \in BOOLEAN, Evict(k, below)
    PROVE  Current'
  <1>0. Typed  BY DEF Current
  <1>1. memory' \in Tier /\ pmem' \in Tier /\ ssd' \in Tier  BY <1>0 DEF Evict, Typed, Tier
  <1>2. \A j \in Keys : Copies(j)' \subseteq Copies(j)
    BY <1>0 DEF Evict, Typed, Tier, Copies
  <1>3. stale' \in [Readers -> SUBSET Keys] /\ \A q \in Readers : stale[q] \cup {} \subseteq stale'[q]
    BY <1>0 DEF Evict, Noted, Typed
  <1>4. expired' = expired \ {} /\ {} \in SUBSET Keys  BY DEF Evict
  <1>5. Lowered  BY <1>1, <1>2, <1>3, <1>4 DEF Lowered
  <1> QED BY <1>5, LoweringKeeps DEF Evict

LEMMA SetSsdOnlyKeeps ==
    ASSUME Current, SetSsdOnly
    PROVE  Current'
  <1>0. Typed  BY DEF Current
  <1>1. Nothing \in Tier /\ \A k \in Keys : Nothing[k] = None  BY DEF Nothing, Tier
  <1>2. memory' \in Tier /\ pmem' \in Tier /\ ssd' \in Tier
    BY <1>0, <1>1 DEF SetSsdOnly, Typed
  <1>3. \A j \in Keys : Copies(j)' \subseteq Copies(j)
    BY <1>1 DEF SetSsdOnly, Copies
  <1>4. stale' \in [Readers -> SUBSET Keys] /\ \A q \in Readers : stale[q] \cup {} \subseteq stale'[q]
    BY <1>0 DEF SetSsdOnly, Typed
  <1>5. expired' = expired \ {} /\ {} \in SUBSET Keys  BY DEF SetSsdOnly
  <1>6. Lowered  BY <1>2, <1>3, <1>4, <1>5 DEF Lowered
  <1> QED BY <1>6, LoweringKeeps DEF SetSsdOnly

\* An entry expires. It has copies, so no call has it among those it took for
\* expired: calls under way go on finding it alive.
LEMMA LapseKeeps ==
    ASSUME Current, NEW k \in Keys, Lapse(k)
    PROVE  Current'
  <1>0. Typed  BY DEF Current
  <1>1. /\ UNCHANGED <<memory, pmem, ssd, stale, call>> /\ expired' = expired \cup {k}
        /\ k \notin expired /\ Allow(k, {})
    BY DEF Lapse
  <1>2. \A j \in Keys : Copies(j)' = Copies(j)  BY <1>1 DEF Copies
  <1>3. Copies(k) # {}  BY DEF Lapse, Copies
  <1>4. /\ allowed' \in [Keys -> SUBSET Values] /\ allowed'[k] = {}
        /\ \A j \in Keys \ {k} : allowed'[j] = allowed[j]
    BY <1>0, <1>1 DEF Allow, Typed
  <1>5. /\ seen' \in [Readers -> [Keys -> SUBSET Values]]
        /\ \A q \in Readers : \A j \in Keys : call[q].at # "idle" => seen'[q][j] = seen[q][j]
    BY <1>0, <1>1 DEF Allow, Typed, Active
  <1>6. Typed'  BY <1>0, <1>1, <1>4, <1>5 DEF Typed
  <1>7. \A j \in Keys \ expired' : Copies(j)' \subseteq allowed'[j]
    BY <1>1, <1>2, <1>4 DEF Current
  <1>8. \A q \in Readers : call[q].at # "idle" => k \notin call[q].lapsed
    BY <1>1, <1>3 DEF Current, Active, Followed
  <1>9. ASSUME NEW q \in Readers, call'[q].at # "idle" PROVE Followed(q)' /\ Vouched(q)'
    <2>1. call'[q] = call[q] /\ call[q].at # "idle" /\ stale'[q] = stale[q]  BY <1>1, <1>9
    <2>2. Followed(q) /\ Vouched(q)  BY <2>1 DEF Current, Active
    <2>3. call[q].left \in SUBSET Keys /\ call[q].lapsed \in SUBSET Keys
      BY <1>0, <2>1, ActiveCall, CallFields
    <2>4. \A j \in Keys : TooOld(q, j)' <=> TooOld(q, j)  BY <1>1, <1>8, <2>1 DEF TooOld
    <2>5. \A j \in Keys : allowed'[j] \subseteq seen'[q][j]
      BY <1>4, <1>5, <2>1, <2>2 DEF Followed
    <2>6. \A j \in Keys : ~ TooOld(q, j)' => Copies(j)' \subseteq seen'[q][j]
      BY <1>2, <1>5, <2>1, <2>2, <2>4 DEF Followed
    <2>7. \A j \in Keys : call'[q].answer[j] \in seen'[q][j] \cup {None}
      BY <1>5, <2>1, <2>2 DEF Followed
    <2>8. \A j \in call'[q].lapsed \ expired' : Copies(j)' = {}
      BY <1>1, <1>2, <2>1, <2>2, <2>3 DEF Followed
    <2>9. call'[q].at \in Sure => \A j \in call'[q].left : ~ TooOld(q, j)'
      BY <2>1, <2>2, <2>3, <2>4 DEF Followed
    <2>10. Followed(q)'  BY <2>1, <2>2, <2>5, <2>6, <2>7, <2>8, <2>9 DEF Followed
    <2>11. Vouched(q)'
      <3> SUFFICES ASSUME call[q].at = "blocks", NEW j \in call[q].left \ stale[q],
                          call[q].answer[j] # None
                   PROVE  /\ j \notin expired' => call[q].answer[j] \in allowed'[j]
                          /\ \A p \in Readers : call'[p].at # "idle" =>
                                j \notin call'[p].lapsed \ expired'
        BY <2>1 DEF Vouched, Active
      <3>1. /\ j \notin expired => call[q].answer[j] \in allowed[j]
            /\ \A p \in Readers : call[p].at # "idle" => j \notin call[p].lapsed \ expired
        BY <2>2 DEF Vouched, Active
      <3>2. j \in Keys  BY <2>3
      <3> QED BY <1>1, <1>4, <3>1, <3>2
    <2> QED BY <2>10, <2>11
  <1> QED BY <1>6, <1>7, <1>9 DEF Current, Active

LEMMA StopOrStartKeeps ==
    ASSUME Current, StopOrStart \/ UNCHANGED vars
    PROVE  Current'
  <1>1. UNCHANGED <<tiers, stale>> /\ UNCHANGED call /\ UNCHANGED history
    BY DEF StopOrStart, vars
  <1>2. Lowered  BY <1>1, StaysLowered DEF Current
  <1> QED BY <1>1, <1>2, LoweringKeeps

-----------------------------------------------------------------------------
(* The theorem.                                                            *)

LEMMA InitCurrent == Init => Current
  <1> SUFFICES ASSUME Init PROVE Current  OBVIOUS
  <1>1. Nothing \in Tier /\ \A k \in Keys : Nothing[k] = None  BY DEF Nothing, Tier
  <1>2. \A r \in Readers : call[r] = Idle  BY DEF Init
  <1>3. Typed  BY <1>1, <1>2, IdleFields DEF Init, Typed
  <1>4. \A k \in Keys : Copies(k) = {}  BY <1>1 DEF Init, Copies
  <1> QED BY <1>2, <1>3, <1>4, IdleFields DEF Current, Active

LEMMA NextCurrent == Current /\ [Next]_vars => Current'
  <1> SUFFICES ASSUME Current, [Next]_vars PROVE Current'  OBVIOUS
  <1>1. ASSUME NEW r \in Readers, Section(r) PROVE Current'
    BY <1>1, SectionEffect, SectionOfACall, EffectKeeps
  <1>2. ASSUME NEW r \in Readers, NEW op \in Singles \cup Many, NEW b \in Batches, Begin(r, op, b)
        PROVE Current'
    BY <1>2, BeginKeeps
  <1>3. CASE Other
    BY <1>3, PutKeeps, InvalidateKeeps, LapseKeeps, EvictKeeps, SetSsdOnlyKeeps, StopOrStartKeeps
       DEF Other
  <1>4. CASE UNCHANGED vars  BY <1>4, StopOrStartKeeps
  <1> QED BY <1>1, <1>2, <1>3, <1>4 DEF Next

\* The invariant of the reads in sections.
THEOREM ReadsAreFollowed == Spec => []Current
  BY InitCurrent, NextCurrent, PTL DEF Spec

\* Every batched, pinning and non-promoting read of MultiLayerCache answers, for
\* every key, with a value the key had at some moment of the call, and leaves no
\* copy in a tier that a read should not find, whatever other callers do between
\* its lock sections: for every set of keys, values, readers and batches.
THEOREM AnswersAreCurrent == Spec => []BatchReadsAreCurrent
  <1>1. Current => BatchReadsAreCurrent
    <2> SUFFICES ASSUME Current, NEW r \in Readers, call[r].at = "returned", NEW k \in Keys
                 PROVE  call[r].answer[k] = None \/ call[r].answer[k] \in seen[r][k]
      BY DEF Current, BatchReadsAreCurrent
    <2> QED BY DEF Current, Active, Followed
  <1> QED BY <1>1, ReadsAreFollowed, PTL
=============================================================================
