---------------------------- MODULE ProbeJournal ----------------------------
(***************************************************************************)
(* The mutation journal a MultiLayerCache keeps under its write lock so    *)
(* that a read which left the lock to fetch an SSD block can tell, when it *)
(* comes back, whether its key changed in the meantime.                    *)
(*                                                                         *)
(* A journal is a record:                                                  *)
(*   epoch   ssd_probe_epoch, a saturating u64                             *)
(*   global  ssd_probe_global_epoch, the epoch of the last global fence    *)
(*   ring    ssd_probe_mutations, the key hash of each of the last Slots   *)
(*           epochs, at position epoch % Slots                             *)
(***************************************************************************)
EXTENDS Integers

CONSTANTS Keys,      \* CacheKey values
          Hashes,    \* what DefaultHasher may return
          Hash,      \* Hash[k]: the hash of a key; two keys may share one
          ZeroHash,  \* the 0 every ring slot starts with
          Slots,     \* ssd_probe_mutations.len(): 64 in the code
          MaxEpoch   \* u64::MAX, where the epoch saturates

ASSUME JournalAssumption ==
    /\ Hash \in [Keys -> Hashes]
    /\ ZeroHash \in Hashes
    /\ Slots \in Nat \ {0}
    /\ MaxEpoch \in Nat

Epochs == 0 .. MaxEpoch

SlotOf(e) == e % Slots

Journal == [epoch: Epochs, global: Epochs, ring: [0 .. Slots - 1 -> Hashes]]

EmptyJournal == [epoch |-> 0, global |-> 0, ring |-> [i \in 0 .. Slots - 1 |-> ZeroHash]]

\* Faulty variants of the operators below. Nothing in the specification uses
\* them; they are what the properties are tested against.
SuccWithoutSaturation(e) == e + 1
IsCurrentIgnoringOverflow(j, k, e) ==
    /\ e # MaxEpoch /\ j.epoch # MaxEpoch
    /\ e >= j.global /\ e <= j.epoch
    /\ \A s \in (e + 1) .. j.epoch : j.ring[SlotOf(s)] # Hash[k]
SuppressKeepingSlot(before, after) ==
    IF before.epoch # MaxEpoch /\ after.epoch = before.epoch + 1 /\ after.global <= before.epoch
    THEN [after EXCEPT !.epoch = before.epoch]
    ELSE after
SuppressNothing(before, after) == after

\* e.saturating_add(1)
Succ(e) == IF e = MaxEpoch THEN e ELSE e + 1

\* bump_ssd_probe_epoch: no probe captured before this is current any more.
Bump(j) == [j EXCEPT !.epoch = Succ(j.epoch), !.global = Succ(j.epoch)]

\* The journalling half of note_ssd_probe_mutation.
Record(j, k) == [epoch  |-> Succ(j.epoch),
                 global |-> j.global,
                 ring   |-> [j.ring EXCEPT ![SlotOf(Succ(j.epoch))] = Hash[k]]]

\* note_ssd_probe_mutation: with no SSD tier a mutation is a global fence.
Note(j, k, ssdEnabled) == IF ssdEnabled THEN Record(j, k) ELSE Bump(j)

\* Some mutation after epoch e, still in the ring, has the hash of k.
Listed(j, k, e) == \E s \in (e + 1) .. j.epoch : j.ring[SlotOf(s)] = Hash[k]

\* ssd_probe_is_current_for
IsCurrent(j, k, e) ==
    /\ e # MaxEpoch
    /\ j.epoch # MaxEpoch
    /\ e >= j.global
    /\ e <= j.epoch
    /\ j.epoch - e <= Slots
    /\ ~ Listed(j, k, e)

\* The tail of refill_ssd_probe: `before` is the journal as it was when the
\* refill began and `after` the journal once the value was placed. When the
\* placement made the one increment of a resident insertion and nothing else,
\* the increment and its ring slot are taken back.
Suppress(before, after) ==
    IF /\ before.epoch # MaxEpoch
       /\ after.epoch = before.epoch + 1
       /\ after.global <= before.epoch
    THEN LET slot == SlotOf(Succ(before.epoch))
         IN [epoch  |-> before.epoch,
             global |-> after.global,
             ring   |-> [after.ring EXCEPT ![slot] = before.ring[slot]]]
    ELSE after
=============================================================================
