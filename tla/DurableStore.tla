---------------------------- MODULE DurableStore ----------------------------
(***************************************************************************)
(* What an SSD storage engine promises its cache. A call that returns Ok    *)
(* has taken effect and survives the end of the process; one that fails, or *)
(* that a crash interrupts, leaves the old content or the new and may change *)
(* between the two at the next crash. Changing the set of devices moves     *)
(* keys: one may be lost or show an earlier value, never one it never had.  *)
(***************************************************************************)
CONSTANTS Keys, Contents, Nothing

VARIABLES content,  \* content[k]: what a read finds
          unsure,   \* unsure[k]: other contents an unacknowledged call may leave
          past      \* past[k]: everything k has been

vars == <<content, unsure, past>>

Init == /\ content = [k \in Keys |-> Nothing]
        /\ unsure = [k \in Keys |-> {}]
        /\ past = [k \in Keys |-> {Nothing}]

\* The keys of new were changed, to what it says.
Changed(new) ==
    /\ content' = [k \in Keys |-> IF k \in DOMAIN new THEN new[k] ELSE content[k]]
    /\ unsure' = [k \in Keys |-> IF k \in DOMAIN new THEN {} ELSE unsure[k]]
    /\ past' = [k \in Keys |-> past[k] \cup {content'[k]}]

Unacknowledged(new) ==
    /\ \A k \in Keys : content'[k] \in {content[k]} \cup unsure[k]
                          \cup (IF k \in DOMAIN new THEN {new[k]} ELSE {})
    /\ unsure' = [k \in Keys |-> IF k \in DOMAIN new
                                 THEN unsure[k] \cup {content[k], new[k]} ELSE unsure[k]]
    /\ past' = [k \in Keys |-> IF k \in DOMAIN new THEN past[k] \cup {new[k]} ELSE past[k]]

Restart ==
    /\ \A k \in Keys : content'[k] \in {content[k]} \cup unsure[k]
    /\ UNCHANGED <<unsure, past>>

DevicesChanged ==
    /\ \A k \in Keys : content'[k] \in {Nothing} \cup past[k]
    /\ unsure' = past
    /\ UNCHANGED past

News == UNION {[ks -> Contents] : ks \in SUBSET Keys}

Next == \/ Restart
        \/ DevicesChanged
        \/ \E new \in News : Changed(new) \/ Unacknowledged(new)

Spec == Init /\ [][Next]_vars
=============================================================================
