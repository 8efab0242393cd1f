------------------------------- MODULE Slots --------------------------------
(***************************************************************************)
(* Components that share no state, checked in one run: a behaviour is a     *)
(* behaviour of the one component it focuses on. That component's variables *)
(* are kept in the first slots, and the other slots are idle.               *)
(***************************************************************************)
EXTENDS Naturals

CONSTANTS Parts,  \* the components of the run
          Unused  \* what a slot holds that no component uses

VARIABLES focus,
          s1, s2, s3, s4, s5, s6, s7, s8, s9, s10, s11, s12, s13, s14, s15, s16, s17, s18

slots == <<focus, s1, s2, s3, s4, s5, s6, s7, s8, s9, s10, s11, s12, s13, s14, s15, s16, s17, s18>>

\* The slots after the first n are idle.
Spare(n) ==
    /\ IF n < 1 THEN s1 = Unused ELSE TRUE
    /\ IF n < 2 THEN s2 = Unused ELSE TRUE
    /\ IF n < 3 THEN s3 = Unused ELSE TRUE
    /\ IF n < 4 THEN s4 = Unused ELSE TRUE
    /\ IF n < 5 THEN s5 = Unused ELSE TRUE
    /\ IF n < 6 THEN s6 = Unused ELSE TRUE
    /\ IF n < 7 THEN s7 = Unused ELSE TRUE
    /\ IF n < 8 THEN s8 = Unused ELSE TRUE
    /\ IF n < 9 THEN s9 = Unused ELSE TRUE
    /\ IF n < 10 THEN s10 = Unused ELSE TRUE
    /\ IF n < 11 THEN s11 = Unused ELSE TRUE
    /\ IF n < 12 THEN s12 = Unused ELSE TRUE
    /\ IF n < 13 THEN s13 = Unused ELSE TRUE
    /\ IF n < 14 THEN s14 = Unused ELSE TRUE
    /\ IF n < 15 THEN s15 = Unused ELSE TRUE
    /\ IF n < 16 THEN s16 = Unused ELSE TRUE
    /\ IF n < 17 THEN s17 = Unused ELSE TRUE
    /\ IF n < 18 THEN s18 = Unused ELSE TRUE

\* They stay so in a step of the component that uses the first n.
Kept(n) ==
    /\ UNCHANGED focus
    /\ IF n < 1 THEN UNCHANGED s1 ELSE TRUE
    /\ IF n < 2 THEN UNCHANGED s2 ELSE TRUE
    /\ IF n < 3 THEN UNCHANGED s3 ELSE TRUE
    /\ IF n < 4 THEN UNCHANGED s4 ELSE TRUE
    /\ IF n < 5 THEN UNCHANGED s5 ELSE TRUE
    /\ IF n < 6 THEN UNCHANGED s6 ELSE TRUE
    /\ IF n < 7 THEN UNCHANGED s7 ELSE TRUE
    /\ IF n < 8 THEN UNCHANGED s8 ELSE TRUE
    /\ IF n < 9 THEN UNCHANGED s9 ELSE TRUE
    /\ IF n < 10 THEN UNCHANGED s10 ELSE TRUE
    /\ IF n < 11 THEN UNCHANGED s11 ELSE TRUE
    /\ IF n < 12 THEN UNCHANGED s12 ELSE TRUE
    /\ IF n < 13 THEN UNCHANGED s13 ELSE TRUE
    /\ IF n < 14 THEN UNCHANGED s14 ELSE TRUE
    /\ IF n < 15 THEN UNCHANGED s15 ELSE TRUE
    /\ IF n < 16 THEN UNCHANGED s16 ELSE TRUE
    /\ IF n < 17 THEN UNCHANGED s17 ELSE TRUE
    /\ IF n < 18 THEN UNCHANGED s18 ELSE TRUE
=============================================================================
