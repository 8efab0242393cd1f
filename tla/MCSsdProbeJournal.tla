------------------------- MODULE MCSsdProbeJournal -------------------------
(* Small instance of SsdProbeJournal: two readers, three keys of which two  *)
(* share a hash, a ring of two slots and an epoch that saturates early.     *)
EXTENDS SsdProbeJournal, TLC

CONSTANTS k1, k2, k3, r1, r2, h0, h1, h2

MCKeys == {k1, k2, k3}
MCReaders == {r1, r2}
MCHashes == {h0, h1, h2}
MCHash == (k1 :> h1) @@ (k2 :> h2) @@ (k3 :> h2)
=============================================================================
