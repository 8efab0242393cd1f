---------------------------- MODULE MCTieredCache ----------------------------
(* Small instances of TieredCache: two or three keys, a one-byte and a      *)
(* two-byte value (and, where asked for, an empty one), each a byte longer  *)
(* once encoded.                                                            *)
EXTENDS TieredCache, TLC

CONSTANTS k1, k2, k3, r1, r2, none,
          small, large, empty,
          Payloads  \* the values of this instance

MCSize == [v \in Payloads |-> IF v = empty THEN 0 ELSE IF v = small THEN 1 ELSE 2]
MCBlockLen == [v \in Payloads |-> MCSize[v] + 1]
Symmetry == Permutations(Keys)
=============================================================================
