------------------------------ MODULE MCRecord ------------------------------
(* Record with keys that share a bucket of a table of two and are apart in  *)
(* the table of five a third entry makes of it, and one of the same hash as *)
(* another.                                                                 *)
EXTENDS Record, TLC

CONSTANTS k1, k2, k3
MCHash == (k1 :> 1) @@ (k2 :> 3) @@ (k3 :> 3)
E(k, v) == [key |-> k, val |-> v]
MCEntries == {E(k1, 1), E(k1, 2), E(k2, 1), E(k3, 1)}

(* Neither the record nor its lists tell one variable from another.        *)
Symmetry == Permutations(Handles)
=============================================================================
