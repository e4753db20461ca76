------------------------------ MODULE MCRbTree -----------------------------
(* RbTree with nodes of different keys and of equal ones.                  *)
EXTENDS RbTree, TLC

Mixed == [n \in Nodes |-> IF n \in {3, 6} THEN n - 1 ELSE IF n = 7 THEN 5 ELSE n]
=============================================================================
