------------------------------ MODULE MCCowPtr ------------------------------
(* Instances of CowPtr for TLC.                                            *)
EXTENDS CowPtr, TLC

(* Handles, bodies, threads and values are interchangeable: the module     *)
(* only compares them.  Not used in a run that checks liveness.            *)
Symmetry ==
  Permutations(Thread) \union Permutations(Handle) \union
  Permutations(Body) \union Permutations(Value)

=============================================================================
