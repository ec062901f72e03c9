----------------------------- MODULE MCUpvalues -----------------------------
(***************************************************************************)
(* Upvalues for TLC.                                                       *)
(***************************************************************************)
EXTENDS Upvalues

Names == Permutations(Var) \cup Permutations(Closure)
=============================================================================
