-------------------------------- MODULE MCGc --------------------------------
(***************************************************************************)
(* Gc for TLC: a handful of addresses, interchangeable.                    *)
(***************************************************************************)
EXTENDS Gc, TLC

Addresses == Permutations(Obj)
=============================================================================
