---------------------------- MODULE MCStackRoots ----------------------------
(***************************************************************************)
(* StackRoots for TLC.                                                     *)
(***************************************************************************)
EXTENDS StackRoots

Addresses == Permutations(Obj)
=============================================================================
