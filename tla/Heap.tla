-------------------------------- MODULE Heap --------------------------------
(***************************************************************************)
(* The object graph every part of the interpreter shares: objects refer to *)
(* objects, and what the program can still get at is what can be reached   *)
(* from a set of roots.                                                    *)
(***************************************************************************)

(***************************************************************************)
(* S is closed under refs: following a reference from a member of S never  *)
(* leaves S.                                                               *)
(***************************************************************************)
Closed(S, refs) == \A o \in S : refs[o] \subseteq S

(***************************************************************************)
(* The objects reachable from the set of roots: those that no closed set   *)
(* that holds the roots leaves out.  (Stated without recursion, so that    *)
(* the proofs can use it.)                                                 *)
(***************************************************************************)
Reach(roots, refs) ==
    {o \in DOMAIN refs :
        \A S \in SUBSET (DOMAIN refs \ {o}) : ~(roots \subseteq S /\ Closed(S, refs))}
=============================================================================
