------------------------------- MODULE GcSpec -------------------------------
(***************************************************************************)
(* What the garbage collector promises, without saying how: the program    *)
(* creates objects and rearranges the references it can reach, and now and *)
(* then a collection removes, in one step, exactly the objects that can no *)
(* longer be reached.                                                      *)
(***************************************************************************)
EXTENDS Heap

CONSTANTS
    Obj             \* the addresses an object can have

VARIABLES
    objects,        \* the objects that exist
    refs,           \* refs[o]: the objects that o refers to
    roots           \* the objects the program holds directly

vars == <<objects, refs, roots>>

Live == Reach(roots, refs)

Init ==
    /\ objects = {}
    /\ refs = [o \in Obj |-> {}]
    /\ roots = {}

(***************************************************************************)
(* The program creates at most one object and then changes roots and       *)
(* references; whatever it stores, it could reach or has just created.     *)
(***************************************************************************)
Program ==
    LET live == Live
    IN  \E new \in SUBSET (Obj \ objects) :
            /\ \A a, b \in new : a = b
            /\ objects' = objects \cup new
            /\ roots' \in SUBSET (live \cup new)
            /\ refs' \in {r \in [Obj -> SUBSET Obj] :
                            \A o \in Obj :
                                r[o] \subseteq (IF o \in live \cup new THEN live \cup new
                                               ELSE refs[o])}

(***************************************************************************)
(* A collection keeps the live objects and removes the rest.               *)
(***************************************************************************)
Collect ==
    LET live == Live
    IN  /\ objects' = live
        /\ refs' = [o \in Obj |-> IF o \in live THEN refs[o] ELSE {}]
        /\ UNCHANGED roots

Next == Program \/ Collect

Spec == Init /\ [][Next]_vars

(***************************************************************************)
(* The program never gets to an object that does not exist any more.       *)
(***************************************************************************)
LiveObjectsExist == Live \subseteq objects
=============================================================================
