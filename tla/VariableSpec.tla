---------------------------- MODULE VariableSpec ----------------------------
(***************************************************************************)
(* What lexical scoping promises a script: a variable is one cell, however *)
(* many closures captured it and whether or not the block that declared it *)
(* is still running.                                                       *)
(***************************************************************************)

CONSTANTS
    Var,            \* one for every execution of a declaration
    Value

VARIABLE
    values          \* values[x]: what one can get by reading x, taken over
                    \*   all places x can be read from; {} if there is none

Init == values = [x \in Var |-> {}]

(***************************************************************************)
(* A declaration of x, or an assignment: whoever makes it, everybody reads *)
(* the new value.                                                          *)
(***************************************************************************)
Stored(x, v) == [values EXCEPT ![x] = {v}]

(***************************************************************************)
(* The last places some variables could be read from are gone.             *)
(***************************************************************************)
Forgotten(xs) == [x \in Var |-> IF x \in xs THEN {} ELSE values[x]]

Next ==
    values' \in {Stored(x, v) : x \in Var, v \in Value}
                   \cup {Forgotten(xs) : xs \in SUBSET Var}

Spec == Init /\ [][Next]_values
=============================================================================
